------------------------------ MODULE ContentLoop ------------------------------
(***************************************************************************)
(* How the watchdog judges the content of one streaming completion:        *)
(* Policy.OnStreamContent of src/internal/watchdog/watchdog.go, rune by    *)
(* rune.  "text" and "cuts" are history variables: all the runes fed so    *)
(* far, and where each piece ended; the text is cut in every possible way. *)
(***************************************************************************)
EXTENDS Integers, Sequences, FiniteSets

CONSTANTS
  Runes,        \* the runes of the generated content
  Counted,      \* config: repeatChars, or all of Runes when it is empty
  NoRune,       \* the zero rune of a fresh stream
  RepeatLimit,  \* config: run that marks a stream degenerate
  HardRepeat,   \* config: run that triggers by itself, 0 when disabled
  MaxPiece,     \* bound: longest piece of content
  MaxText       \* bound: longest content

\* What the values of the constants must satisfy.
ConstantsOK ==
  /\ Counted \subseteq Runes /\ NoRune \notin Runes
  /\ RepeatLimit \in Nat \ {0} /\ HardRepeat \in Nat
  /\ MaxPiece \in Nat \ {0} /\ MaxText \in Nat

VARIABLES
  state,        \* streamState, with whether the current piece crossed hardRepeat
  alarms,       \* pieces that crossed hardRepeat so far
  text,         \* everything fed so far
  cuts          \* the lengths of the text at which a piece ended

vars == <<state, alarms, text, cuts>>

Fresh == [lastRune |-> NoRune, run |-> 0, clean |-> 0, degenerate |-> FALSE,
          crossed |-> FALSE]

\* countsRepeat
CountsRepeat(r) == r \in Counted

\* Mutant: a mark once set is never lifted.
FeedRuneForever(s, r) ==
  LET extends == CountsRepeat(r) /\ r = s.lastRune
      run     == IF extends THEN s.run + 1 ELSE 1
  IN  [lastRune   |-> r,
       run        |-> run,
       clean      |-> IF extends THEN 0 ELSE s.clean + 1,
       degenerate |-> s.degenerate \/ (CountsRepeat(r) /\ run >= RepeatLimit),
       crossed    |-> s.crossed \/ (HardRepeat > 0 /\ CountsRepeat(r) /\ run = HardRepeat)]

\* Mutant: every rune past hardRepeat counts as a crossing.
FeedRuneAlarmsOn(s, r) ==
  LET extends == CountsRepeat(r) /\ r = s.lastRune
      run     == IF extends THEN s.run + 1 ELSE 1
      clean   == IF extends THEN 0 ELSE s.clean + 1
      marked  == s.degenerate \/ (CountsRepeat(r) /\ run >= RepeatLimit)
  IN  [lastRune   |-> r,
       run        |-> run,
       clean      |-> clean,
       degenerate |-> marked /\ clean < RepeatLimit,
       crossed    |-> s.crossed \/ (HardRepeat > 0 /\ CountsRepeat(r) /\ run >= HardRepeat)]

\* One turn of the loop over the runes of a piece.
FeedRune(s, r) ==
  LET extends == CountsRepeat(r) /\ r = s.lastRune
      run     == IF extends THEN s.run + 1 ELSE 1
      clean   == IF extends THEN 0 ELSE s.clean + 1
      marked  == s.degenerate \/ (CountsRepeat(r) /\ run >= RepeatLimit)
  IN  [lastRune   |-> r,
       run        |-> run,
       clean      |-> clean,
       degenerate |-> marked /\ clean < RepeatLimit,
       crossed    |-> s.crossed \/ (HardRepeat > 0 /\ CountsRepeat(r) /\ run = HardRepeat)]

\* The loop over the first n runes of a piece.
FeedRunes(s, piece, n) ==
  LET fed[i \in 0..n] == IF i = 0 THEN s ELSE FeedRune(fed[i - 1], piece[i])
  IN  fed[n]

\* Mutant: a stream that alarmed once does not alarm again.
OnStreamContentAlarmsOnce(piece) ==
  LET fed == FeedRunes([state EXCEPT !.crossed = FALSE], piece, Len(piece))
  IN  /\ state' = fed
      /\ alarms' = IF fed.crossed THEN 1 ELSE alarms
      /\ text' = text \o piece
      /\ cuts' = cuts \union {Len(text')}

OnStreamContent(piece) ==
  LET fed == FeedRunes([state EXCEPT !.crossed = FALSE], piece, Len(piece))
  IN  /\ state' = fed
      /\ alarms' = alarms + (IF fed.crossed THEN 1 ELSE 0)
      /\ text' = text \o piece
      /\ cuts' = cuts \union {Len(text')}

\* Mutant: the counters of a stream live on in the next one.
NextStreamKeepsCounters ==
  state' = [state EXCEPT !.degenerate = FALSE] /\ alarms' = 0 /\ text' = <<>> /\ cuts' = {}

\* OnStreamEnd, then OnStreamStart of the next completion.
NextStream == state' = Fresh /\ alarms' = 0 /\ text' = <<>> /\ cuts' = {}

Init == state = Fresh /\ alarms = 0 /\ text = <<>> /\ cuts = {}

Next ==
  \/ \E n \in 1..MaxPiece :
       /\ Len(text) + n <= MaxText
       /\ \E piece \in [1..n -> Runes] : OnStreamContent(piece)
  \/ NextStream

Spec == Init /\ [][Next]_vars

-----------------------------------------------------------------------------
(* What the counters mean, stated over the whole text.                     *)

\* Rune i repeats the one before it, and repetition of it counts.
Extends(i) == i > 1 /\ text[i] = text[i - 1] /\ text[i] \in Counted

\* The run that ends at rune i is at least n long.
RunReaches(i, n) == i >= n /\ text[i] \in Counted /\ \A j \in (i - n + 2)..i : Extends(j)

TypeOK ==
  /\ state \in [lastRune : Runes \union {NoRune}, run : 0..MaxText, clean : 0..MaxText,
                degenerate : BOOLEAN, crossed : BOOLEAN]
  /\ alarms \in 0..MaxText
  /\ text \in Seq(Runes) /\ Len(text) <= MaxText
  /\ cuts \subseteq 1..MaxText

\* A stream is marked exactly when a counted run reached repeatLimit and no
\* stretch of repeatLimit runes without repetition followed: an old divider
\* does not poison a later judgement, a fresh loop is never missed, and how the
\* content was cut into pieces does not matter (watchdog.go:424-432).
MarkIsExact ==
  state.degenerate <=>
    \E i \in 1..Len(text) :
      /\ RunReaches(i, RepeatLimit)
      /\ ~\E j \in i..Len(text) :
            /\ j >= RepeatLimit
            /\ \A k \in (j - RepeatLimit + 1)..j : ~Extends(k)

\* Where a maximal counted run of at least hardRepeat runes has its crossing.
Crossings == IF HardRepeat = 0 THEN {}
             ELSE {i \in 1..Len(text) :
                     /\ RunReaches(i, HardRepeat)
                     /\ ~RunReaches(i, HardRepeat + 1)}

\* The pieces that hold a crossing, named by where they end: the piece of a
\* crossing is the first one to end at it or behind it.
CrossedPieces ==
  {c \in cuts : \E i \in Crossings : i <= c /\ \A d \in cuts : i <= d => c <= d}

\* "the crossing is detected exactly once per run" (watchdog.go:457): each loop
\* that reaches hardRepeat alarms in the piece that brings it there, a second
\* and a third one of the stream as well as the first, and none alarms again
\* however long it goes on; loops that cross in one piece share its alarm.
OneAlarmPerRun == alarms = Cardinality(CrossedPieces)
=============================================================================
