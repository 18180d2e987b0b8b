------------------------------ MODULE ProbeStream ------------------------------
(***************************************************************************)
(* The verdict of the idle probe on the backend's answer:                  *)
(* probeBackendStreaming and repeatChecker of src/internal/probe/probe.go. *)
(* An SSE event carries a piece of reasoning and a piece of content; each  *)
(* field has a run counter of its own, and the length both add up to ends  *)
(* the probe early.  "text" remembers each field for the properties.       *)
(***************************************************************************)
EXTENDS Integers, Sequences

CONSTANTS
  Runes,         \* the runes of the answer
  Counted,       \* config: repeatChars, or all of Runes when it is empty
  WideRunes,     \* the runes UTF-8 encodes in WideBytes bytes, others in one
  WideBytes,
  NoRune,        \* the zero rune of a fresh checker
  RepeatLimit,   \* config
  SuccessLimit,  \* config, before clamping; 0 disables early success
  MaxPiece,      \* bound: longest piece of a field in an event
  MaxText        \* bound: longest field; a longer answer ends

\* What the values of the constants must satisfy.
ConstantsOK ==
  /\ Counted \subseteq Runes /\ WideRunes \subseteq Runes /\ NoRune \notin Runes
  /\ RepeatLimit \in Nat \ {0} /\ SuccessLimit \in Nat /\ WideBytes \in 1..4
  /\ MaxPiece \in Nat /\ MaxText \in Nat

Fields == {"reasoning", "content"}

VARIABLES
  checker,   \* the repeatChecker of each field
  totalLen,  \* totalLen
  verdict,   \* reading, or how the probe ended
  text       \* everything read of each field

vars == <<checker, totalLen, verdict, text>>

Fresh == [lastChar |-> NoRune, run |-> 0, failed |-> FALSE]

\* BuildProbeConfig: early success never comes before a run could be seen.
EffectiveSuccessLimit ==
  IF SuccessLimit > 0 /\ SuccessLimit < RepeatLimit THEN RepeatLimit ELSE SuccessLimit

\* One turn of repeatChecker.check, which returns at the first failing rune.
CheckRune(c, r) ==
  LET run == IF r \in Counted /\ r = c.lastChar THEN c.run + 1 ELSE 1
  IN  IF c.failed THEN c
      ELSE [lastChar |-> r, run |-> run, failed |-> r \in Counted /\ run >= RepeatLimit]

\* The loop over the first n runes of a piece.
CheckRunes(c, piece, n) ==
  LET checked[i \in 0..n] == IF i = 0 THEN c ELSE CheckRune(checked[i - 1], piece[i])
  IN  checked[n]

\* Mutant: each event is checked on its own.
CheckPerEvent(c, piece) == CheckRunes(Fresh, piece, Len(piece))

Check(c, piece) == CheckRunes(c, piece, Len(piece))

\* len() of the first n runes of a Go string.
Bytes(piece, n) ==
  LET bytes[i \in 0..n] ==
        IF i = 0 THEN 0
        ELSE bytes[i - 1] + (IF piece[i] \in WideRunes THEN WideBytes ELSE 1)
  IN  bytes[n]

TextBytes(piece) == Bytes(piece, Len(piece))

\* An event that parses: reasoning first, content only if reasoning passed,
\* then the length.
Event(piece) ==
  LET checked == [f \in Fields |-> Check(checker[f], piece[f])]
      len     == totalLen + TextBytes(piece["reasoning"]) + TextBytes(piece["content"])
  IN  /\ verdict = "reading"
      /\ text' = [f \in Fields |-> text[f] \o piece[f]]
      /\ checker' = [checked EXCEPT !["content"] =
                       IF checked["reasoning"].failed THEN checker["content"] ELSE @]
      /\ IF \E f \in Fields : checker'[f].failed
           THEN verdict' = "degenerate" /\ UNCHANGED totalLen
           ELSE /\ totalLen' = len
                /\ verdict' = IF EffectiveSuccessLimit > 0 /\ len >= EffectiveSuccessLimit
                                THEN "early" ELSE "reading"

\* The stream ends ([DONE] or EOF), or reading it fails (error, timeout).
End(how) ==
  /\ verdict = "reading"
  /\ verdict' = how
  /\ UNCHANGED <<checker, totalLen, text>>

\* The next probe starts from scratch.
ProbeAgain ==
  /\ verdict # "reading"
  /\ checker' = [f \in Fields |-> Fresh]
  /\ totalLen' = 0
  /\ verdict' = "reading"
  /\ text' = [f \in Fields |-> <<>>]

Init ==
  /\ checker = [f \in Fields |-> Fresh]
  /\ totalLen = 0
  /\ verdict = "reading"
  /\ text = [f \in Fields |-> <<>>]

Pieces == UNION {[1..n -> Runes] : n \in 0..MaxPiece}

Next ==
  \/ \E reasoning, content \in Pieces :
       /\ Len(text["reasoning"]) + Len(reasoning) <= MaxText
       /\ Len(text["content"]) + Len(content) <= MaxText
       /\ Event([f \in Fields |-> IF f = "reasoning" THEN reasoning ELSE content])
  \/ \E how \in {"finished", "broken"} : End(how)
  \/ ProbeAgain

Spec == Init /\ [][Next]_vars

-----------------------------------------------------------------------------
TypeOK ==
  /\ checker \in [Fields -> [lastChar : Runes \union {NoRune}, run : 0..MaxText,
                             failed : BOOLEAN]]
  /\ totalLen \in 0..(2 * MaxText * WideBytes)
  /\ verdict \in {"reading", "early", "finished", "degenerate", "broken"}
  /\ text \in [Fields -> Seq(Runes)]

\* Some field holds RepeatLimit times the same counted rune in a row.
Loops ==
  \E f \in Fields : \E i \in 1..(Len(text[f]) - RepeatLimit + 1) :
    /\ text[f][i] \in Counted
    /\ \A j \in i..(i + RepeatLimit - 1) : text[f][j] = text[f][i]

\* A probe fails as degenerate exactly on the event that completes a loop in
\* one field, wherever the event boundaries fall: no verdict of health comes
\* with a loop in the text that was read (probe.go:195-207, 238-243).
VerdictIsExact == verdict = "degenerate" <=> Loops
=============================================================================
