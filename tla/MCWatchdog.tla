------------------------------ MODULE MCWatchdog ------------------------------
(***************************************************************************)
(* Watchdog with history variables, for the properties that relate a step  *)
(* to what happened before it.  The history observes and never constrains. *)
(***************************************************************************)
EXTENDS Watchdog, TLC

VARIABLES
  sincePause,  \* no pause to account for, or how the latest one began: with
               \* no fetch in flight (clean) or with one (overlapped)
  streak,      \* fetches that ended with an over-speed sample since one that did
               \* not (a slow sample, a baseline, a failure), counted up to Times
  mixed        \* a fetch ended while another loop stood between the two critical
               \* sections of its sample, and that may still show in wedges

history == <<sincePause, streak, mixed>>

InitH == Init /\ sincePause = "none" /\ streak = 0 /\ mixed = FALSE

\* A pause begins, or a trigger renews the one that is on.
PauseBegins ==
  \/ ~paused /\ paused'
  \/ \E l \in Loops : pc[l] = "trigger" /\ pc'[l] # "trigger"
  \/ \E g \in Triggerers :
       trig[g] \in {"hard", "draft"} /\ trig'[g] \notin {"hard", "draft"}

\* Loop l stores a sample.
Samples(l) == pc[l] = "fetch" /\ pc'[l] # "fetch" /\ ~PauseBegins

ObservePause ==
  sincePause' =
    IF PauseBegins
      THEN IF \E l \in Loops : pc'[l] = "fetch" THEN "overlapped" ELSE "clean"
      ELSE IF ~paused /\ \E l \in Loops : Samples(l) THEN "none" ELSE sincePause

\* Tick stores a sample in one critical section and counts it in the next
\* (watchdog.go:270-282, then 285-287 or 300-304); loops that stand between the two.
MidSample == {l \in Loops : pc[l] \in {"slow", "fast"}}

EndsFetch(l) == pc[l] = "fetch" /\ pc'[l] # "fetch"

ObserveStreak ==
  streak' =
    IF \A l \in Loops : ~EndsFetch(l) THEN streak
    ELSE IF \A l \in Loops : EndsFetch(l) => pc'[l] # "fast" THEN 0
    ELSE IF streak < Times THEN streak + 1 ELSE streak

ObserveMixing ==
  mixed' = IF MidSample # {} /\ \E l \in Loops : EndsFetch(l) THEN TRUE
           ELSE mixed /\ ~(wedges' = 0 /\ MidSample' = {})

NextH == Next /\ ObservePause /\ ObserveStreak /\ ObserveMixing
SpecH == InitH /\ [][NextH]_<<vars, history>>

Perms == Permutations(Requests) \union Permutations(Loops) \union Permutations(Triggerers)

\* After a pause that began with no fetch in flight, the first sample is a
\* baseline only: it is never rate-checked against a sample from before.
BaselineAfterCleanPause ==
  [][\A l \in Loops :
       /\ pc[l] = "fetch" /\ pc'[l] \in {"slow", "fast"}
       /\ ~paused
       => sincePause # "clean"]_<<vars, history>>

\* "only after `times` consecutive over-speed samples the in-flight completions
\* are judged" (watchdog.go:297), so "a single burst never triggers it": a
\* judgement starts only when the last Times fetches that ended all brought an
\* over-speed sample, whichever loop made them and whatever triggers, pauses and
\* changes of the owner came in between.  Two loops that interleave the two
\* sections of their samples are left out: then the code counts otherwise.
StreakIsConsecutive ==
  [][\A l \in Loops :
       /\ pc[l] = "fast" /\ pc'[l] = "judge"
       /\ ~mixed
       => streak >= Times]_<<vars, history>>
=============================================================================
