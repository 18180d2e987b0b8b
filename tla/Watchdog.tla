------------------------------- MODULE Watchdog -------------------------------
(***************************************************************************)
(* The watchdog policy of src/internal/watchdog/watchdog.go.               *)
(*                                                                         *)
(* While a chat completion is in flight one sampling loop (a goroutine     *)
(* owning a stop channel) fetches the backend's /slots.  Three monitors    *)
(* declare the backend unhealthy and run the command: over-speed (in the   *)
(* sampling loop), hardRepeat (on the copy path of a stream, which spawns  *)
(* a goroutine) and low draft acceptance (at the end of a completion,      *)
(* which spawns a goroutine).  All of them share one mutex, and every      *)
(* critical section of the code is one action here: what the code does     *)
(* between two critical sections may interleave.                           *)
(*                                                                         *)
(* Time is abstracted: "paused" stands for now < pauseUntil, and the       *)
(* action PauseExpires for the moment the clock reaches pauseUntil.        *)
(***************************************************************************)
EXTENDS Integers, FiniteSets

CONSTANTS
  Requests,     \* local chat completion requests; an ended one may be sent again
  Loops,        \* sampling loops, named by their stop channel; a dead one is reused
  Triggerers,   \* goroutines started by "go w.trigger(...)"
  NoLoop,       \* the nil stopProbe
  Times,        \* config: consecutive over-speed samples that start a judgement
  DraftTimes,   \* config: consecutive low draft completions that trigger
  HardOn,       \* config: hardRepeat > 0
  DraftOn,      \* config: minDraftRate > 0
  HasCommand,   \* config: command is not empty
  MaxDecoded,   \* bound: the largest sum of n_decoded a sample reports
  MaxDelta      \* maxRate * interval, in tokens

ASSUME LoopsAssumption == NoLoop \notin Loops
ASSUME RequestsAssumption == IsFiniteSet(Requests)
ASSUME StreaksAssumption == Times \in Nat \ {0} /\ DraftTimes \in Nat \ {0}
ASSUME SwitchesAssumption == {HardOn, DraftOn, HasCommand} \subseteq BOOLEAN
ASSUME RateAssumption == MaxDecoded \in Nat /\ MaxDelta \in Nat

VARIABLES
  req,          \* where the handler of each request is
  degenerate,   \* the streams whose content is marked as a dead loop
  done,         \* the responses whose observation was already published
  active,       \* Policy.active
  probing,      \* Policy.probing
  stopProbe,    \* Policy.stopProbe
  stop,         \* each stop channel: open, detached (about to be closed), closed
  pc,           \* where each sampling loop is
  prev,         \* Policy.prev
  wedges,       \* Policy.wedges, counted up to Times
  draftWedges,  \* Policy.draftWedges
  paused,       \* now < Policy.pauseUntil
  skipNext,     \* Policy.skipNext
  trig          \* what each trigger goroutine is doing

requestVars == <<req, degenerate, done>>
ownerVars   == <<active, probing, stopProbe, stop>>
streakVars  == <<prev, wedges, draftWedges>>
pauseVars   == <<paused, skipNext>>
vars == <<requestVars, ownerVars, pc, streakVars, pauseVars, trig>>

Sample == [processing : BOOLEAN, nDecoded : 0..MaxDecoded]

\* The responses registered in Policy.streams; all but the plain ones stream.
Tracked == {r \in Requests : req[r] \in {"plain", "stream", "hardCheck"}}
Streaming == {r \in Requests : req[r] \in {"stream", "hardCheck"}}

\* Requests between OnRequestStart and OnRequestEnd.
InFlight == {r \in Requests : req[r] # "idle"}

\* decideFast: no rate without a generating previous sample.
Fast(before, cur) ==
  /\ before.processing
  /\ cur.nDecoded - before.nDecoded > MaxDelta

TypeOK ==
  /\ req \in [Requests -> {"idle", "sent", "plain", "stream", "hardCheck", "closed"}]
  /\ degenerate \subseteq Requests
  /\ done \subseteq Requests
  /\ active \in Nat
  /\ probing \in BOOLEAN
  /\ stopProbe \in Loops \union {NoLoop}
  /\ stop \in [Loops -> {"open", "detached", "closed"}]
  /\ pc \in [Loops -> {"dead", "wait", "fetch", "slow", "fast", "judge",
                       "trigger", "command", "after"}]
  /\ prev \in Sample
  /\ wedges \in 0..Times
  /\ draftWedges \in 0..(DraftTimes - 1)
  /\ paused \in BOOLEAN
  /\ skipNext \in BOOLEAN
  /\ trig \in [Triggerers -> {"idle", "hard", "draft", "command"}]

Init ==
  /\ req = [r \in Requests |-> "idle"]
  /\ degenerate = {}
  /\ done = {}
  /\ active = 0
  /\ probing = FALSE
  /\ stopProbe = NoLoop
  /\ stop = [l \in Loops |-> "closed"]
  /\ pc = [l \in Loops |-> "dead"]
  /\ prev = [processing |-> FALSE, nDecoded |-> 0]
  /\ wedges = 0
  /\ draftWedges = 0
  /\ paused = FALSE
  /\ skipNext = FALSE
  /\ trig = [g \in Triggerers |-> "idle"]

-----------------------------------------------------------------------------
(* Requests: the first one in flight starts a loop, the last one stops it. *)

StartLoop(l) ==
  /\ pc[l] = "dead"
  /\ stop[l] = "closed"
  /\ probing' = TRUE
  /\ stopProbe' = l
  /\ stop' = [stop EXCEPT ![l] = "open"]
  /\ pc' = [pc EXCEPT ![l] = "wait"]

\* Mutant: the count is set by the first request and not incremented by others.
OnRequestStartUncounted(r) ==
  /\ req[r] = "idle"
  /\ req' = [req EXCEPT ![r] = "sent"]
  /\ active' = 1
  /\ IF active = 0 /\ ~probing
       THEN \E l \in Loops : StartLoop(l)
       ELSE UNCHANGED <<probing, stopProbe, stop, pc>>
  /\ UNCHANGED <<degenerate, done, streakVars, pauseVars, trig>>

OnRequestStart(r) ==
  /\ req[r] = "idle"
  /\ req' = [req EXCEPT ![r] = "sent"]
  /\ active' = active + 1
  /\ IF active = 0 /\ ~probing
       THEN \E l \in Loops : StartLoop(l)
       ELSE UNCHANGED <<probing, stopProbe, stop, pc>>
  /\ UNCHANGED <<degenerate, done, streakVars, pauseVars, trig>>

\* Mutant: the last request stops the loop and leaves probing set.
OnRequestEndKeepsProbing(r) ==
  /\ req[r] \in {"sent", "closed"}
  /\ req' = [req EXCEPT ![r] = "idle"]
  /\ active' = IF active > 0 THEN active - 1 ELSE active
  /\ stop' = IF active' = 0 /\ stopProbe \in Loops
               THEN [stop EXCEPT ![stopProbe] = "detached"] ELSE stop
  /\ stopProbe' = IF active' = 0 THEN NoLoop ELSE stopProbe
  /\ UNCHANGED <<degenerate, done, probing, pc, streakVars, pauseVars, trig>>

\* Mutant: the loop is stopped by any request that ends, not by the last one.
OnRequestEndAlwaysStops(r) ==
  /\ req[r] \in {"sent", "closed"}
  /\ req' = [req EXCEPT ![r] = "idle"]
  /\ active' = IF active > 0 THEN active - 1 ELSE active
  /\ probing' = FALSE
  /\ stopProbe' = NoLoop
  /\ stop' = IF stopProbe \in Loops THEN [stop EXCEPT ![stopProbe] = "detached"] ELSE stop
  /\ UNCHANGED <<degenerate, done, pc, streakVars, pauseVars, trig>>

\* The handler returns: its response was closed, or there never was one.
OnRequestEnd(r) ==
  /\ req[r] \in {"sent", "closed"}
  /\ req' = [req EXCEPT ![r] = "idle"]
  /\ active' = IF active > 0 THEN active - 1 ELSE active
  /\ IF active' = 0 /\ probing
       THEN /\ probing' = FALSE
            /\ stopProbe' = NoLoop
            /\ stop' = IF stopProbe \in Loops
                         THEN [stop EXCEPT ![stopProbe] = "detached"]
                         ELSE stop
       ELSE UNCHANGED <<probing, stopProbe, stop>>
  /\ UNCHANGED <<degenerate, done, pc, streakVars, pauseVars, trig>>

\* close(stop), after OnRequestEnd released the mutex.
CloseStop(l) ==
  /\ stop[l] = "detached"
  /\ stop' = [stop EXCEPT ![l] = "closed"]
  /\ UNCHANGED <<requestVars, active, probing, stopProbe, pc, streakVars, pauseVars, trig>>

-----------------------------------------------------------------------------
(* The response of a request, as the completion tap reports it.            *)

OnStreamStart(r, kind) ==
  /\ req[r] = "sent"
  /\ req' = [req EXCEPT ![r] = kind]
  /\ degenerate' = degenerate \ {r}
  /\ done' = done \ {r}
  /\ UNCHANGED <<ownerVars, pc, streakVars, pauseVars, trig>>

\* One piece of content leaves the degenerate mark either way and may cross
\* hardRepeat (module ContentLoop has the rune by rune algorithm).
OnStreamContent(r, marked, crossed) ==
  /\ req[r] = "stream"
  /\ degenerate' = IF marked THEN degenerate \union {r} ELSE degenerate \ {r}
  /\ crossed => HardOn
  /\ req' = [req EXCEPT ![r] = IF crossed THEN "hardCheck" ELSE "stream"]
  /\ UNCHANGED <<done, ownerVars, pc, streakVars, pauseVars, trig>>

Spawn(g, why) == trig[g] = "idle" /\ trig' = [trig EXCEPT ![g] = why]

\* "if hardTrigger && !w.paused() { go w.trigger(...) }", in a section of its own.
HardCheck(r) ==
  /\ req[r] = "hardCheck"
  /\ req' = [req EXCEPT ![r] = "stream"]
  /\ IF paused THEN UNCHANGED trig ELSE \E g \in Triggerers : Spawn(g, "hard")
  /\ UNCHANGED <<degenerate, done, ownerVars, pc, streakVars, pauseVars>>

\* Mutant: the pause is not consulted.
ObserveDraftInPause(low) ==
  LET streak == IF low THEN draftWedges + 1 ELSE 0
  IN  IF streak >= DraftTimes
        THEN /\ draftWedges' = 0
             /\ paused' = TRUE
             /\ skipNext' = TRUE
             /\ \E g \in Triggerers : Spawn(g, "draft")
        ELSE /\ draftWedges' = streak
             /\ UNCHANGED <<pauseVars, trig>>

\* observeDraft, one critical section: it is silent in a pause, counts the
\* consecutive low completions and starts the pause itself when it triggers.
ObserveDraft(low) ==
  LET streak == IF low THEN draftWedges + 1 ELSE 0
  IN  IF paused
        THEN UNCHANGED <<draftWedges, pauseVars, trig>>
        ELSE IF streak >= DraftTimes
               THEN /\ draftWedges' = 0
                    /\ paused' = TRUE
                    /\ skipNext' = TRUE
                    /\ \E g \in Triggerers : Spawn(g, "draft")
               ELSE /\ draftWedges' = streak
                    /\ UNCHANGED <<pauseVars, trig>>

\* The observation of a response is published at most once; without draft
\* data, or with the check disabled, the watchdog ignores it.
OnCompletion(r, hasDraft, low) ==
  /\ r \in Tracked
  /\ req[r] # "hardCheck"
  /\ r \notin done
  /\ done' = done \union {r}
  /\ IF DraftOn /\ hasDraft THEN ObserveDraft(low)
                            ELSE UNCHANGED <<draftWedges, pauseVars, trig>>
  /\ UNCHANGED <<req, degenerate, ownerVars, pc, prev, wedges>>

\* The response body is closed: the stream leaves Policy.streams.
OnStreamEnd(r) ==
  /\ req[r] \in {"plain", "stream"}
  /\ req' = [req EXCEPT ![r] = "closed"]
  /\ degenerate' = degenerate \ {r}
  /\ done' = done \ {r}
  /\ UNCHANGED <<ownerVars, pc, streakVars, pauseVars, trig>>

-----------------------------------------------------------------------------
(* The sampling loop.                                                      *)

Goto(l, label) == pc' = [pc EXCEPT ![l] = label]

\* Mutant: a loop that finds the pause on ends instead of skipping the tick.
TimerFiresLeaves(l) ==
  /\ pc[l] = "wait"
  /\ Goto(l, IF paused THEN "dead" ELSE "fetch")
  /\ UNCHANGED <<requestVars, ownerVars, streakVars, pauseVars, trig>>

\* The timer wins the select (also against a closed stop channel: the choice
\* is random) and the pause check that opens Tick follows at once.
TimerFires(l) ==
  /\ pc[l] = "wait"
  /\ Goto(l, IF paused THEN "after" ELSE "fetch")
  /\ UNCHANGED <<requestVars, ownerVars, streakVars, pauseVars, trig>>

\* The select receives from the closed stop channel.
StopSeen(l) ==
  /\ pc[l] = "wait"
  /\ stop[l] = "closed"
  /\ Goto(l, "dead")
  /\ UNCHANGED <<requestVars, ownerVars, streakVars, pauseVars, trig>>

\* Mutant: the pause of a failed fetch does not ask for a new baseline.
FetchFailsKeepsBaseline(l) ==
  /\ pc[l] = "fetch"
  /\ wedges' = 0
  /\ paused' = TRUE
  /\ Goto(l, "after")
  /\ UNCHANGED <<requestVars, ownerVars, prev, draftWedges, skipNext, trig>>

\* The fetch fails: the streak breaks, and a pause starts unless one is on.
FetchFails(l) ==
  /\ pc[l] = "fetch"
  /\ wedges' = 0
  /\ paused' = TRUE
  /\ skipNext' = IF paused THEN skipNext ELSE TRUE
  /\ Goto(l, "after")
  /\ UNCHANGED <<requestVars, ownerVars, prev, draftWedges, trig>>

\* The fetch succeeds: baseline only after a pause, else compare with prev.
FetchSucceeds(l, state) ==
  /\ pc[l] = "fetch"
  /\ prev' = state
  /\ skipNext' = FALSE
  /\ IF skipNext
       THEN wedges' = 0 /\ Goto(l, "after")
       ELSE /\ UNCHANGED wedges
            /\ Goto(l, IF Fast(prev, state) THEN "fast" ELSE "slow")
  /\ UNCHANGED <<requestVars, ownerVars, draftWedges, paused, trig>>

\* Mutant: a sample that is not too fast leaves the streak as it was.
NotFastKeepsStreak(l) ==
  /\ pc[l] = "slow"
  /\ Goto(l, "after")
  /\ UNCHANGED <<requestVars, ownerVars, streakVars, pauseVars, trig>>

NotFast(l) ==
  /\ pc[l] = "slow"
  /\ wedges' = 0
  /\ Goto(l, "after")
  /\ UNCHANGED <<requestVars, ownerVars, prev, draftWedges, pauseVars, trig>>

OverSpeed(l) ==
  /\ pc[l] = "fast"
  /\ wedges' = IF wedges < Times THEN wedges + 1 ELSE wedges
  /\ Goto(l, IF wedges + 1 < Times THEN "after" ELSE "judge")
  /\ UNCHANGED <<requestVars, ownerVars, prev, draftWedges, pauseVars, trig>>

\* evaluateLoop holds when there are completions and all of them are streams
\* with a sound content.
Hold == Tracked # {} /\ Tracked \subseteq Streaming /\ Tracked \intersect degenerate = {}

EvaluateLoop(l) ==
  /\ pc[l] = "judge"
  /\ Goto(l, IF Hold THEN "after" ELSE "trigger")
  /\ UNCHANGED <<requestVars, ownerVars, streakVars, pauseVars, trig>>

\* trigger's critical section: what every monitor does to the shared state.
DeclareUnhealthy ==
  /\ paused' = TRUE
  /\ wedges' = 0
  /\ skipNext' = TRUE
  /\ UNCHANGED <<prev, draftWedges>>

LoopTriggers(l) ==
  /\ pc[l] = "trigger"
  /\ DeclareUnhealthy
  /\ Goto(l, IF HasCommand THEN "command" ELSE "after")
  /\ UNCHANGED <<requestVars, ownerVars, trig>>

\* RunCommand returns; the loop's own command blocks the loop until then.
LoopCommandEnds(l) ==
  /\ pc[l] = "command"
  /\ Goto(l, "after")
  /\ UNCHANGED <<requestVars, ownerVars, streakVars, pauseVars, trig>>

\* Mutant: a loop that lost its ownership samples on for the new owner.
AfterTickUnowned(l) ==
  /\ pc[l] = "after"
  /\ IF active = 0
       THEN Goto(l, "dead") /\ probing' = FALSE
       ELSE Goto(l, "wait") /\ UNCHANGED probing
  /\ UNCHANGED <<requestVars, active, stopProbe, stop, streakVars, pauseVars, trig>>

\* Back in probeLoop after a tick: give up when another loop owns sampling or
\* no request is left, else rearm the timer.
AfterTick(l) ==
  /\ pc[l] = "after"
  /\ IF stopProbe # l
       THEN Goto(l, "dead") /\ UNCHANGED probing
       ELSE IF active = 0
              THEN Goto(l, "dead") /\ probing' = FALSE
              ELSE Goto(l, "wait") /\ UNCHANGED probing
  /\ UNCHANGED <<requestVars, active, stopProbe, stop, streakVars, pauseVars, trig>>

-----------------------------------------------------------------------------
(* Trigger goroutines and the clock.                                       *)

GoTrigger(g) ==
  /\ trig[g] \in {"hard", "draft"}
  /\ DeclareUnhealthy
  /\ trig' = [trig EXCEPT ![g] = IF HasCommand THEN "command" ELSE "idle"]
  /\ UNCHANGED <<requestVars, ownerVars, pc>>

GoCommandEnds(g) ==
  /\ trig[g] = "command"
  /\ trig' = [trig EXCEPT ![g] = "idle"]
  /\ UNCHANGED <<requestVars, ownerVars, pc, streakVars, pauseVars>>

PauseExpires ==
  /\ paused
  /\ paused' = FALSE
  /\ UNCHANGED <<requestVars, ownerVars, pc, streakVars, skipNext, trig>>

-----------------------------------------------------------------------------
Response(r) ==
  \/ \E kind \in {"plain", "stream"} : OnStreamStart(r, kind)
  \/ \E marked, crossed \in BOOLEAN : OnStreamContent(r, marked, crossed)
  \/ HardCheck(r)
  \/ \E hasDraft, low \in BOOLEAN : OnCompletion(r, hasDraft, low)
  \/ OnStreamEnd(r)

Tick(l) ==
  \/ TimerFires(l)
  \/ FetchFails(l)
  \/ \E state \in Sample : FetchSucceeds(l, state)
  \/ NotFast(l)
  \/ OverSpeed(l)
  \/ EvaluateLoop(l)
  \/ LoopTriggers(l)

\* Everything a loop does by itself; only the end of a command is up to others.
ProbeLoop(l) == Tick(l) \/ StopSeen(l) \/ AfterTick(l)

Next ==
  \/ \E r \in Requests : OnRequestStart(r) \/ OnRequestEnd(r) \/ Response(r)
  \/ \E l \in Loops : ProbeLoop(l) \/ CloseStop(l) \/ LoopCommandEnds(l)
  \/ \E g \in Triggerers : GoTrigger(g) \/ GoCommandEnds(g)
  \/ PauseExpires

\* The Go scheduler runs every runnable goroutine, timers fire and a fetch has
\* a five second timeout.  Nothing is assumed of clients, of the backend's
\* answers or of the length of a command.
Fairness ==
  /\ \A l \in Loops : WF_vars(ProbeLoop(l)) /\ WF_vars(CloseStop(l))
  /\ \A r \in Requests : WF_vars(HardCheck(r))
  /\ \A g \in Triggerers : WF_vars(GoTrigger(g))
  /\ WF_vars(PauseExpires)

Spec == Init /\ [][Next]_vars
FairSpec == Spec /\ Fairness

-----------------------------------------------------------------------------
(* Properties.                                                             *)

\* The count of in-flight completions is exact, so the guard "active > 0" of
\* OnRequestEnd (watchdog.go:195) never hides an unbalanced call.
CountInv == active = Cardinality(InFlight)

\* Sampling is owned: a loop owns it exactly while completions are in flight,
\* the owner is alive and was not told to stop, and every other live loop was
\* told to stop (its channel is detached or closed).  So two loops never
\* sample for long, and "active == 0" in probeLoop (watchdog.go:226) is dead.
OwnerInv ==
  /\ probing <=> active > 0
  /\ probing <=> stopProbe # NoLoop
  /\ \A l \in Loops :
       IF l = stopProbe THEN pc[l] # "dead" /\ stop[l] = "open"
                        ELSE stop[l] # "open"

\* A completion in flight is counted, and covered by a live loop nobody stopped.
SamplingCovered ==
  /\ CountInv
  /\ InFlight # {} => \E l \in Loops : pc[l] # "dead" /\ stop[l] = "open"

\* The owner does not change while completions stay in flight, whichever of
\* them come and go: a completion that outlives the first one is sampled by the
\* same loop, without a gap.
OwnerStays ==
  [][InFlight # {} /\ InFlight' # {} => stopProbe' = stopProbe]_vars

\* A loop that lost its ownership takes part in at most the tick it is in: it
\* ends by itself, or it is stuck in a command that does not end.
OrphanRetires ==
  \A l \in Loops :
    (pc[l] # "dead" /\ stopProbe # l) ~> pc[l] \in {"dead", "command"}

\* While completions stay in flight sampling goes on: a fetch starts again,
\* unless a pause is on or the loop waits for its own command.
SamplingContinues ==
  InFlight # {} ~>
    \/ InFlight = {}
    \/ paused
    \/ \E l \in Loops : pc[l] \in {"fetch", "command"}

\* A low-draft trigger fires only outside a pause, so one pause holds at most
\* one of them: check and pause are one critical section (watchdog.go:376-391).
DraftOutsidePause ==
  [][\A g \in Triggerers : trig[g] # "draft" /\ trig'[g] = "draft" => ~paused /\ paused']_vars

\* "and is skipped while the watchdog is paused" (watchdog.go:435): in a pause
\* whose command is already running no hardRepeat trigger runs it once more.
HardOutsidePause ==
  [][\A g \in Triggerers :
       /\ trig[g] = "hard" /\ trig'[g] = "command"
       /\ paused
       => \A h \in Triggerers : trig[h] # "command"]_vars
=============================================================================
