----------------------------- MODULE CloudRouting -----------------------------
(***************************************************************************)
(* Where a request goes: ServeHTTP (src/internal/proxy/proxy.go), the      *)
(* cloud slots of src/internal/proxy/cloud.go, the backend's liveness      *)
(* tracker and the two writers of it, the poll and the /stats/control      *)
(* handler of src/internal/stats/stats.go.                                 *)
(*                                                                         *)
(* Handlers run concurrently; every read or write of shared state is an    *)
(* action.  What the size estimate and the idle probe answer is a choice   *)
(* here: modules IdlePolicies and ProbeStream have the probe.              *)
(***************************************************************************)
EXTENDS Integers, FiniteSets

CONSTANTS
  Handlers,        \* concurrent requests
  Controllers,     \* concurrent POSTs to /stats/control
  Nobody,          \* ctrlMu is free
  MaxConcurrency,  \* config: cloud.maxConcurrency, 0 for no limit
  Fallback         \* config: cloud.fallback

ASSUME HandlersAssumption == IsFiniteSet(Handlers)
ASSUME ControllersAssumption == Nobody \notin Controllers
ASSUME LimitAssumption == MaxConcurrency \in Nat
ASSUME FallbackAssumption == Fallback \in BOOLEAN

VARIABLES
  at,       \* where each request handler is
  kind,     \* the request: judged chat completion, other chat completion, rest
  gone,     \* clients that disconnected
  slots,    \* len(cloudRouter.sem)
  active,   \* the watchdog's count of local chat completions
  alive,    \* backendHealth.alive
  accepts,  \* whether the backend's port accepts connections
  poll,     \* pollHealth: asleep, or what it dialed and has yet to compare or set
  ctrlMu,   \* the controller that holds ctrlMu
  ctrl      \* what each controller runs: nothing, a command, its health update

requestVars == <<at, kind, gone>>
healthVars  == <<alive, accepts, poll>>
ctrlVars    == <<ctrlMu, ctrl>>
vars == <<requestVars, slots, active, healthVars, ctrlVars>>

Kinds == {"judged", "unjudged", "rest"}
Polls == {"asleep", "sawUp", "sawDown", "setUp", "setDown"}
Controls == {"none", "start", "stop", "setUp", "setDown"}

\* r.URL.Path == completionsPath: what the watchdog counts.
OnChatPath(h) == kind[h] # "rest"

InCloud == {h \in Handlers : at[h] = "cloud"}
Sampled == {h \in Handlers : at[h] = "local" /\ OnChatPath(h)}

TypeOK ==
  /\ at \in [Handlers -> {"idle", "decide", "judge", "refresh", "probe", "waitReady",
                          "rejudge", "forward", "acquire", "local", "cloud"}]
  /\ kind \in [Handlers -> Kinds]
  /\ gone \subseteq Handlers
  /\ slots \in Nat
  /\ active \in Nat
  /\ alive \in BOOLEAN
  /\ accepts \in BOOLEAN
  /\ poll \in Polls
  /\ ctrlMu \in Controllers \union {Nobody}
  /\ ctrl \in [Controllers -> Controls]

\* The tracker starts optimistic, whatever the backend is.
Init ==
  /\ at = [h \in Handlers |-> "idle"]
  /\ kind = [h \in Handlers |-> "rest"]
  /\ gone = {}
  /\ slots = 0
  /\ active = 0
  /\ alive = TRUE
  /\ accepts \in BOOLEAN
  /\ poll = "asleep"
  /\ ctrlMu = Nobody
  /\ ctrl = [c \in Controllers |-> "none"]

-----------------------------------------------------------------------------
(* ServeHTTP.                                                              *)

Goto(h, label) == at' = [at EXCEPT ![h] = label]

\* The handler returns: what belongs to its request is dropped.
Return(h) ==
  /\ Goto(h, "idle")
  /\ kind' = [kind EXCEPT ![h] = "rest"]
  /\ gone' = gone \ {h}

Arrive(h, k) ==
  /\ at[h] = "idle"
  /\ Goto(h, "decide")
  /\ kind' = [kind EXCEPT ![h] = k]
  /\ UNCHANGED <<gone, slots, active, healthVars, ctrlVars>>

\* A down backend sends any request to the cloud; else Route decides, which
\* answers "local" at once for what it does not judge.
Decide(h) ==
  /\ at[h] = "decide"
  /\ Goto(h, IF Fallback /\ ~alive THEN "acquire"
             ELSE IF kind[h] = "judged" THEN "judge" ELSE "refresh")
  /\ UNCHANGED <<kind, gone, slots, active, healthVars, ctrlVars>>

\* Route answers for a judged request: too big for the local context, or not
\* (also when the size or the context window could not be found out).
Judge(h, big) ==
  /\ at[h] = "judge"
  /\ Goto(h, IF big THEN "acquire" ELSE "refresh")
  /\ UNCHANGED <<kind, gone, slots, active, healthVars, ctrlVars>>

\* The idle timers this refreshes are in module IdlePolicies.
OnHTTPRequest(h) ==
  /\ at[h] = "refresh"
  /\ Goto(h, "probe")
  /\ UNCHANGED <<kind, gone, slots, active, healthVars, ctrlVars>>

\* probe.ConsumeIdle: ran is whether it had the backend restarted.
Probe(h, ran) ==
  /\ at[h] = "probe"
  /\ Goto(h, IF ran THEN "waitReady" ELSE "forward")
  /\ UNCHANGED <<kind, gone, slots, active, healthVars, ctrlVars>>

\* waitBackendReady ends on a 2xx of /health or with the client; then Route is
\* asked again, whatever the liveness tracker says.
BackendReady(h) ==
  /\ at[h] = "waitReady"
  /\ accepts \/ h \in gone
  /\ Goto(h, IF kind[h] = "judged" THEN "rejudge" ELSE "forward")
  /\ UNCHANGED <<kind, gone, slots, active, healthVars, ctrlVars>>

Rejudge(h, big) ==
  /\ at[h] = "rejudge"
  /\ Goto(h, IF big THEN "acquire" ELSE "forward")
  /\ UNCHANGED <<kind, gone, slots, active, healthVars, ctrlVars>>

\* Mutant: every local request starts sampling.
ForwardLocalAnyPath(h) ==
  /\ at[h] = "forward"
  /\ Goto(h, "local")
  /\ active' = active + 1
  /\ UNCHANGED <<kind, gone, slots, healthVars, ctrlVars>>

ForwardLocal(h) ==
  /\ at[h] = "forward"
  /\ Goto(h, "local")
  /\ active' = IF OnChatPath(h) THEN active + 1 ELSE active
  /\ UNCHANGED <<kind, gone, slots, healthVars, ctrlVars>>

LocalEnds(h) ==
  /\ at[h] = "local"
  /\ Return(h)
  /\ active' = IF OnChatPath(h) THEN active - 1 ELSE active
  /\ UNCHANGED <<slots, healthVars, ctrlVars>>

\* The select of acquire: a free slot wins, or the end of the client; with
\* both at hand the choice is random.
Acquire(h) ==
  /\ at[h] = "acquire"
  /\ MaxConcurrency = 0 \/ slots < MaxConcurrency
  /\ slots' = IF MaxConcurrency = 0 THEN slots ELSE slots + 1
  /\ Goto(h, "cloud")
  /\ UNCHANGED <<kind, gone, active, healthVars, ctrlVars>>

\* Mutant: the release is deferred before acquire.
GiveUpSlotReleases(h) ==
  /\ at[h] = "acquire"
  /\ MaxConcurrency > 0
  /\ h \in gone
  /\ slots' = IF slots > 0 THEN slots - 1 ELSE slots
  /\ Return(h)
  /\ UNCHANGED <<active, healthVars, ctrlVars>>

GiveUpSlot(h) ==
  /\ at[h] = "acquire"
  /\ MaxConcurrency > 0
  /\ h \in gone
  /\ Return(h)
  /\ UNCHANGED <<slots, active, healthVars, ctrlVars>>

\* Mutant: the slot of a request whose client is gone is not released.
CloudEndsKeepsSlot(h) ==
  /\ at[h] = "cloud"
  /\ slots' = IF MaxConcurrency = 0 \/ h \in gone THEN slots ELSE slots - 1
  /\ Return(h)
  /\ UNCHANGED <<active, healthVars, ctrlVars>>

\* The cloud proxy returns and the deferred release frees the slot.
CloudEnds(h) ==
  /\ at[h] = "cloud"
  /\ slots' = IF MaxConcurrency = 0 THEN slots ELSE slots - 1
  /\ Return(h)
  /\ UNCHANGED <<active, healthVars, ctrlVars>>

ClientGone(h) ==
  /\ at[h] # "idle"
  /\ gone' = gone \union {h}
  /\ UNCHANGED <<at, kind, slots, active, healthVars, ctrlVars>>

-----------------------------------------------------------------------------
(* The liveness tracker: the poll and the control commands both write it.  *)

Dial ==
  /\ poll = "asleep"
  /\ poll' = IF accepts THEN "sawUp" ELSE "sawDown"
  /\ UNCHANGED <<requestVars, slots, active, alive, accepts, ctrlVars>>

\* Mutant: only a backend that went down is noticed.
CompareDownOnly ==
  /\ poll \in {"sawUp", "sawDown"}
  /\ poll' = IF poll = "sawDown" /\ alive THEN "setDown" ELSE "asleep"
  /\ UNCHANGED <<requestVars, slots, active, alive, accepts, ctrlVars>>

\* "if p.health.up() != up", under the read lock...
Compare ==
  /\ poll \in {"sawUp", "sawDown"}
  /\ poll' = IF alive = (poll = "sawUp") THEN "asleep"
             ELSE IF poll = "sawUp" THEN "setUp" ELSE "setDown"
  /\ UNCHANGED <<requestVars, slots, active, alive, accepts, ctrlVars>>

\* ... and p.health.set(up), under the write lock.
SetPolled ==
  /\ poll \in {"setUp", "setDown"}
  /\ alive' = (poll = "setUp")
  /\ poll' = "asleep"
  /\ UNCHANGED <<requestVars, slots, active, accepts, ctrlVars>>

\* handleControl; when TryLock fails the answer is 409 and nothing changes.
Control(c, action) ==
  /\ ctrl[c] = "none"
  /\ ctrlMu = Nobody
  /\ ctrlMu' = c
  /\ ctrl' = [ctrl EXCEPT ![c] = action]
  /\ UNCHANGED <<requestVars, slots, active, healthVars>>

\* RunCommand returns; a failed command leaves the tracker alone.
ControlCommandEnds(c, ok) ==
  /\ ctrl[c] \in {"start", "stop"}
  /\ ctrl' = [ctrl EXCEPT ![c] = IF ~ok THEN "none"
                                 ELSE IF ctrl[c] = "start" THEN "setUp" ELSE "setDown"]
  /\ ctrlMu' = IF ok THEN ctrlMu ELSE Nobody
  /\ UNCHANGED <<requestVars, slots, active, healthVars>>

SetControlled(c) ==
  /\ ctrl[c] \in {"setUp", "setDown"}
  /\ alive' = (ctrl[c] = "setUp")
  /\ ctrl' = [ctrl EXCEPT ![c] = "none"]
  /\ ctrlMu' = Nobody
  /\ UNCHANGED <<requestVars, slots, active, accepts, poll>>

\* The backend comes or goes: a command, a crash, its own start-up time.
BackendChanges ==
  /\ accepts' = ~accepts
  /\ UNCHANGED <<requestVars, slots, active, alive, poll, ctrlVars>>

-----------------------------------------------------------------------------
\* What a handler does by itself, up to the forwarding of its request.
Advance(h) ==
  \/ Decide(h) \/ OnHTTPRequest(h) \/ BackendReady(h) \/ ForwardLocal(h)
  \/ \E answer \in BOOLEAN : Judge(h, answer) \/ Probe(h, answer) \/ Rejudge(h, answer)

Handle(h) ==
  \/ \E k \in Kinds : Arrive(h, k)
  \/ Advance(h) \/ Acquire(h) \/ GiveUpSlot(h)
  \/ LocalEnds(h) \/ CloudEnds(h) \/ ClientGone(h)

Poll == Dial \/ Compare \/ SetPolled

Next ==
  \/ \E h \in Handlers : Handle(h)
  \/ Poll
  \/ \E c \in Controllers :
       \/ \E action \in {"start", "stop"} : Control(c, action)
       \/ \E ok \in BOOLEAN : ControlCommandEnds(c, ok)
       \/ SetControlled(c)
  \/ BackendChanges

\* Goroutines run, the poll's ticker ticks, and a dial, a tokenizer call and a
\* probe have timeouts.  The channel's senders queue first in first out, so a
\* waiter that finds a free slot again and again gets one: strong fairness.
\* A cloud request ends once its client is gone (ctxBody and the transport
\* abort it); a command may hang and a stream may go on for ever.
Fairness ==
  /\ \A h \in Handlers :
       /\ WF_vars(Advance(h))
       /\ SF_vars(Acquire(h))
       /\ WF_vars(GiveUpSlot(h))
       /\ WF_vars(h \in gone /\ CloudEnds(h))
  /\ \A c \in Controllers : WF_vars(SetControlled(c))
  /\ WF_vars(Poll)

Spec == Init /\ [][Next]_vars
FairSpec == Spec /\ Fairness

-----------------------------------------------------------------------------
(* Properties.                                                             *)

\* A slot is held by exactly the requests in the cloud, on every way into and
\* out of acquire, so none leaks and the cap of cloud.maxConcurrency holds.
SlotsInv ==
  IF MaxConcurrency = 0
    THEN slots = 0
    ELSE slots = Cardinality(InCloud) /\ slots <= MaxConcurrency

\* The watchdog counts exactly the chat completions that are served locally:
\* a request that turned to the cloud, at either decision, never samples.
SamplingInv == active = Cardinality(Sampled)

\* Both counters are exact: whichever way a request takes, whoever leaves and
\* whatever the second decision says, nothing leaks and nothing is counted twice.
CountersExact == SlotsInv /\ SamplingInv

\* One control command at a time: the handler in a command holds ctrlMu.
ControlsSerial == \A c \in Controllers : ctrl[c] # "none" => ctrlMu = c

\* A request that waits for a cloud slot does not wait for ever, however many
\* others come and take a slot before it: unless one and the same request stays
\* in the cloud for good, and with its client still there.
SlotWaitEnds ==
  \A h \in Handlers :
    \/ at[h] = "acquire" ~> at[h] # "acquire"
    \/ \E c \in Handlers : <>[](c \in InCloud \ gone)

\* A wrong liveness state does not last: when the backend's port settles and
\* no control command runs any more, the tracker settles on the same value,
\* also after a poll that was overtaken by a control command.
HealthSettles ==
  \A up \in BOOLEAN :
    <>[](accepts = up /\ ctrlMu = Nobody) => <>[](alive = up)

\* "every non-chat path ... stays local" (README.md:164): only JSON chat
\* completions are sent to the cloud.
OnlyChatToCloud == \A h \in InCloud : kind[h] = "judged"
=============================================================================
