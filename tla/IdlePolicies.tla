----------------------------- MODULE IdlePolicies -----------------------------
(***************************************************************************)
(* The two idle policies and what they do to a local request: the tracker  *)
(* of src/internal/idle/idle.go, used lazily by restart.go (consumed by a   *)
(* one second ticker of proxy.StartBackground) and eagerly by probe.go      *)
(* (consumed by each request in proxy.ServeHTTP, before forwarding).        *)
(*                                                                         *)
(* A deadline is kept as the time left until it, 0 once it is due, and the *)
(* clock counts all of them down.                                          *)
(***************************************************************************)
EXTENDS Integers, FiniteSets

CONSTANTS
  Handlers,         \* ServeHTTP goroutines of local requests
  RestartInterval,  \* config: restart.interval, in ticks
  ProbeInterval,    \* config: probe.interval, in ticks
  HasProbeCommand   \* config: probe.command is not empty

ASSUME IntervalsAssumption == RestartInterval \in Nat \ {0} /\ ProbeInterval \in Nat \ {0}
ASSUME CommandAssumption == HasProbeCommand \in BOOLEAN

VARIABLES
  pc,          \* where each handler is
  restartT,    \* the lazy tracker of restart: active, left
  probeT,      \* the tracker of probe: left (it is always active)
  restarting,  \* the ticker goroutine runs restart.command
  ready,       \* the backend answers /health with 2xx
  arrivalAge,  \* history: time since a local request last arrived
  probeAge,    \* history: time since a probe last began
  newRequest   \* history: a request arrived since restart.command last started

vars == <<pc, restartT, probeT, restarting, ready, arrivalAge, probeAge, newRequest>>
history == <<arrivalAge, probeAge, newRequest>>

TypeOK ==
  /\ pc \in [Handlers -> {"none", "consume", "probing", "command", "waiting", "forwarded"}]
  /\ restartT \in [active : BOOLEAN, left : 0..RestartInterval]
  /\ probeT \in [left : 0..ProbeInterval]
  /\ restarting \in BOOLEAN
  /\ ready \in BOOLEAN
  /\ arrivalAge \in 0..RestartInterval
  /\ probeAge \in 0..ProbeInterval
  /\ newRequest \in BOOLEAN

\* NewLazy starts no timing; New starts it with the service.
Init ==
  /\ pc = [h \in Handlers |-> "none"]
  /\ restartT = [active |-> FALSE, left |-> 0]
  /\ probeT = [left |-> ProbeInterval]
  /\ restarting = FALSE
  /\ ready = TRUE
  /\ arrivalAge = RestartInterval
  /\ probeAge = ProbeInterval
  /\ newRequest = FALSE

Goto(h, label) == pc' = [pc EXCEPT ![h] = label]

\* Mutant: a tracker that is not timing is left alone.
TouchRestartStaysOff ==
  restartT' = IF ~restartT.active \/ restartT.left = 0
                THEN restartT
                ELSE [active |-> TRUE, left |-> RestartInterval]

\* Tracker.OnHTTPRequest: start timing, or extend a window that is not due; a
\* window that is due stays due, for ConsumeIdle to trigger.
TouchRestart ==
  restartT' = IF restartT.active /\ restartT.left = 0
                THEN restartT
                ELSE [active |-> TRUE, left |-> RestartInterval]

TouchProbe == probeT' = IF probeT.left > 0 THEN [left |-> ProbeInterval] ELSE probeT

\* Supervisor.OnHTTPRequest.
OnHTTPRequest(h) ==
  /\ pc[h] = "none"
  /\ Goto(h, "consume")
  /\ TouchRestart
  /\ TouchProbe
  /\ arrivalAge' = 0
  /\ newRequest' = TRUE
  /\ UNCHANGED <<restarting, ready, probeAge>>

\* Mutant: the window is not reset before the probe runs.
ConsumeProbeKeepsDue(h) ==
  /\ pc[h] = "consume"
  /\ IF probeT.left > 0
       THEN Goto(h, "forwarded") /\ UNCHANGED probeAge
       ELSE Goto(h, "probing") /\ probeAge' = 0
  /\ UNCHANGED <<restartT, probeT, restarting, ready, arrivalAge, newRequest>>

\* Mutant: a due probe is put off while another request is served.
ConsumeProbeWhenAlone(h) ==
  /\ pc[h] = "consume"
  /\ IF probeT.left > 0
       THEN Goto(h, "forwarded") /\ UNCHANGED <<probeT, probeAge>>
       ELSE /\ \A k \in Handlers : pc[k] # "forwarded"
            /\ Goto(h, "probing")
            /\ probeT' = [left |-> ProbeInterval]
            /\ probeAge' = 0
  /\ UNCHANGED <<restartT, restarting, ready, arrivalAge, newRequest>>

\* probe.ConsumeIdle: the request that finds the window due resets it and runs
\* the probe itself; any other request is forwarded at once.
ConsumeProbe(h) ==
  /\ pc[h] = "consume"
  /\ IF probeT.left > 0
       THEN Goto(h, "forwarded") /\ UNCHANGED <<probeT, probeAge>>
       ELSE /\ Goto(h, "probing")
            /\ probeT' = [left |-> ProbeInterval]
            /\ probeAge' = 0
  /\ UNCHANGED <<restartT, restarting, ready, arrivalAge, newRequest>>

\* probeBackend returns; only a backend that is ready can look healthy.
ProbeVerdict(h, healthy) ==
  /\ pc[h] = "probing"
  /\ healthy => ready
  /\ IF healthy \/ ~HasProbeCommand
       THEN Goto(h, "forwarded") /\ UNCHANGED ready
       ELSE Goto(h, "command") /\ ready' = FALSE
  /\ UNCHANGED <<restartT, probeT, restarting, history>>

\* probe.command returns; only after a command that succeeded the handler waits.
ProbeCommandEnds(h, ok) ==
  /\ pc[h] = "command"
  /\ Goto(h, IF ok THEN "waiting" ELSE "forwarded")
  /\ UNCHANGED <<restartT, probeT, restarting, ready, history>>

\* waitBackendReady polls /health until it is 2xx, or gives up when the client
\* is gone; the handler goes on to forward either way.
BackendReady(h) ==
  /\ pc[h] = "waiting"
  /\ ready
  /\ Goto(h, "forwarded")
  /\ UNCHANGED <<restartT, probeT, restarting, ready, history>>

ClientGone(h) ==
  /\ pc[h] = "waiting"
  /\ Goto(h, "forwarded")
  /\ UNCHANGED <<restartT, probeT, restarting, ready, history>>

RequestEnds(h) ==
  /\ pc[h] = "forwarded"
  /\ Goto(h, "none")
  /\ UNCHANGED <<restartT, probeT, restarting, ready, history>>

\* Mutant: timing goes on after the trigger.
RestartConsumesAgain ==
  /\ ~restarting
  /\ restartT.active /\ restartT.left = 0
  /\ restarting' = TRUE
  /\ ready' = FALSE
  /\ newRequest' = FALSE
  /\ UNCHANGED <<pc, restartT, probeT, arrivalAge, probeAge>>

\* Mutant: the ticker waits until no request is being served.
RestartConsumesWhenFree ==
  /\ ~restarting
  /\ \A h \in Handlers : pc[h] = "none"
  /\ restartT.active /\ restartT.left = 0
  /\ restartT' = [restartT EXCEPT !.active = FALSE]
  /\ restarting' = TRUE
  /\ ready' = FALSE
  /\ newRequest' = FALSE
  /\ UNCHANGED <<pc, probeT, arrivalAge, probeAge>>

\* The ticker consumes a due restart window: timing stops until the next
\* request and the command runs, keeping the ticker goroutine busy.
RestartConsumes ==
  /\ ~restarting
  /\ restartT.active /\ restartT.left = 0
  /\ restartT' = [restartT EXCEPT !.active = FALSE]
  /\ restarting' = TRUE
  /\ ready' = FALSE
  /\ newRequest' = FALSE
  /\ UNCHANGED <<pc, probeT, arrivalAge, probeAge>>

RestartCommandEnds ==
  /\ restarting
  /\ restarting' = FALSE
  /\ UNCHANGED <<pc, restartT, probeT, ready, history>>

\* Nobody restarts the backend: it finishes loading.
BackendLoads ==
  /\ ~restarting /\ \A h \in Handlers : pc[h] # "command"
  /\ ~ready
  /\ ready' = TRUE
  /\ UNCHANGED <<pc, restartT, probeT, restarting, history>>

Down(n) == IF n > 0 THEN n - 1 ELSE 0
Up(n, top) == IF n < top THEN n + 1 ELSE top

ClockTicks ==
  /\ restartT' = [restartT EXCEPT !.left = Down(@)]
  /\ probeT' = [left |-> Down(probeT.left)]
  /\ arrivalAge' = Up(arrivalAge, RestartInterval)
  /\ probeAge' = Up(probeAge, ProbeInterval)
  /\ UNCHANGED <<pc, restarting, ready, newRequest>>

Next ==
  \/ \E h \in Handlers :
       \/ OnHTTPRequest(h) \/ ConsumeProbe(h)
       \/ \E healthy \in BOOLEAN : ProbeVerdict(h, healthy)
       \/ \E ok \in BOOLEAN : ProbeCommandEnds(h, ok)
       \/ BackendReady(h) \/ ClientGone(h) \/ RequestEnds(h)
  \/ RestartConsumes \/ RestartCommandEnds
  \/ BackendLoads
  \/ ClockTicks

\* Time passes, the ticker ticks, a handler runs, a probe has a timeout.
Fairness ==
  /\ WF_vars(ClockTicks)
  /\ WF_vars(RestartConsumes)
  /\ \A h \in Handlers :
       WF_vars(ConsumeProbe(h)) /\ WF_vars(\E healthy \in BOOLEAN : ProbeVerdict(h, healthy))

\* And, on the operator's side: commands end and a backend nobody restarts
\* comes up; waitBackendReady polls it every half second.
BackendFairness ==
  /\ WF_vars(RestartCommandEnds)
  /\ WF_vars(BackendLoads)
  /\ \A h \in Handlers :
       WF_vars(\E ok \in BOOLEAN : ProbeCommandEnds(h, ok)) /\ WF_vars(BackendReady(h))

Spec == Init /\ [][Next]_vars
FairSpec == Spec /\ Fairness
LiveSpec == FairSpec /\ BackendFairness

-----------------------------------------------------------------------------
\* A probe never begins within an interval of the one before, however many
\* requests are queued behind it: "reset before running to avoid concurrent
\* requests during the run re-triggering" (idle.go:73).
ProbesSpaced ==
  [][\A h \in Handlers : pc[h] # "probing" /\ pc'[h] = "probing" =>
       probeAge = ProbeInterval]_vars

\* What makes that so: the window left and the age of the probe always add up.
WindowCoversProbe == probeT.left + probeAge >= ProbeInterval

\* restart.command never starts twice for the same activity: a request arrived
\* in between ("no requests means no timing", README.md:78).
RestartNeedsRequest == [][~restarting /\ restarting' => newRequest]_vars

\* Timing is on, or restart fired for everything that arrived: no request is
\* left without a restart to come.
ActivityIsTimed == newRequest => restartT.active

\* Idleness is always acted on: again and again, either timing is off, or a
\* request arrived within the interval, or the command is running.
IdleRestartHappens ==
  []<>(~restartT.active \/ arrivalAge < RestartInterval \/ restarting)

\* A policy has the backend restarted right now.
CommandRuns == restarting \/ \E h \in Handlers : pc[h] = "command"

\* A request that found the window due is eventually forwarded, unless the
\* policies keep restarting the backend for ever.
WaitingEnds ==
  []<>CommandRuns \/ \A h \in Handlers :
    [](pc[h] \in {"consume", "probing"} => <>(pc[h] = "forwarded"))
=============================================================================
