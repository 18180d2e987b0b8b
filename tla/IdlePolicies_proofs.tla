------------------------- MODULE IdlePolicies_proofs -------------------------
(***************************************************************************)
(* Proofs about the idle policies, for any number of handlers and any      *)
(* intervals.                                                              *)
(***************************************************************************)
EXTENDS IdlePolicies, TLAPS

LEMMA DownType == \A n \in Nat, m \in Nat : n \in 0..m => Down(n) \in 0..m
BY DEF Down

LEMMA UpType == \A n \in Nat, top \in Nat : n \in 0..top => Up(n, top) \in 0..top
BY DEF Up

\* The handlers' own steps touch neither tracker nor history, except for the
\* arrival and the consumption of the probe window.
HandlerOnly(h) ==
  \/ \E healthy \in BOOLEAN : ProbeVerdict(h, healthy)
  \/ \E ok \in BOOLEAN : ProbeCommandEnds(h, ok)
  \/ BackendReady(h) \/ ClientGone(h) \/ RequestEnds(h)

LEMMA HandlerOnlyStep ==
  ASSUME TypeOK, NEW h \in Handlers, HandlerOnly(h)
  PROVE  /\ UNCHANGED <<restartT, probeT, restarting, arrivalAge, probeAge, newRequest>>
         /\ pc' \in [Handlers -> {"none", "consume", "probing", "command", "waiting", "forwarded"}]
         /\ ready' \in BOOLEAN
         /\ \A k \in Handlers : pc'[k] = "probing" => pc[k] = "probing"
<1> USE DEF TypeOK, Goto, history
<1>1. ASSUME NEW healthy \in BOOLEAN, ProbeVerdict(h, healthy) PROVE TypeOK' /\
        UNCHANGED <<restartT, probeT, restarting, arrivalAge, probeAge, newRequest>>
        /\ \A k \in Handlers : pc'[k] = "probing" => pc[k] = "probing"
  <2>1. CASE healthy \/ ~HasProbeCommand
    BY <1>1, <2>1 DEF ProbeVerdict
  <2>2. CASE ~(healthy \/ ~HasProbeCommand)
    BY <1>1, <2>2 DEF ProbeVerdict
  <2> QED
    BY <2>1, <2>2
<1>2. ASSUME NEW ok \in BOOLEAN, ProbeCommandEnds(h, ok) PROVE TypeOK' /\
        UNCHANGED <<restartT, probeT, restarting, arrivalAge, probeAge, newRequest>>
        /\ \A k \in Handlers : pc'[k] = "probing" => pc[k] = "probing"
  BY <1>2 DEF ProbeCommandEnds
<1>3. ASSUME BackendReady(h) \/ ClientGone(h) \/ RequestEnds(h) PROVE TypeOK' /\
        UNCHANGED <<restartT, probeT, restarting, arrivalAge, probeAge, newRequest>>
        /\ \A k \in Handlers : pc'[k] = "probing" => pc[k] = "probing"
  BY <1>3 DEF BackendReady, ClientGone, RequestEnds
<1> QED
  BY <1>1, <1>2, <1>3 DEF HandlerOnly

LEMMA TypeStep == TypeOK /\ [Next]_vars => TypeOK'
<1> SUFFICES ASSUME TypeOK, [Next]_vars PROVE TypeOK'
  OBVIOUS
<1>0. /\ RestartInterval \in Nat /\ ProbeInterval \in Nat
      /\ 0 \in 0..RestartInterval /\ RestartInterval \in 0..RestartInterval
      /\ 0 \in 0..ProbeInterval /\ ProbeInterval \in 0..ProbeInterval
  BY IntervalsAssumption
<1>1. ASSUME NEW h \in Handlers, OnHTTPRequest(h) PROVE TypeOK'
  <2>1. restartT' \in [active : BOOLEAN, left : 0..RestartInterval]
    BY <1>0, <1>1 DEF OnHTTPRequest, TouchRestart, TypeOK
  <2>2. probeT' \in [left : 0..ProbeInterval]
    BY <1>0, <1>1 DEF OnHTTPRequest, TouchProbe, TypeOK
  <2>3. newRequest' \in BOOLEAN
    BY <1>1 DEF OnHTTPRequest
  <2> QED
    BY <1>0, <1>1, <2>1, <2>2, <2>3 DEF OnHTTPRequest, Goto, TypeOK
<1>2. ASSUME NEW h \in Handlers, ConsumeProbe(h) PROVE TypeOK'
  <2>1. probeT' \in [left : 0..ProbeInterval] /\ probeAge' \in 0..ProbeInterval
    BY <1>0, <1>2 DEF ConsumeProbe, TypeOK
  <2> QED
    BY <1>2, <2>1 DEF ConsumeProbe, Goto, TypeOK
<1>3. ASSUME NEW h \in Handlers, HandlerOnly(h) PROVE TypeOK'
  BY <1>3, HandlerOnlyStep DEF TypeOK
<1>4. CASE RestartConsumes
  <2>1. restartT' \in [active : BOOLEAN, left : 0..RestartInterval]
    BY <1>4 DEF RestartConsumes, TypeOK
  <2>2. restarting' \in BOOLEAN /\ ready' \in BOOLEAN /\ newRequest' \in BOOLEAN
    BY <1>4 DEF RestartConsumes
  <2> QED
    BY <1>4, <2>1, <2>2 DEF RestartConsumes, TypeOK
<1>5. CASE RestartCommandEnds \/ BackendLoads
  BY <1>5 DEF RestartCommandEnds, BackendLoads, TypeOK, history
<1>6. CASE ClockTicks
  <2>1. Down(restartT.left) \in 0..RestartInterval /\ Down(probeT.left) \in 0..ProbeInterval
    BY <1>0, DownType DEF TypeOK
  <2>2. /\ arrivalAge' \in 0..RestartInterval
        /\ probeAge' \in 0..ProbeInterval
    BY <1>0, <1>6, UpType DEF ClockTicks, TypeOK
  <2>3. restartT' \in [active : BOOLEAN, left : 0..RestartInterval]
    BY <1>6, <2>1 DEF ClockTicks, TypeOK
  <2> QED
    BY <1>6, <2>1, <2>2, <2>3 DEF ClockTicks, TypeOK
<1>7. CASE UNCHANGED vars
  BY <1>7 DEF vars, TypeOK
<1> QED
  BY <1>1, <1>2, <1>3, <1>4, <1>5, <1>6, <1>7 DEF Next, HandlerOnly

\* The trackers keep their types; no window is ever longer than its interval.
THEOREM TypeCorrect == Spec => []TypeOK
<1>1. Init => TypeOK
  <2> SUFFICES ASSUME Init PROVE TypeOK
    OBVIOUS
  <2>1. restartT \in [active : BOOLEAN, left : 0..RestartInterval]
    BY IntervalsAssumption DEF Init
  <2>2. probeT \in [left : 0..ProbeInterval] /\ probeAge \in 0..ProbeInterval
        /\ arrivalAge \in 0..RestartInterval
    BY IntervalsAssumption DEF Init
  <2>3. restarting \in BOOLEAN /\ ready \in BOOLEAN /\ newRequest \in BOOLEAN
    BY DEF Init
  <2> QED
    BY <2>1, <2>2, <2>3 DEF Init, TypeOK
<1>2. TypeOK /\ [Next]_vars => TypeOK'
  BY TypeStep
<1> QED
  BY <1>1, <1>2, PTL DEF Spec

-----------------------------------------------------------------------------
LEMMA WindowStep == TypeOK /\ WindowCoversProbe /\ [Next]_vars => WindowCoversProbe'
<1> SUFFICES ASSUME TypeOK, WindowCoversProbe, [Next]_vars PROVE WindowCoversProbe'
  OBVIOUS
<1>0. /\ ProbeInterval \in Nat
      /\ probeT.left \in 0..ProbeInterval
      /\ probeAge \in 0..ProbeInterval
      /\ probeT.left + probeAge >= ProbeInterval
  BY IntervalsAssumption DEF TypeOK, WindowCoversProbe
<1>1. ASSUME NEW h \in Handlers, OnHTTPRequest(h) PROVE WindowCoversProbe'
  BY <1>0, <1>1 DEF OnHTTPRequest, TouchProbe, WindowCoversProbe
<1>2. ASSUME NEW h \in Handlers, ConsumeProbe(h) PROVE WindowCoversProbe'
  BY <1>0, <1>2 DEF ConsumeProbe, WindowCoversProbe
<1>3. ASSUME UNCHANGED <<probeT, probeAge>> PROVE WindowCoversProbe'
  BY <1>0, <1>3 DEF WindowCoversProbe
<1>4. ASSUME NEW h \in Handlers, HandlerOnly(h) PROVE WindowCoversProbe'
  BY <1>3, <1>4, HandlerOnlyStep
<1>5. CASE RestartConsumes \/ RestartCommandEnds \/ BackendLoads \/ UNCHANGED vars
  BY <1>3, <1>5 DEF RestartConsumes, RestartCommandEnds, BackendLoads, vars, history
<1>6. CASE ClockTicks
  <2>1. probeT'.left = Down(probeT.left) /\ probeAge' = Up(probeAge, ProbeInterval)
    BY <1>6 DEF ClockTicks
  <2> QED
    BY <1>0, <2>1 DEF Down, Up, WindowCoversProbe
<1> QED
  BY <1>1, <1>2, <1>4, <1>5, <1>6 DEF Next, HandlerOnly

\* The time left of the probe window and the age of the last probe add up to
\* an interval at least, whatever requests extend the window.
THEOREM WindowCorrect == Spec => []WindowCoversProbe
<1>1. Init => WindowCoversProbe
  BY IntervalsAssumption DEF Init, WindowCoversProbe
<1>2. TypeOK /\ WindowCoversProbe /\ [Next]_vars => WindowCoversProbe'
  BY WindowStep
<1> QED
  BY <1>1, <1>2, TypeCorrect, PTL DEF Spec

\* So two probes always begin at least an interval apart, however many requests
\* cross the deadline together.
THEOREM ProbesAreSpaced == Spec => ProbesSpaced
<1>1. ASSUME TypeOK, WindowCoversProbe, Next,
             NEW h \in Handlers, pc[h] # "probing", pc'[h] = "probing"
      PROVE  probeAge = ProbeInterval
  <2>1. PICK k \in Handlers : ConsumeProbe(k) /\ pc'[k] = "probing"
    <3>1. ASSUME NEW k \in Handlers, OnHTTPRequest(k) PROVE FALSE
      BY <1>1, <3>1 DEF OnHTTPRequest, Goto, TypeOK
    <3>2. ASSUME NEW k \in Handlers, HandlerOnly(k) PROVE FALSE
      BY <1>1, <3>2, HandlerOnlyStep
    <3>3. ASSUME RestartConsumes \/ RestartCommandEnds \/ BackendLoads \/ ClockTicks PROVE FALSE
      BY <1>1, <3>3 DEF RestartConsumes, RestartCommandEnds, BackendLoads, ClockTicks
    <3>4. PICK k \in Handlers : ConsumeProbe(k)
      BY <1>1, <3>1, <3>2, <3>3 DEF Next, HandlerOnly
    <3> QED
      BY <1>1, <3>4 DEF ConsumeProbe, Goto, TypeOK
  <2>2. ~(probeT.left > 0)
    <3> SUFFICES ASSUME probeT.left > 0 PROVE FALSE
      OBVIOUS
    <3>1. pc' = [pc EXCEPT ![k] = "forwarded"]
      BY <2>1 DEF ConsumeProbe, Goto
    <3> QED
      BY <1>1, <2>1, <3>1 DEF TypeOK
  <2> QED
    BY <1>1, <2>2, IntervalsAssumption DEF WindowCoversProbe, TypeOK
<1>2. TypeOK /\ WindowCoversProbe /\ [Next]_vars =>
        [\A h \in Handlers : pc[h] # "probing" /\ pc'[h] = "probing" =>
           probeAge = ProbeInterval]_vars
  BY <1>1
<1> QED
  BY <1>2, TypeCorrect, WindowCorrect, PTL DEF Spec, ProbesSpaced

-----------------------------------------------------------------------------
\* Timing is on exactly when a request arrived that restart has not acted on.
TimedExactly == restartT.active <=> newRequest

LEMMA TimedStep == TypeOK /\ TimedExactly /\ [Next]_vars => TimedExactly'
<1> SUFFICES ASSUME TypeOK, TimedExactly, [Next]_vars PROVE TimedExactly'
  OBVIOUS
<1>1. ASSUME NEW h \in Handlers, OnHTTPRequest(h) PROVE TimedExactly'
  BY <1>1 DEF OnHTTPRequest, TouchRestart, TimedExactly
<1>2. ASSUME UNCHANGED <<restartT, newRequest>> PROVE TimedExactly'
  BY <1>2 DEF TimedExactly
<1>3. ASSUME NEW h \in Handlers, ConsumeProbe(h) \/ HandlerOnly(h) PROVE TimedExactly'
  BY <1>2, <1>3, HandlerOnlyStep DEF ConsumeProbe
<1>4. CASE RestartConsumes
  BY <1>4 DEF RestartConsumes, TypeOK, TimedExactly
<1>5. CASE ClockTicks
  BY <1>5 DEF ClockTicks, TypeOK, TimedExactly
<1>6. CASE RestartCommandEnds \/ BackendLoads \/ UNCHANGED vars
  BY <1>2, <1>6 DEF RestartCommandEnds, BackendLoads, vars, history
<1> QED
  BY <1>1, <1>3, <1>4, <1>5, <1>6 DEF Next, HandlerOnly

\* Whatever arrived is timed until restart acts on it, and restart never acts
\* twice on the same activity.
THEOREM ActivityCorrect == Spec => []ActivityIsTimed /\ RestartNeedsRequest
<1>1. Init => TimedExactly
  BY DEF Init, TimedExactly
<1>2. TypeOK /\ TimedExactly /\ [Next]_vars => TimedExactly'
  BY TimedStep
<1>3. TimedExactly => ActivityIsTimed
  BY DEF TimedExactly, ActivityIsTimed
<1>4. TypeOK /\ TimedExactly /\ [Next]_vars => [~restarting /\ restarting' => newRequest]_vars
  <2> SUFFICES ASSUME TypeOK, TimedExactly, Next, ~restarting, restarting' PROVE newRequest
    OBVIOUS
  <2>1. RestartConsumes
    <3>1. ASSUME NEW h \in Handlers, OnHTTPRequest(h) \/ ConsumeProbe(h) \/ HandlerOnly(h)
          PROVE FALSE
      BY <3>1, HandlerOnlyStep DEF OnHTTPRequest, ConsumeProbe
    <3> QED
      BY <3>1 DEF Next, HandlerOnly, RestartCommandEnds, BackendLoads, ClockTicks
  <2> QED
    BY <2>1 DEF RestartConsumes, TimedExactly
<1> QED
  BY <1>1, <1>2, <1>3, <1>4, TypeCorrect, PTL DEF Spec, RestartNeedsRequest

\* restart.command never runs twice for the same activity, for any number of
\* concurrent requests (Restarter.consume, restart.go).
THEOREM RestartsEarned == Spec => RestartNeedsRequest
BY ActivityCorrect, PTL
=============================================================================
