--------------------------- MODULE Watchdog_proofs ---------------------------
(***************************************************************************)
(* Proofs about the watchdog's sampling ownership, for any number of       *)
(* requests, loops and trigger goroutines and any configuration.           *)
(***************************************************************************)
EXTENDS MCWatchdog, FiniteSetTheorems, TLAPS

\* Every action keeps the types; in particular the draft streak stays below
\* draftTimes, since reaching it resets it in the same critical section.
LEMMA TypeStep == TypeOK /\ [Next]_vars => TypeOK'
<1> SUFFICES ASSUME TypeOK, [Next]_vars PROVE TypeOK'
  OBVIOUS
<1> USE StreaksAssumption DEF TypeOK, requestVars, ownerVars, streakVars, pauseVars
<1>0. 0 \in 0..Times /\ 0 \in 0..(DraftTimes - 1)
  OBVIOUS
<1>1. ASSUME NEW r \in Requests, OnRequestStart(r) PROVE TypeOK'
  <2>1. CASE active = 0 /\ ~probing
    <3>1. PICK l \in Loops : StartLoop(l)
      BY <1>1, <2>1 DEF OnRequestStart
    <3> QED
      BY <1>1, <3>1 DEF OnRequestStart, StartLoop
  <2>2. CASE ~(active = 0 /\ ~probing)
    BY <1>1, <2>2 DEF OnRequestStart
  <2> QED
    BY <2>1, <2>2
<1>2. ASSUME NEW r \in Requests, OnRequestEnd(r) PROVE TypeOK'
  <2>1. active' \in Nat /\ req' \in [Requests -> {"idle", "sent", "plain", "stream",
                                              "hardCheck", "closed"}]
    BY <1>2 DEF OnRequestEnd
  <2>2. CASE active' = 0 /\ probing
    BY <1>2, <2>1, <2>2 DEF OnRequestEnd
  <2>3. CASE ~(active' = 0 /\ probing)
    BY <1>2, <2>1, <2>3 DEF OnRequestEnd
  <2> QED
    BY <2>2, <2>3
<1>3. ASSUME NEW r \in Requests, Response(r) PROVE TypeOK'
  <2>1. ASSUME NEW kind \in {"plain", "stream"}, OnStreamStart(r, kind) PROVE TypeOK'
    BY <2>1 DEF OnStreamStart
  <2>2. ASSUME NEW marked \in BOOLEAN, NEW crossed \in BOOLEAN,
               OnStreamContent(r, marked, crossed)
        PROVE TypeOK'
    BY <2>2 DEF OnStreamContent
  <2>3. CASE HardCheck(r)
    BY <2>3 DEF HardCheck, Spawn
  <2>4. ASSUME NEW hasDraft \in BOOLEAN, NEW low \in BOOLEAN,
               OnCompletion(r, hasDraft, low)
        PROVE TypeOK'
    <3>1. CASE ObserveDraft(low)
      <4>1. CASE paused
        BY <2>4, <3>1, <4>1 DEF OnCompletion, ObserveDraft
      <4>2. CASE ~paused
        <5>1. trig' \in [Triggerers -> {"idle", "hard", "draft", "command"}]
          BY <2>4, <3>1, <4>2 DEF OnCompletion, ObserveDraft, Spawn
        <5>2. draftWedges' \in 0..(DraftTimes - 1)
          BY <2>4, <3>1, <4>2, <1>0 DEF OnCompletion, ObserveDraft
        <5>3. paused' \in BOOLEAN /\ skipNext' \in BOOLEAN
          BY <2>4, <3>1, <4>2, Zenon DEF OnCompletion, ObserveDraft
        <5> QED
          BY <2>4, <5>1, <5>2, <5>3 DEF OnCompletion
      <4> QED
        BY <4>1, <4>2
    <3>2. CASE UNCHANGED <<draftWedges, pauseVars, trig>>
      BY <2>4, <3>2 DEF OnCompletion
    <3> QED
      BY <2>4, <3>1, <3>2 DEF OnCompletion
  <2>5. CASE OnStreamEnd(r)
    BY <2>5 DEF OnStreamEnd
  <2> QED
    BY <1>3, <2>1, <2>2, <2>3, <2>4, <2>5 DEF Response
<1>4. ASSUME NEW l \in Loops, Tick(l) PROVE TypeOK'
  <2>1. CASE TimerFires(l)
    BY <2>1 DEF TimerFires, Goto
  <2>2. CASE FetchFails(l)
    <3>1. skipNext' \in BOOLEAN
      BY <2>2, Zenon DEF FetchFails
    <3> QED
      BY <2>2, <3>1, <1>0 DEF FetchFails, Goto
  <2>3. ASSUME NEW state \in Sample, FetchSucceeds(l, state) PROVE TypeOK'
    <3>1. CASE skipNext
      BY <2>3, <3>1, <1>0 DEF FetchSucceeds, Goto
    <3>2. CASE ~skipNext
      BY <2>3, <3>2 DEF FetchSucceeds, Goto
    <3> QED
      BY <3>1, <3>2
  <2>4. CASE NotFast(l)
    BY <2>4 DEF NotFast, Goto
  <2>5. CASE OverSpeed(l)
    BY <2>5 DEF OverSpeed, Goto
  <2>6. CASE EvaluateLoop(l)
    BY <2>6 DEF EvaluateLoop, Goto
  <2>7. CASE LoopTriggers(l)
    BY <2>7 DEF LoopTriggers, DeclareUnhealthy, Goto
  <2> QED
    BY <1>4, <2>1, <2>2, <2>3, <2>4, <2>5, <2>6, <2>7 DEF Tick
<1>5. ASSUME NEW l \in Loops, StopSeen(l) PROVE TypeOK'
  BY <1>5 DEF StopSeen, Goto
<1>6. ASSUME NEW l \in Loops, AfterTick(l) PROVE TypeOK'
  BY <1>6 DEF AfterTick, Goto
<1>7. ASSUME NEW l \in Loops, CloseStop(l) PROVE TypeOK'
  BY <1>7 DEF CloseStop
<1>8. ASSUME NEW l \in Loops, LoopCommandEnds(l) PROVE TypeOK'
  BY <1>8 DEF LoopCommandEnds, Goto
<1>9. ASSUME NEW g \in Triggerers, GoTrigger(g) PROVE TypeOK'
  BY <1>9 DEF GoTrigger, DeclareUnhealthy
<1>10. ASSUME NEW g \in Triggerers, GoCommandEnds(g) PROVE TypeOK'
  BY <1>10 DEF GoCommandEnds
<1>11. CASE PauseExpires
  BY <1>11 DEF PauseExpires
<1>12. CASE UNCHANGED vars
  BY <1>12 DEF vars
<1> QED
  BY <1>1, <1>2, <1>3, <1>4, <1>5, <1>6, <1>7, <1>8, <1>9, <1>10, <1>11, <1>12
     DEF Next, ProbeLoop

\* The watchdog's state keeps its types in every behaviour of the policy.
THEOREM TypeCorrect == Spec => []TypeOK
<1>1. Init => TypeOK
  <2> SUFFICES ASSUME Init PROVE TypeOK
    OBVIOUS
  <2>1. prev \in Sample
    BY RateAssumption DEF Init, Sample
  <2>2. wedges \in 0..Times /\ draftWedges \in 0..(DraftTimes - 1) /\ active \in Nat
    BY StreaksAssumption DEF Init
  <2>3. probing \in BOOLEAN /\ paused \in BOOLEAN /\ skipNext \in BOOLEAN
    BY DEF Init
  <2> QED
    BY <2>1, <2>2, <2>3 DEF Init, TypeOK
<1>2. TypeOK /\ [Next]_vars => TypeOK'
  BY TypeStep
<1> QED
  BY <1>1, <1>2, PTL DEF Spec

-----------------------------------------------------------------------------
(* Ownership.  OwnerInv is inductive on top of TypeOK: a step that leaves    *)
(* the owner's variables alone and kills no owner keeps it (OwnerUntouched), *)
(* and only four actions do more.                                            *)

LEMMA OwnerUntouched ==
  ASSUME OwnerInv, UNCHANGED ownerVars,
         \A l \in Loops : pc'[l] = "dead" => pc[l] = "dead" \/ l # stopProbe
  PROVE  OwnerInv'
BY DEF OwnerInv, ownerVars

LEMMA OwnerStep == TypeOK /\ OwnerInv /\ [Next]_vars => OwnerInv'
<1> SUFFICES ASSUME TypeOK, OwnerInv, [Next]_vars PROVE OwnerInv'
  OBVIOUS
<1>1. ASSUME NEW r \in Requests, OnRequestStart(r) PROVE OwnerInv'
  <2>1. CASE active = 0 /\ ~probing
    <3>1. PICK l \in Loops : StartLoop(l)
      BY <1>1, <2>1 DEF OnRequestStart
    <3>2. active' = 1 /\ probing' /\ stopProbe' = l /\ stopProbe' # NoLoop
      BY <1>1, <2>1, <3>1, LoopsAssumption DEF OnRequestStart, StartLoop
    <3>3. \A k \in Loops : IF k = l THEN pc'[k] # "dead" /\ stop'[k] = "open"
                                    ELSE stop'[k] # "open"
      BY <2>1, <3>1, LoopsAssumption DEF StartLoop, OwnerInv, TypeOK
    <3> QED
      BY <3>2, <3>3 DEF OwnerInv
  <2>2. CASE ~(active = 0 /\ ~probing)
    <3>1. active' > 0 /\ active > 0
      BY <1>1, <2>2 DEF OnRequestStart, OwnerInv, TypeOK
    <3> QED
      BY <1>1, <2>2, <3>1 DEF OnRequestStart, OwnerInv
  <2> QED
    BY <2>1, <2>2
<1>2. ASSUME NEW r \in Requests, OnRequestEnd(r) PROVE OwnerInv'
  <2>1. active' \in Nat /\ (active = 0 => active' = 0)
    BY <1>2 DEF OnRequestEnd, TypeOK
  <2>2. CASE active' = 0 /\ probing
    <3>1. ~probing' /\ stopProbe' = NoLoop /\ stopProbe \in Loops
      BY <1>2, <2>2 DEF OnRequestEnd, OwnerInv, TypeOK
    <3>2. \A k \in Loops : k # stopProbe' /\ stop'[k] # "open"
      BY <1>2, <2>2, <3>1, LoopsAssumption DEF OnRequestEnd, OwnerInv, TypeOK
    <3> QED
      BY <2>2, <3>1, <3>2 DEF OwnerInv
  <2>3. CASE ~(active' = 0 /\ probing)
    <3>1. UNCHANGED <<probing, stopProbe, stop, pc>>
      BY <1>2, <2>3 DEF OnRequestEnd
    <3>2. active' > 0 <=> active > 0
      BY <1>2, <2>1, <2>3 DEF OnRequestEnd, OwnerInv, TypeOK
    <3> QED
      BY <3>1, <3>2 DEF OwnerInv
  <2> QED
    BY <2>2, <2>3
<1>3. ASSUME NEW r \in Requests, Response(r) PROVE OwnerInv'
  <2>1. UNCHANGED ownerVars /\ UNCHANGED pc
    BY <1>3 DEF Response, OnStreamStart, OnStreamContent, HardCheck, OnCompletion,
                OnStreamEnd
  <2> QED
    BY <2>1, OwnerUntouched
<1>4. ASSUME NEW l \in Loops, Tick(l) PROVE OwnerInv'
  <2>1. UNCHANGED ownerVars /\ pc' = [pc EXCEPT ![l] = pc'[l]] /\ pc'[l] # "dead"
    BY <1>4 DEF Tick, TimerFires, FetchFails, FetchSucceeds, NotFast, OverSpeed,
                EvaluateLoop, LoopTriggers, Goto, TypeOK
  <2> QED
    BY <2>1, OwnerUntouched DEF TypeOK
<1>5. ASSUME NEW l \in Loops, StopSeen(l) PROVE OwnerInv'
  <2>1. l # stopProbe
    BY <1>5 DEF StopSeen, OwnerInv
  <2> QED
    BY <1>5, <2>1, OwnerUntouched DEF StopSeen, Goto, TypeOK
<1>6. ASSUME NEW l \in Loops, AfterTick(l) PROVE OwnerInv'
  <2>1. CASE stopProbe # l
    BY <1>6, <2>1, OwnerUntouched DEF AfterTick, Goto, TypeOK, ownerVars
  <2>2. CASE stopProbe = l
    <3>1. active # 0
      BY <2>2, LoopsAssumption DEF OwnerInv, TypeOK
    <3> QED
      BY <1>6, <2>2, <3>1, OwnerUntouched DEF AfterTick, Goto, TypeOK, ownerVars
  <2> QED
    BY <2>1, <2>2
<1>7. ASSUME NEW l \in Loops, CloseStop(l) PROVE OwnerInv'
  BY <1>7 DEF CloseStop, OwnerInv, TypeOK
<1>8. ASSUME NEW l \in Loops, LoopCommandEnds(l) PROVE OwnerInv'
  BY <1>8, OwnerUntouched DEF LoopCommandEnds, Goto, TypeOK
<1>9. ASSUME NEW g \in Triggerers, GoTrigger(g) \/ GoCommandEnds(g) PROVE OwnerInv'
  BY <1>9, OwnerUntouched DEF GoTrigger, GoCommandEnds
<1>10. CASE PauseExpires \/ UNCHANGED vars
  BY <1>10, OwnerUntouched DEF PauseExpires, vars
<1> QED
  BY <1>1, <1>2, <1>3, <1>4, <1>5, <1>6, <1>7, <1>8, <1>9, <1>10 DEF Next, ProbeLoop

\* Exactly one loop nobody stopped owns sampling while completions are counted
\* in flight, and none does otherwise, however requests and ticks interleave.
THEOREM OwnershipCorrect == Spec => []OwnerInv
<1>1. Init => OwnerInv
  BY LoopsAssumption DEF Init, OwnerInv
<1>2. TypeOK /\ OwnerInv /\ [Next]_vars => OwnerInv'
  BY OwnerStep
<1> QED
  BY <1>1, <1>2, TypeCorrect, PTL DEF Spec

-----------------------------------------------------------------------------
(* The count of in-flight completions.                                       *)

LEMMA CountStep == TypeOK /\ CountInv /\ [Next]_vars => CountInv'
<1> SUFFICES ASSUME TypeOK, CountInv, [Next]_vars PROVE CountInv'
  OBVIOUS
<1>0. IsFiniteSet(InFlight)
  BY FS_Subset, RequestsAssumption DEF InFlight
<1>1. ASSUME NEW r \in Requests, OnRequestStart(r) PROVE CountInv'
  <2>1. r \notin InFlight /\ InFlight' = InFlight \union {r}
    BY <1>1 DEF OnRequestStart, InFlight, TypeOK
  <2>2. Cardinality(InFlight \union {r}) = Cardinality(InFlight) + 1
    BY <1>0, <2>1, FS_AddElement
  <2> QED
    BY <1>1, <2>1, <2>2 DEF OnRequestStart, CountInv
<1>2. ASSUME NEW r \in Requests, OnRequestEnd(r) PROVE CountInv'
  <2>1. r \in InFlight /\ InFlight' = InFlight \ {r}
    BY <1>2 DEF OnRequestEnd, InFlight, TypeOK
  <2>2. Cardinality(InFlight \ {r}) = Cardinality(InFlight) - 1
    BY <1>0, <2>1, FS_RemoveElement
  <2>3. Cardinality(InFlight) > 0
    BY <1>0, <2>1, FS_EmptySet, FS_CardinalityType
  <2> QED
    BY <1>2, <2>1, <2>2, <2>3 DEF OnRequestEnd, CountInv
<1>3. ASSUME UNCHANGED <<active, InFlight>> PROVE CountInv'
  BY <1>3 DEF CountInv
<1>4. ASSUME NEW r \in Requests, Response(r) PROVE UNCHANGED <<active, InFlight>>
  <2>1. UNCHANGED active
    BY <1>4 DEF Response, OnStreamStart, OnStreamContent, HardCheck, OnCompletion,
                OnStreamEnd, ownerVars
  <2>2. UNCHANGED InFlight
    BY <1>4 DEF Response, OnStreamStart, OnStreamContent, HardCheck, OnCompletion,
                OnStreamEnd, InFlight, TypeOK
  <2> QED
    BY <2>1, <2>2
<1>5. ASSUME NEW l \in Loops, ProbeLoop(l) \/ CloseStop(l) \/ LoopCommandEnds(l)
      PROVE UNCHANGED <<active, InFlight>>
  BY <1>5 DEF ProbeLoop, Tick, TimerFires, FetchFails, FetchSucceeds, NotFast, OverSpeed,
              EvaluateLoop, LoopTriggers, StopSeen, AfterTick, CloseStop,
              LoopCommandEnds, requestVars, ownerVars, InFlight
<1>6. ASSUME NEW g \in Triggerers, GoTrigger(g) \/ GoCommandEnds(g)
      PROVE UNCHANGED <<active, InFlight>>
  BY <1>6 DEF GoTrigger, GoCommandEnds, requestVars, ownerVars, InFlight
<1>7. CASE PauseExpires \/ UNCHANGED vars
  BY <1>3, <1>7 DEF PauseExpires, vars, requestVars, ownerVars, InFlight
<1> QED
  BY <1>1, <1>2, <1>3, <1>4, <1>5, <1>6, <1>7 DEF Next

\* Policy.active counts exactly the requests between OnRequestStart and
\* OnRequestEnd, so it is never decremented below what is really in flight.
THEOREM CountCorrect == Spec => []CountInv
<1>1. Init => CountInv
  <2>1. Init => InFlight = {}
    BY DEF Init, InFlight
  <2> QED
    BY <2>1, FS_EmptySet DEF Init, CountInv
<1>2. TypeOK /\ CountInv /\ [Next]_vars => CountInv'
  BY CountStep
<1> QED
  BY <1>1, <1>2, TypeCorrect, PTL DEF Spec

\* While a completion is in flight, a live loop nobody stopped covers it: the
\* two invariants together, whatever overlaps.
THEOREM CoverageCorrect == Spec => []SamplingCovered
<1>1. TypeOK /\ OwnerInv /\ CountInv => SamplingCovered
  <2> SUFFICES ASSUME TypeOK, OwnerInv, CountInv, InFlight # {}
               PROVE \E l \in Loops : pc[l] # "dead" /\ stop[l] = "open"
    BY DEF SamplingCovered
  <2>1. IsFiniteSet(InFlight)
    BY FS_Subset, RequestsAssumption DEF InFlight
  <2>2. active > 0
    BY <2>1, FS_EmptySet, FS_CardinalityType DEF CountInv
  <2>3. stopProbe \in Loops
    BY <2>2 DEF OwnerInv, TypeOK
  <2> QED
    BY <2>3 DEF OwnerInv
<1> QED
  BY <1>1, TypeCorrect, OwnershipCorrect, CountCorrect, PTL

\* Sampling is not handed over while completions stay in flight: a start finds
\* the loop running, an end that is not the last one leaves it alone, and no
\* other step writes stopProbe.
THEOREM OwnershipStays == Spec => OwnerStays
<1>1. ASSUME TypeOK, OwnerInv, CountInv, CountInv', Next, InFlight # {}, InFlight' # {}
      PROVE  stopProbe' = stopProbe
  <2>1. IsFiniteSet(InFlight) /\ IsFiniteSet(InFlight')
    <3>1. InFlight \subseteq Requests /\ InFlight' \subseteq Requests
      BY DEF InFlight
    <3> QED
      BY <3>1, FS_Subset, RequestsAssumption
  <2>2. active # 0 /\ active' # 0
    <3>1. Cardinality(InFlight) # 0 /\ Cardinality(InFlight') # 0
      BY <1>1, <2>1, FS_EmptySet
    <3> QED
      BY <1>1, <3>1 DEF CountInv
  <2>3. ASSUME NEW r \in Requests, OnRequestStart(r) \/ OnRequestEnd(r)
        PROVE  UNCHANGED stopProbe
    BY <2>2, <2>3 DEF OnRequestStart, OnRequestEnd
  <2>4. ASSUME NEW r \in Requests, Response(r) PROVE UNCHANGED stopProbe
    BY <2>4 DEF Response, OnStreamStart, OnStreamContent, HardCheck, OnCompletion,
                OnStreamEnd, ownerVars
  <2>5. ASSUME NEW l \in Loops, ProbeLoop(l) \/ CloseStop(l) \/ LoopCommandEnds(l)
        PROVE  UNCHANGED stopProbe
    BY <2>5 DEF ProbeLoop, Tick, TimerFires, FetchFails, FetchSucceeds, NotFast, OverSpeed,
                EvaluateLoop, LoopTriggers, StopSeen, AfterTick, CloseStop,
                LoopCommandEnds, ownerVars
  <2>6. ASSUME NEW g \in Triggerers, GoTrigger(g) \/ GoCommandEnds(g)
        PROVE  UNCHANGED stopProbe
    BY <2>6 DEF GoTrigger, GoCommandEnds, ownerVars
  <2>7. PauseExpires => UNCHANGED stopProbe
    BY DEF PauseExpires, ownerVars
  <2> QED
    BY <1>1, <2>3, <2>4, <2>5, <2>6, <2>7 DEF Next
<1>2. TypeOK /\ OwnerInv /\ CountInv /\ CountInv' /\ [Next]_vars =>
        [InFlight # {} /\ InFlight' # {} => stopProbe' = stopProbe]_vars
  BY <1>1
<1> QED
  BY <1>2, TypeCorrect, OwnershipCorrect, CountCorrect, PTL DEF Spec, OwnerStays

\* A low-draft trigger is only ever started outside a pause, and starts one in
\* the same critical section, so a pause never contains a second one.
THEOREM DraftTriggersSpaced == Spec => DraftOutsidePause
<1>1. ASSUME TypeOK, Next, NEW g \in Triggerers, trig[g] # "draft", trig'[g] = "draft"
      PROVE  ~paused /\ paused'
  <2>1. PICK r \in Requests : \E hasDraft, low \in BOOLEAN : OnCompletion(r, hasDraft, low)
    <3>1. ASSUME NEW l \in Loops, ProbeLoop(l) \/ CloseStop(l) \/ LoopCommandEnds(l)
          PROVE UNCHANGED trig
      BY <3>1 DEF ProbeLoop, Tick, TimerFires, FetchFails, FetchSucceeds, NotFast,
                  OverSpeed, EvaluateLoop, LoopTriggers, StopSeen, AfterTick, CloseStop,
                  LoopCommandEnds
    <3>2. ASSUME NEW r \in Requests,
                 \/ OnRequestStart(r) \/ OnRequestEnd(r)
                 \/ \E kind \in {"plain", "stream"} : OnStreamStart(r, kind)
                 \/ \E marked, crossed \in BOOLEAN : OnStreamContent(r, marked, crossed)
                 \/ OnStreamEnd(r)
          PROVE UNCHANGED trig
      BY <3>2 DEF OnRequestStart, OnRequestEnd, OnStreamStart, OnStreamContent, OnStreamEnd
    <3>3. ASSUME NEW r \in Requests, HardCheck(r) PROVE trig'[g] # "draft"
      BY <1>1, <3>3 DEF HardCheck, Spawn, TypeOK
    <3>4. ASSUME NEW h \in Triggerers, GoTrigger(h) \/ GoCommandEnds(h)
          PROVE trig'[g] # "draft"
      BY <1>1, <3>4 DEF GoTrigger, GoCommandEnds, TypeOK
    <3>5. ASSUME PauseExpires PROVE UNCHANGED trig
      BY <3>5 DEF PauseExpires
    <3> QED
      BY <1>1, <3>1, <3>2, <3>3, <3>4, <3>5 DEF Next, Response
  <2>2. PICK hasDraft \in BOOLEAN, low \in BOOLEAN : OnCompletion(r, hasDraft, low)
    BY <2>1
  <2>3. ObserveDraft(low) /\ ~UNCHANGED trig
    BY <1>1, <2>2 DEF OnCompletion
  <2> QED
    BY <2>3 DEF ObserveDraft
<1>2. TypeOK /\ [Next]_vars =>
        [\A g \in Triggerers : trig[g] # "draft" /\ trig'[g] = "draft" => ~paused /\ paused']_vars
  BY <1>1
<1> QED
  BY <1>2, TypeCorrect, PTL DEF Spec, DraftOutsidePause

-----------------------------------------------------------------------------
(* The history of MCWatchdog: what a trigger and a first sample rest on.     *)

\* The history observes the policy: it adds no behaviour to it.
LEMMA HistoryObserves == SpecH => Spec
<1>1. InitH => Init
  BY DEF InitH
<1>2. [NextH]_<<vars, history>> => [Next]_vars
  BY DEF NextH
<1> QED
  BY <1>1, <1>2, PTL DEF SpecH, Spec

\* As long as no two loops interleaved their samples: the counted streak never
\* exceeds the real one, and a stored over-speed sample is still to be counted.
StreakInv ==
  /\ streak \in 0..Times
  /\ mixed \in BOOLEAN
  /\ ~mixed =>
       /\ \A k, l \in MidSample : k = l
       /\ MidSample = {} => wedges <= streak
       /\ \A l \in Loops : pc[l] = "fast" => streak = Times \/ wedges < streak

\* A step that ends no fetch and brings no loop between the two sections keeps
\* StreakInv when it leaves wedges alone or resets it.
LEMMA StreakUntouched ==
  ASSUME TypeOK, StreakInv, ObserveStreak, ObserveMixing,
         \A l \in Loops : ~EndsFetch(l), MidSample' = MidSample,
         \A l \in Loops : pc'[l] = "fast" <=> pc[l] = "fast",
         wedges' = wedges \/ wedges' = 0
  PROVE  StreakInv'
<1>1. streak' = streak
  BY DEF ObserveStreak
<1>2. mixed' \in BOOLEAN
  BY Zenon DEF ObserveMixing, StreakInv
<1>3. ASSUME ~mixed'
      PROVE  /\ \A k, l \in MidSample' : k = l
             /\ MidSample' = {} => wedges' <= streak'
             /\ \A l \in Loops : pc'[l] = "fast" => streak' = Times \/ wedges' < streak'
  <2>1. CASE ~mixed
    <3>1. ASSUME NEW l \in Loops, pc'[l] = "fast" PROVE streak' = Times \/ wedges' < streak'
      BY <1>1, <2>1, <3>1, StreaksAssumption DEF StreakInv, TypeOK
    <3> QED
      BY <1>1, <2>1, <3>1 DEF StreakInv
  <2>2. CASE mixed
    <3>1. wedges' = 0 /\ MidSample' = {}
      BY <1>3, <2>2 DEF ObserveMixing
    <3> QED
      BY <1>1, <3>1 DEF StreakInv, MidSample
  <2> QED
    BY <2>1, <2>2
<1> QED
  BY <1>1, <1>2, <1>3 DEF StreakInv

\* The first section of a sample, or a failed fetch: the real streak moves.
LEMMA StreakMoves ==
  ASSUME TypeOK, StreakInv, ObserveStreak, ObserveMixing, NEW l \in Loops,
         (\E state \in Sample : FetchSucceeds(l, state)) \/ FetchFails(l)
  PROVE  StreakInv'
<1>1. /\ pc[l] = "fetch"
      /\ pc' = [pc EXCEPT ![l] = pc'[l]]
      /\ pc'[l] \in {"after", "fast", "slow"}
      /\ pc'[l] = "after" => wedges' = 0
      /\ pc'[l] # "after" => wedges' = wedges
  BY DEF FetchSucceeds, FetchFails, Goto, TypeOK
<1>2. EndsFetch(l) /\ \A k \in Loops : EndsFetch(k) => k = l
  BY <1>1 DEF EndsFetch, TypeOK
<1>3. streak' = IF pc'[l] # "fast" THEN 0 ELSE IF streak < Times THEN streak + 1 ELSE streak
  BY <1>2 DEF ObserveStreak
<1>4. streak' \in 0..Times /\ mixed' \in BOOLEAN
  <2>1. streak' \in 0..Times
    BY <1>3, StreaksAssumption DEF StreakInv
  <2>2. mixed' \in BOOLEAN
    BY Zenon DEF ObserveMixing, StreakInv
  <2> QED
    BY <2>1, <2>2
<1>5. ASSUME ~mixed'
      PROVE  /\ \A j, k \in MidSample' : j = k
             /\ MidSample' = {} => wedges' <= streak'
             /\ \A k \in Loops : pc'[k] = "fast" => streak' = Times \/ wedges' < streak'
  <2>1. MidSample = {}
    BY <1>2, <1>5 DEF ObserveMixing
  <2>2. \A k \in MidSample' : k = l
    BY <1>1, <2>1 DEF MidSample, TypeOK
  <2>3. CASE pc'[l] = "after"
    <3>1. wedges' = 0 /\ streak' = 0 /\ MidSample' = {}
      BY <1>1, <1>3, <2>2, <2>3 DEF MidSample
    <3> QED
      BY <3>1 DEF MidSample
  <2>4. CASE pc'[l] = "slow"
    <3>1. l \in MidSample'
      BY <2>4 DEF MidSample
    <3>2. \A k \in Loops : pc'[k] # "fast"
      BY <2>2, <2>4 DEF MidSample
    <3> QED
      BY <2>2, <3>1, <3>2
  <2>5. CASE pc'[l] = "fast"
    <3>1. l \in MidSample'
      BY <2>5 DEF MidSample
    <3>2. ~mixed
      BY <1>5, <2>1, <3>1 DEF ObserveMixing
    <3>3. wedges <= streak /\ wedges' = wedges
      BY <1>1, <2>1, <2>5, <3>2 DEF StreakInv
    <3>4. streak' = Times \/ wedges' < streak'
      BY <1>3, <2>5, <3>3, StreaksAssumption DEF StreakInv, TypeOK
    <3> QED
      BY <2>2, <3>1, <3>4
  <2> QED
    BY <1>1, <2>3, <2>4, <2>5
<1> QED
  BY <1>4, <1>5 DEF StreakInv

\* The second section of a sample: it is counted, or ends the streak.
LEMMA SampleCounted ==
  ASSUME TypeOK, StreakInv, ObserveStreak, ObserveMixing, NEW l \in Loops,
         OverSpeed(l) \/ NotFast(l)
  PROVE  StreakInv'
<1>1. /\ pc[l] \in {"slow", "fast"}
      /\ pc' = [pc EXCEPT ![l] = pc'[l]]
      /\ pc'[l] \in {"after", "judge"}
  BY DEF OverSpeed, NotFast, Goto, TypeOK
<1>2. streak' = streak
  BY <1>1 DEF ObserveStreak, EndsFetch, TypeOK
<1>3. l \in MidSample /\ MidSample' = MidSample \ {l}
  BY <1>1 DEF MidSample, TypeOK
<1>4. mixed' \in BOOLEAN
  BY Zenon DEF ObserveMixing, StreakInv
<1>5. ASSUME ~mixed'
      PROVE  /\ \A j, k \in MidSample' : j = k
             /\ MidSample' = {} => wedges' <= streak'
             /\ \A k \in Loops : pc'[k] = "fast" => streak' = Times \/ wedges' < streak'
  <2>1. CASE mixed
    <3>1. wedges' = 0 /\ MidSample' = {}
      BY <1>5, <2>1 DEF ObserveMixing
    <3> QED
      BY <1>2, <3>1 DEF MidSample, StreakInv
  <2>2. CASE ~mixed
    <3>1. MidSample = {l}
      BY <1>3, <2>2 DEF StreakInv
    <3>2. MidSample' = {}
      BY <1>3, <3>1
    <3>3. wedges' <= streak'
      <4>1. CASE NotFast(l)
        BY <1>2, <4>1 DEF NotFast, StreakInv
      <4>2. CASE OverSpeed(l)
        <5>1. streak = Times \/ wedges < streak
          BY <2>2, <4>2 DEF OverSpeed, StreakInv
        <5> QED
          BY <1>2, <4>2, <5>1, StreaksAssumption DEF OverSpeed, StreakInv, TypeOK
      <4> QED
        BY <4>1, <4>2
    <3> QED
      BY <3>2, <3>3 DEF MidSample
  <2> QED
    BY <2>1, <2>2
<1> QED
  BY <1>2, <1>4, <1>5 DEF StreakInv

LEMMA StreakStep == TypeOK /\ StreakInv /\ [NextH]_<<vars, history>> => StreakInv'
<1> SUFFICES ASSUME TypeOK, StreakInv, [NextH]_<<vars, history>> PROVE StreakInv'
  OBVIOUS
<1>1. CASE UNCHANGED <<vars, history>>
  BY <1>1 DEF vars, streakVars, history, StreakInv, MidSample
<1>2. ASSUME NextH PROVE StreakInv'
  <2>0. ObserveStreak /\ ObserveMixing /\ Next
    BY <1>2 DEF NextH
  <2>1. ASSUME NEW l \in Loops, NEW at \in {"after", "wait", "fetch", "judge", "trigger",
                                            "command", "dead"},
               pc[l] \notin {"fetch", "slow", "fast"}, Goto(l, at),
               wedges' = wedges \/ wedges' = 0
        PROVE  StreakInv'
    <3>1. \A k \in Loops : /\ pc'[k] = "fast" <=> pc[k] = "fast"
                           /\ pc'[k] = "slow" <=> pc[k] = "slow"
                           /\ ~EndsFetch(k)
      BY <2>1 DEF Goto, EndsFetch, TypeOK
    <3>2. MidSample' = MidSample
      BY <3>1 DEF MidSample
    <3> QED
      BY <2>0, <2>1, <3>1, <3>2, StreakUntouched
  <2>2. ASSUME UNCHANGED pc, wedges' = wedges \/ wedges' = 0 PROVE StreakInv'
    <3>1. MidSample' = MidSample /\ \A k \in Loops : ~EndsFetch(k)
      BY <2>2 DEF MidSample, EndsFetch
    <3> QED
      BY <2>0, <2>2, <3>1, StreakUntouched
  <2>3. ASSUME NEW r \in Requests, OnRequestStart(r) \/ OnRequestEnd(r) PROVE StreakInv'
    <3>1. wedges' = wedges
      BY <2>3 DEF OnRequestStart, OnRequestEnd, streakVars
    <3>2. ASSUME NEW l \in Loops, StartLoop(l) PROVE StreakInv'
      BY <2>1, <3>1, <3>2 DEF StartLoop, Goto
    <3> QED
      BY <2>2, <2>3, <3>1, <3>2 DEF OnRequestStart, OnRequestEnd
  <2>4. ASSUME NEW r \in Requests, Response(r) PROVE StreakInv'
    <3>1. UNCHANGED <<pc, wedges>>
      BY <2>4 DEF Response, OnStreamStart, OnStreamContent, HardCheck, OnCompletion,
                  OnStreamEnd, streakVars
    <3> QED
      BY <2>2, <3>1
  <2>5. ASSUME NEW l \in Loops, Tick(l) PROVE StreakInv'
    <3>1. CASE (\E state \in Sample : FetchSucceeds(l, state)) \/ FetchFails(l)
      BY <2>0, <3>1, StreakMoves
    <3>2. CASE OverSpeed(l) \/ NotFast(l)
      BY <2>0, <3>2, SampleCounted
    <3>3. CASE TimerFires(l) \/ EvaluateLoop(l) \/ LoopTriggers(l)
      BY <2>1, <3>3 DEF TimerFires, EvaluateLoop, LoopTriggers, DeclareUnhealthy, Goto,
                        streakVars
    <3> QED
      BY <2>5, <3>1, <3>2, <3>3 DEF Tick
  <2>6. ASSUME NEW l \in Loops, StopSeen(l) \/ AfterTick(l) \/ LoopCommandEnds(l)
        PROVE  StreakInv'
    BY <2>1, <2>6 DEF StopSeen, AfterTick, LoopCommandEnds, Goto, streakVars
  <2>7. ASSUME NEW l \in Loops, CloseStop(l) PROVE StreakInv'
    BY <2>2, <2>7 DEF CloseStop, streakVars
  <2>8. ASSUME NEW g \in Triggerers, GoTrigger(g) \/ GoCommandEnds(g) PROVE StreakInv'
    BY <2>2, <2>8 DEF GoTrigger, GoCommandEnds, DeclareUnhealthy, streakVars
  <2>9. CASE PauseExpires
    BY <2>2, <2>9 DEF PauseExpires, streakVars
  <2> QED
    BY <2>0, <2>3, <2>4, <2>5, <2>6, <2>7, <2>8, <2>9 DEF Next, ProbeLoop
<1> QED
  BY <1>1, <1>2

\* A judgement starts only after Times fetches in a row that brought an
\* over-speed sample: no slow sample, baseline or failure lies among them,
\* whatever loops, pauses and triggers come and go in between.
THEOREM StreaksConsecutive == SpecH => StreakIsConsecutive
<1>1. InitH => StreakInv
  <2> SUFFICES ASSUME InitH PROVE StreakInv
    OBVIOUS
  <2>1. streak \in 0..Times /\ wedges <= streak
    BY StreaksAssumption DEF InitH, Init
  <2>2. mixed \in BOOLEAN
    BY Zenon DEF InitH
  <2>3. MidSample = {} /\ \A l \in Loops : pc[l] = "dead"
    BY DEF InitH, Init, MidSample
  <2> QED
    BY <2>1, <2>2, <2>3 DEF StreakInv
<1>2. TypeOK /\ StreakInv /\ [NextH]_<<vars, history>> => StreakInv'
  BY StreakStep
<1>3. ASSUME TypeOK, StreakInv, Next, ~mixed, NEW l \in Loops, pc[l] = "fast", pc'[l] = "judge"
      PROVE  streak >= Times
  <2>1. OverSpeed(l)
    <3>1. ASSUME NEW r \in Requests, OnRequestStart(r) \/ OnRequestEnd(r) \/ Response(r)
          PROVE  FALSE
      BY <1>3, <3>1 DEF OnRequestStart, StartLoop, OnRequestEnd, Response, OnStreamStart,
                        OnStreamContent, HardCheck, OnCompletion, OnStreamEnd, TypeOK
    <3>2. ASSUME NEW k \in Loops, ProbeLoop(k) \/ CloseStop(k) \/ LoopCommandEnds(k),
                 ~OverSpeed(l)
          PROVE  FALSE
      BY <1>3, <3>2 DEF ProbeLoop, Tick, TimerFires, FetchFails, FetchSucceeds, NotFast,
                        OverSpeed, EvaluateLoop, LoopTriggers, StopSeen, AfterTick,
                        CloseStop, LoopCommandEnds, Goto, TypeOK
    <3>3. ASSUME NEW g \in Triggerers, GoTrigger(g) \/ GoCommandEnds(g) PROVE FALSE
      BY <1>3, <3>3 DEF GoTrigger, GoCommandEnds
    <3>4. ~PauseExpires
      BY <1>3 DEF PauseExpires
    <3> QED
      BY <1>3, <3>1, <3>2, <3>3, <3>4 DEF Next
  <2>2. wedges + 1 >= Times
    BY <1>3, <2>1, StreaksAssumption DEF OverSpeed, Goto, TypeOK
  <2>3. streak = Times \/ wedges < streak
    BY <1>3 DEF StreakInv
  <2> QED
    BY <1>3, <2>2, <2>3, StreaksAssumption DEF StreakInv, TypeOK
<1>4. TypeOK /\ StreakInv /\ [NextH]_<<vars, history>> =>
        [\A l \in Loops :
           /\ pc[l] = "fast" /\ pc'[l] = "judge"
           /\ ~mixed
           => streak >= Times]_<<vars, history>>
  BY <1>3 DEF NextH
<1> QED
  BY <1>1, <1>2, <1>4, HistoryObserves, TypeCorrect, PTL DEF SpecH, StreakIsConsecutive

\* A clean pause owes a baseline until a sample pays it, and while it lasts no
\* loop has a fetch in flight that could pay it too early.
BaselineOwed ==
  sincePause = "clean" => /\ skipNext
                          /\ paused => \A l \in Loops : pc[l] # "fetch"

\* Whatever begins a pause asks for a new baseline.
LEMMA PauseAsksBaseline == TypeOK /\ Next /\ PauseBegins => skipNext'
<1> SUFFICES ASSUME TypeOK, Next, PauseBegins PROVE skipNext'
  OBVIOUS
<1>1. ASSUME NEW r \in Requests, OnRequestStart(r) \/ OnRequestEnd(r) PROVE FALSE
  BY <1>1 DEF OnRequestStart, StartLoop, OnRequestEnd, PauseBegins, pauseVars, TypeOK
<1>2. ASSUME NEW r \in Requests, Response(r) PROVE skipNext'
  <2>1. UNCHANGED pc
    BY <1>2 DEF Response, OnStreamStart, OnStreamContent, HardCheck, OnCompletion, OnStreamEnd
  <2>2. ASSUME NEW hasDraft \in BOOLEAN, NEW low \in BOOLEAN, OnCompletion(r, hasDraft, low)
        PROVE  skipNext'
    BY <2>1, <2>2, Zenon DEF OnCompletion, ObserveDraft, PauseBegins, pauseVars, Spawn, TypeOK
  <2>3. ASSUME \/ \E kind \in {"plain", "stream"} : OnStreamStart(r, kind)
               \/ \E marked, crossed \in BOOLEAN : OnStreamContent(r, marked, crossed)
               \/ OnStreamEnd(r)
        PROVE  FALSE
    BY <2>1, <2>3 DEF OnStreamStart, OnStreamContent, OnStreamEnd, PauseBegins, pauseVars
  <2>4. ASSUME HardCheck(r) PROVE FALSE
    BY <2>1, <2>4 DEF HardCheck, Spawn, PauseBegins, pauseVars, TypeOK
  <2> QED
    BY <1>2, <2>2, <2>3, <2>4 DEF Response
<1>3. ASSUME NEW l \in Loops, ProbeLoop(l) PROVE skipNext'
  <2>1. CASE LoopTriggers(l)
    BY <2>1 DEF LoopTriggers, DeclareUnhealthy
  <2>2. CASE FetchFails(l)
    <3>1. ~paused
      BY <2>2 DEF FetchFails, Goto, PauseBegins, TypeOK
    <3> QED
      BY <2>2, <3>1 DEF FetchFails
  <2>3. ASSUME ~LoopTriggers(l), ~FetchFails(l) PROVE FALSE
    BY <1>3, <2>3 DEF ProbeLoop, Tick, TimerFires, FetchSucceeds, NotFast, OverSpeed,
                      EvaluateLoop, StopSeen, AfterTick, Goto, PauseBegins, pauseVars, TypeOK
  <2> QED
    BY <2>1, <2>2, <2>3
<1>4. ASSUME NEW l \in Loops, CloseStop(l) \/ LoopCommandEnds(l) PROVE FALSE
  BY <1>4 DEF CloseStop, LoopCommandEnds, Goto, PauseBegins, pauseVars, TypeOK
<1>5. ASSUME NEW g \in Triggerers, GoTrigger(g) PROVE skipNext'
  BY <1>5 DEF GoTrigger, DeclareUnhealthy
<1>6. ASSUME NEW g \in Triggerers, GoCommandEnds(g) PROVE FALSE
  BY <1>6 DEF GoCommandEnds, PauseBegins, pauseVars, TypeOK
<1>7. ASSUME PauseExpires PROVE FALSE
  BY <1>7 DEF PauseExpires, PauseBegins, TypeOK
<1> QED
  BY <1>1, <1>2, <1>3, <1>4, <1>5, <1>6, <1>7 DEF Next

\* Only a fetch that succeeds pays the baseline, and it is a sample.
LEMMA BaselinePaid ==
  ASSUME TypeOK, Next, skipNext, ~skipNext'
  PROVE  \E l \in Loops : pc[l] = "fetch" /\ pc'[l] # "fetch" /\ UNCHANGED paused
<1>1. ASSUME NEW r \in Requests, OnRequestStart(r) \/ OnRequestEnd(r) PROVE FALSE
  BY <1>1 DEF OnRequestStart, OnRequestEnd, pauseVars
<1>2. ASSUME NEW r \in Requests, Response(r) PROVE FALSE
  BY <1>2, Zenon DEF Response, OnStreamStart, OnStreamContent, HardCheck, OnCompletion,
                     ObserveDraft, OnStreamEnd, pauseVars
<1>3. ASSUME NEW l \in Loops, ProbeLoop(l)
      PROVE  \E state \in Sample : FetchSucceeds(l, state)
  BY <1>3 DEF ProbeLoop, Tick, TimerFires, FetchFails, NotFast, OverSpeed, EvaluateLoop,
              LoopTriggers, DeclareUnhealthy, StopSeen, AfterTick, pauseVars
<1>4. ASSUME NEW l \in Loops, NEW state \in Sample, FetchSucceeds(l, state)
      PROVE  pc[l] = "fetch" /\ pc'[l] # "fetch" /\ UNCHANGED paused
  BY <1>4 DEF FetchSucceeds, Goto, TypeOK
<1>5. ASSUME NEW l \in Loops, CloseStop(l) \/ LoopCommandEnds(l) PROVE FALSE
  BY <1>5 DEF CloseStop, LoopCommandEnds, pauseVars
<1>6. ASSUME NEW g \in Triggerers, GoTrigger(g) \/ GoCommandEnds(g) PROVE FALSE
  BY <1>6 DEF GoTrigger, GoCommandEnds, DeclareUnhealthy, pauseVars
<1>7. ~PauseExpires
  BY DEF PauseExpires
<1> QED
  BY <1>1, <1>2, <1>3, <1>4, <1>5, <1>6, <1>7 DEF Next

\* No fetch starts in a pause.
LEMMA NoFetchInPause ==
  ASSUME TypeOK, Next, paused, NEW l \in Loops, pc'[l] = "fetch"
  PROVE  pc[l] = "fetch"
<1>1. ASSUME NEW r \in Requests, OnRequestStart(r) \/ OnRequestEnd(r) \/ Response(r)
      PROVE  pc[l] = "fetch"
  BY <1>1 DEF OnRequestStart, StartLoop, OnRequestEnd, Response, OnStreamStart,
              OnStreamContent, HardCheck, OnCompletion, OnStreamEnd, TypeOK
<1>2. ASSUME NEW k \in Loops, ProbeLoop(k) \/ CloseStop(k) \/ LoopCommandEnds(k)
      PROVE  pc[l] = "fetch"
  BY <1>2 DEF ProbeLoop, Tick, TimerFires, FetchFails, FetchSucceeds, NotFast, OverSpeed,
              EvaluateLoop, LoopTriggers, StopSeen, AfterTick, CloseStop, LoopCommandEnds,
              Goto, TypeOK
<1>3. ASSUME NEW g \in Triggerers, GoTrigger(g) \/ GoCommandEnds(g) PROVE pc' = pc
  BY <1>3 DEF GoTrigger, GoCommandEnds
<1>4. PauseExpires => pc' = pc
  BY DEF PauseExpires
<1> QED
  BY <1>1, <1>2, <1>3, <1>4 DEF Next

LEMMA BaselineStep ==
  TypeOK /\ BaselineOwed /\ [NextH]_<<vars, history>> => BaselineOwed'
<1> SUFFICES ASSUME TypeOK, BaselineOwed, [NextH]_<<vars, history>>, sincePause' = "clean"
             PROVE  skipNext' /\ (paused' => \A l \in Loops : pc'[l] # "fetch")
  BY DEF BaselineOwed
<1>1. CASE UNCHANGED <<vars, history>>
  BY <1>1 DEF vars, pauseVars, history, BaselineOwed
<1>2. CASE NextH /\ PauseBegins
  <2>1. skipNext'
    BY <1>2, PauseAsksBaseline DEF NextH
  <2>2. \A l \in Loops : pc'[l] # "fetch"
    BY <1>2 DEF NextH, ObservePause
  <2> QED
    BY <2>1, <2>2
<1>3. CASE NextH /\ ~PauseBegins
  <2>1. sincePause = "clean" /\ ~(~paused /\ \E l \in Loops : Samples(l))
    BY <1>3 DEF NextH, ObservePause
  <2>2. skipNext'
    <3>1. SUFFICES ASSUME ~skipNext' PROVE FALSE
      OBVIOUS
    <3>2. PICK l \in Loops : pc[l] = "fetch" /\ pc'[l] # "fetch" /\ UNCHANGED paused
      BY <1>3, <2>1, <3>1, BaselinePaid DEF BaselineOwed, NextH
    <3>3. ~paused
      BY <2>1, <3>2 DEF BaselineOwed
    <3> QED
      BY <1>3, <2>1, <3>2, <3>3 DEF Samples
  <2>3. ASSUME paused', NEW l \in Loops PROVE pc'[l] # "fetch"
    <3>1. paused
      BY <1>3, <2>3 DEF PauseBegins
    <3>2. pc[l] # "fetch"
      BY <2>1, <3>1 DEF BaselineOwed
    <3> QED
      BY <1>3, <3>1, <3>2, NoFetchInPause DEF NextH
  <2> QED
    BY <2>2, <2>3
<1> QED
  BY <1>1, <1>2, <1>3

\* The sample that first follows a clean pause is never rate-checked: the pause
\* owes a baseline, no trigger or failed fetch in between forgets that, and no
\* fetch is under way that could pay it before the pause is over.
THEOREM BaselineFirst == SpecH => BaselineAfterCleanPause
<1>1. InitH => BaselineOwed
  BY DEF InitH, BaselineOwed
<1>2. TypeOK /\ BaselineOwed /\ [NextH]_<<vars, history>> => BaselineOwed'
  BY BaselineStep
<1>3. ASSUME TypeOK, BaselineOwed, Next, NEW l \in Loops,
             pc[l] = "fetch", pc'[l] \in {"slow", "fast"}
      PROVE  sincePause # "clean"
  <2>1. PICK k \in Loops : ProbeLoop(k)
    <3>1. ASSUME NEW r \in Requests, OnRequestStart(r) \/ OnRequestEnd(r) \/ Response(r)
          PROVE  FALSE
      BY <1>3, <3>1 DEF OnRequestStart, StartLoop, OnRequestEnd, Response, OnStreamStart,
                        OnStreamContent, HardCheck, OnCompletion, OnStreamEnd, TypeOK
    <3>2. ASSUME NEW k \in Loops, CloseStop(k) \/ LoopCommandEnds(k) PROVE FALSE
      BY <1>3, <3>2 DEF CloseStop, LoopCommandEnds, Goto, TypeOK
    <3>3. ASSUME NEW g \in Triggerers, GoTrigger(g) \/ GoCommandEnds(g) PROVE FALSE
      BY <1>3, <3>3 DEF GoTrigger, GoCommandEnds
    <3>4. ~PauseExpires
      BY <1>3 DEF PauseExpires
    <3> QED
      BY <1>3, <3>1, <3>2, <3>3, <3>4 DEF Next
  <2>2. \E state \in Sample : FetchSucceeds(l, state)
    BY <1>3, <2>1 DEF ProbeLoop, Tick, TimerFires, FetchFails, FetchSucceeds, NotFast,
                      OverSpeed, EvaluateLoop, LoopTriggers, StopSeen, AfterTick, Goto, TypeOK
  <2>3. ~skipNext
    BY <1>3, <2>2 DEF FetchSucceeds, Goto, TypeOK
  <2> QED
    BY <1>3, <2>3 DEF BaselineOwed
<1>4. TypeOK /\ BaselineOwed /\ [NextH]_<<vars, history>> =>
        [\A l \in Loops :
           /\ pc[l] = "fetch" /\ pc'[l] \in {"slow", "fast"}
           /\ ~paused
           => sincePause # "clean"]_<<vars, history>>
  BY <1>3 DEF NextH
<1> QED
  BY <1>1, <1>2, <1>4, HistoryObserves, TypeCorrect, PTL DEF SpecH, BaselineAfterCleanPause
=============================================================================
