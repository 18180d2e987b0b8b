------------------------- MODULE CloudRouting_proofs -------------------------
(***************************************************************************)
(* Proofs about the cloud slots and the sampling count, for any number of  *)
(* requests and controllers and any limit.                                 *)
(***************************************************************************)
EXTENDS CloudRouting, FiniteSetTheorems, TLAPS

\* The types of all but the two counters: that neither counter is decremented
\* below zero follows from what they count.
Shape ==
  /\ at \in [Handlers -> {"idle", "decide", "judge", "refresh", "probe", "waitReady",
                          "rejudge", "forward", "acquire", "local", "cloud"}]
  /\ kind \in [Handlers -> Kinds]
  /\ gone \subseteq Handlers
  /\ alive \in BOOLEAN
  /\ accepts \in BOOLEAN
  /\ poll \in Polls
  /\ ctrlMu \in Controllers \union {Nobody}
  /\ ctrl \in [Controllers -> Controls]

LEMMA ShapeStep == Shape /\ [Next]_vars => Shape'
<1> SUFFICES ASSUME Shape, [Next]_vars PROVE Shape'
  OBVIOUS
<1> USE DEF Shape, Kinds, Polls, Controls, requestVars, healthVars, ctrlVars, Goto, Return
<1>1. ASSUME NEW h \in Handlers, NEW k \in Kinds, Arrive(h, k) PROVE Shape'
  BY <1>1 DEF Arrive
<1>2. ASSUME NEW h \in Handlers, Decide(h) \/ OnHTTPRequest(h) PROVE Shape'
  BY <1>2 DEF Decide, OnHTTPRequest
<1>3. ASSUME NEW h \in Handlers, BackendReady(h) \/ ForwardLocal(h) PROVE Shape'
  BY <1>3 DEF BackendReady, ForwardLocal
<1>4. ASSUME NEW h \in Handlers, NEW answer \in BOOLEAN,
             Judge(h, answer) \/ Probe(h, answer) \/ Rejudge(h, answer)
      PROVE Shape'
  BY <1>4 DEF Judge, Probe, Rejudge
<1>5. ASSUME NEW h \in Handlers, Acquire(h) \/ ClientGone(h) PROVE Shape'
  BY <1>5 DEF Acquire, ClientGone
<1>6. ASSUME NEW h \in Handlers, GiveUpSlot(h) \/ LocalEnds(h) \/ CloudEnds(h) PROVE Shape'
  BY <1>6 DEF GiveUpSlot, LocalEnds, CloudEnds
<1>7. CASE Poll
  <2>1. UNCHANGED <<at, kind, gone, accepts, ctrlMu, ctrl>> /\ poll' \in Polls
    BY <1>7 DEF Poll, Dial, Compare, SetPolled
  <2>2. alive' \in BOOLEAN
    <3>1. CASE SetPolled
      BY <3>1, Zenon DEF SetPolled
    <3>2. CASE Dial \/ Compare
      BY <3>2 DEF Dial, Compare
    <3> QED
      BY <1>7, <3>1, <3>2 DEF Poll
  <2> QED
    BY <2>1, <2>2
<1>8. ASSUME NEW c \in Controllers, NEW action \in {"start", "stop"}, Control(c, action)
      PROVE Shape'
  BY <1>8 DEF Control
<1>9. ASSUME NEW c \in Controllers, NEW ok \in BOOLEAN, ControlCommandEnds(c, ok)
      PROVE Shape'
  BY <1>9 DEF ControlCommandEnds
<1>10. ASSUME NEW c \in Controllers, SetControlled(c) PROVE Shape'
  <2>1. alive' \in BOOLEAN
    BY <1>10, Zenon DEF SetControlled
  <2> QED
    BY <1>10, <2>1 DEF SetControlled
<1>11. CASE BackendChanges \/ UNCHANGED vars
  <2>1. accepts' \in BOOLEAN
    BY <1>11 DEF BackendChanges, vars
  <2> QED
    BY <1>11, <2>1 DEF BackendChanges, vars
<1> QED
  BY <1>1, <1>2, <1>3, <1>4, <1>5, <1>6, <1>7, <1>8, <1>9, <1>10, <1>11
     DEF Next, Handle, Advance

-----------------------------------------------------------------------------
(* The cloud slots.                                                          *)

\* Acquire and CloudEnds move the semaphore and the set it counts together.
LEMMA SlotsStep == Shape /\ slots \in Nat /\ SlotsInv /\ [Next]_vars
                     => slots' \in Nat /\ SlotsInv'
<1> SUFFICES ASSUME Shape, slots \in Nat, SlotsInv, [Next]_vars
             PROVE slots' \in Nat /\ SlotsInv'
  OBVIOUS
<1> USE LimitAssumption
<1>0. IsFiniteSet(InCloud)
  BY FS_Subset, HandlersAssumption DEF InCloud
<1>1. ASSUME NEW h \in Handlers, Acquire(h) PROVE slots' \in Nat /\ SlotsInv'
  <2>1. h \notin InCloud /\ InCloud' = InCloud \union {h}
    BY <1>1 DEF Acquire, Goto, InCloud, Shape
  <2>2. Cardinality(InCloud \union {h}) = Cardinality(InCloud) + 1
    BY <1>0, <2>1, FS_AddElement
  <2> QED
    BY <1>1, <2>1, <2>2 DEF Acquire, SlotsInv
<1>2. ASSUME NEW h \in Handlers, CloudEnds(h) PROVE slots' \in Nat /\ SlotsInv'
  <2>1. h \in InCloud /\ InCloud' = InCloud \ {h}
    BY <1>2 DEF CloudEnds, Return, Goto, InCloud, Shape
  <2>2. Cardinality(InCloud \ {h}) = Cardinality(InCloud) - 1
    BY <1>0, <2>1, FS_RemoveElement
  <2>3. Cardinality(InCloud) > 0
    BY <1>0, <2>1, FS_EmptySet, FS_CardinalityType
  <2> QED
    BY <1>2, <2>1, <2>2, <2>3 DEF CloudEnds, SlotsInv
<1>3. ASSUME UNCHANGED <<slots, InCloud>> PROVE slots' \in Nat /\ SlotsInv'
  BY <1>3 DEF SlotsInv
<1>4. ASSUME NEW h \in Handlers,
             (\E k \in Kinds : Arrive(h, k)) \/ Advance(h) \/ GiveUpSlot(h)
               \/ LocalEnds(h) \/ ClientGone(h)
      PROVE UNCHANGED <<slots, InCloud>>
  BY <1>4 DEF Arrive, Advance, Decide, OnHTTPRequest, BackendReady, ForwardLocal, Judge,
              Probe, Rejudge, GiveUpSlot, LocalEnds, ClientGone, Return, Goto, InCloud, Shape
<1>5. CASE Poll \/ BackendChanges \/ UNCHANGED vars
  BY <1>3, <1>5 DEF Poll, Dial, Compare, SetPolled, BackendChanges, vars, requestVars, InCloud
<1>6. ASSUME NEW c \in Controllers,
             \/ \E action \in {"start", "stop"} : Control(c, action)
             \/ \E ok \in BOOLEAN : ControlCommandEnds(c, ok)
             \/ SetControlled(c)
      PROVE UNCHANGED <<slots, InCloud>>
  BY <1>6 DEF Control, ControlCommandEnds, SetControlled, requestVars, InCloud
<1> QED
  BY <1>1, <1>2, <1>3, <1>4, <1>5, <1>6 DEF Next, Handle

-----------------------------------------------------------------------------
(* The watchdog's count.                                                     *)

\* OnRequestStart and the deferred OnRequestEnd frame exactly the local chat
\* completions, and the kind of a request does not change in between.
LEMMA SamplingStep == Shape /\ active \in Nat /\ SamplingInv /\ [Next]_vars
                        => active' \in Nat /\ SamplingInv'
<1> SUFFICES ASSUME Shape, active \in Nat, SamplingInv, [Next]_vars
             PROVE active' \in Nat /\ SamplingInv'
  OBVIOUS
<1>0. IsFiniteSet(Sampled)
  BY FS_Subset, HandlersAssumption DEF Sampled
<1>1. ASSUME UNCHANGED <<active, Sampled>> PROVE active' \in Nat /\ SamplingInv'
  BY <1>1 DEF SamplingInv
<1>2. ASSUME NEW h \in Handlers, ForwardLocal(h) PROVE active' \in Nat /\ SamplingInv'
  <2>1. CASE OnChatPath(h)
    <3>1. h \notin Sampled /\ Sampled' = Sampled \union {h}
      BY <1>2, <2>1 DEF ForwardLocal, Goto, Sampled, OnChatPath, Shape
    <3>2. Cardinality(Sampled \union {h}) = Cardinality(Sampled) + 1
      BY <1>0, <3>1, FS_AddElement
    <3> QED
      BY <1>2, <2>1, <3>1, <3>2 DEF ForwardLocal, SamplingInv
  <2>2. CASE ~OnChatPath(h)
    BY <1>1, <1>2, <2>2 DEF ForwardLocal, Goto, Sampled, OnChatPath, Shape
  <2> QED
    BY <2>1, <2>2
<1>3. ASSUME NEW h \in Handlers, LocalEnds(h) PROVE active' \in Nat /\ SamplingInv'
  <2>1. CASE OnChatPath(h)
    <3>1. h \in Sampled /\ Sampled' = Sampled \ {h}
      BY <1>3, <2>1 DEF LocalEnds, Return, Goto, Sampled, OnChatPath, Shape
    <3>2. Cardinality(Sampled \ {h}) = Cardinality(Sampled) - 1
      BY <1>0, <3>1, FS_RemoveElement
    <3>3. Cardinality(Sampled) > 0
      BY <1>0, <3>1, FS_EmptySet, FS_CardinalityType
    <3> QED
      BY <1>3, <2>1, <3>1, <3>2, <3>3 DEF LocalEnds, SamplingInv
  <2>2. CASE ~OnChatPath(h)
    BY <1>1, <1>3, <2>2 DEF LocalEnds, Return, Goto, Sampled, OnChatPath, Shape
  <2> QED
    BY <2>1, <2>2
<1>4. ASSUME NEW h \in Handlers,
             (\E k \in Kinds : Arrive(h, k)) \/ Acquire(h) \/ GiveUpSlot(h)
               \/ CloudEnds(h) \/ ClientGone(h)
      PROVE UNCHANGED <<active, Sampled>>
  BY <1>4 DEF Arrive, Acquire, GiveUpSlot, CloudEnds, ClientGone, Return, Goto, Sampled,
              OnChatPath, Shape
<1>5. ASSUME NEW h \in Handlers, Advance(h), ~ForwardLocal(h)
      PROVE UNCHANGED <<active, Sampled>>
  BY <1>5 DEF Advance, Decide, OnHTTPRequest, BackendReady, Judge, Probe, Rejudge, Goto,
              Sampled, OnChatPath, Shape
<1>6. CASE Poll \/ BackendChanges \/ UNCHANGED vars
  BY <1>1, <1>6 DEF Poll, Dial, Compare, SetPolled, BackendChanges, vars, requestVars,
                    Sampled, OnChatPath
<1>7. ASSUME NEW c \in Controllers,
             \/ \E action \in {"start", "stop"} : Control(c, action)
             \/ \E ok \in BOOLEAN : ControlCommandEnds(c, ok)
             \/ SetControlled(c)
      PROVE UNCHANGED <<active, Sampled>>
  BY <1>7 DEF Control, ControlCommandEnds, SetControlled, requestVars, Sampled, OnChatPath
<1> QED
  BY <1>1, <1>2, <1>3, <1>4, <1>5, <1>6, <1>7 DEF Next, Handle

-----------------------------------------------------------------------------
\* The semaphore of the cloud router holds one token per request in the cloud
\* and never more than the limit, and the watchdog counts the local chat
\* completions and no other, so no release or OnRequestEnd is ever one too many.
THEOREM CountersCorrect == Spec => [](TypeOK /\ CountersExact)
<1> DEFINE Inv == Shape /\ slots \in Nat /\ active \in Nat /\ SlotsInv /\ SamplingInv
<1>1. Init => Inv
  <2> SUFFICES ASSUME Init PROVE Inv
    OBVIOUS
  <2>1. InCloud = {} /\ Sampled = {}
    BY DEF Init, InCloud, Sampled
  <2>2. SlotsInv /\ SamplingInv
    BY <2>1, FS_EmptySet, LimitAssumption DEF Init, SlotsInv, SamplingInv
  <2> QED
    BY <2>2 DEF Init, Shape, Kinds, Polls, Controls
<1>2. Inv /\ [Next]_vars => Inv'
  BY ShapeStep, SlotsStep, SamplingStep
<1>3. Inv => TypeOK /\ CountersExact
  BY DEF Shape, TypeOK, CountersExact
<1> QED
  BY <1>1, <1>2, <1>3, PTL DEF Spec

-----------------------------------------------------------------------------
(* The control commands.                                                     *)

\* TryLock admits one controller, and only the holder runs or reports.
THEOREM ControlsCorrect == Spec => []ControlsSerial
<1>1. Init => ControlsSerial
  BY DEF Init, ControlsSerial
<1>2. Shape /\ ControlsSerial /\ [Next]_vars => ControlsSerial'
  <2> SUFFICES ASSUME Shape, ControlsSerial, [Next]_vars PROVE ControlsSerial'
    OBVIOUS
  <2>1. ASSUME UNCHANGED ctrlVars PROVE ControlsSerial'
    BY <2>1 DEF ctrlVars, ControlsSerial
  <2>2. ASSUME NEW h \in Handlers, Handle(h) PROVE UNCHANGED ctrlVars
    BY <2>2 DEF Handle, Arrive, Advance, Decide, OnHTTPRequest, BackendReady, ForwardLocal,
                Judge, Probe, Rejudge, Acquire, GiveUpSlot, LocalEnds, CloudEnds, ClientGone
  <2>3. CASE Poll \/ BackendChanges \/ UNCHANGED vars
    BY <2>1, <2>3 DEF Poll, Dial, Compare, SetPolled, BackendChanges, vars
  <2>4. ASSUME NEW c \in Controllers, NEW action \in {"start", "stop"}, Control(c, action)
        PROVE ControlsSerial'
    BY <2>4, ControllersAssumption DEF Control, ControlsSerial, Shape
  <2>5. ASSUME NEW c \in Controllers, NEW ok \in BOOLEAN, ControlCommandEnds(c, ok)
        PROVE ControlsSerial'
    BY <2>5, ControllersAssumption DEF ControlCommandEnds, ControlsSerial, Shape
  <2>6. ASSUME NEW c \in Controllers, SetControlled(c) PROVE ControlsSerial'
    BY <2>6, ControllersAssumption DEF SetControlled, ControlsSerial, Shape
  <2> QED
    BY <2>1, <2>2, <2>3, <2>4, <2>5, <2>6 DEF Next
<1>3. Init => Shape
  BY DEF Init, Shape, Kinds, Polls, Controls
<1> QED
  BY <1>1, <1>2, <1>3, ShapeStep, PTL DEF Spec
=============================================================================
