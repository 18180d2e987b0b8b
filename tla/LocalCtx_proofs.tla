---------------------------- MODULE LocalCtx_proofs ----------------------------
(***************************************************************************)
(* What LocalCtx promises, for any number of callers and any times.        *)
(***************************************************************************)
EXTENDS LocalCtx, TLAPS

USE DEF fields, vars, OrNone, Probing, Larger, Smaller, CountDown

LEMMA Parameters ==
  /\ TTL \in Nat \ {0} /\ MinBackoff \in Nat \ {0} /\ FetchTime \in Nat \ {0}
  /\ MaxBackoff \in Nat /\ MinBackoff <= MaxBackoff
  /\ Settled \in Nat
  /\ OrNone \subseteq Nat
BY TimesAssumption, WindowsAssumption DEF Settled

\* What is left from the time before the backend settled, and how it ages: the
\* failure or the old window a probe found, the old value in the cache, the
\* time to wait that a failure left.
AgeInv ==
  /\ backend > 0 => \A c \in Callers :
       /\ pc[c] = "models" /\ "props" \in Paths /\ ~gone[c] => calm <= spent
       /\ pc[c] = "store" /\ answer[c] # backend => calm <= spent
  /\ backend > 0 /\ value > 0 /\ value # backend /\ fresh > 0
       => calm <= FetchTime + TTL - fresh
  /\ backend > 0 /\ wait > 0 => calm <= FetchTime + MaxBackoff - wait

IInv == TypeOK /\ ProbesSerial /\ BackoffInv /\ AgeInv

\* The steps of one call, and what each one needs of the caller.
LEMMA Steps ==
  ASSUME Next
  PROVE  \/ \E c \in Callers : Look(c) \/ Enter(c) \/ ReadValue(c) \/ StoreSuccess(c)
                                \/ StoreFailure(c) \/ ReadStale(c) \/ ClientGone(c)
         \/ \E c \in Callers, path \in {"props", "models"} :
              GetSucceeds(c, path) \/ GetFails(c, path)
         \/ \E w \in OrNone : BackendChanges(w)
         \/ Tick
BY DEF Next, ContextWindow, Get

-----------------------------------------------------------------------------
LEMMA InitInv == Init => IInv
BY Parameters DEF Init, IInv, TypeOK, ProbesSerial, BackoffInv, AgeInv

LEMMA TypeStep == TypeOK /\ [Next]_vars => TypeOK'
<1> SUFFICES ASSUME TypeOK, [Next]_vars PROVE TypeOK'
  OBVIOUS
<1> USE Parameters
<1>1. CASE UNCHANGED vars
  BY <1>1 DEF TypeOK
<1>2. ASSUME NEW c \in Callers, Look(c) PROVE TypeOK'
  BY <1>2 DEF TypeOK, Look, Goto
<1>3. ASSUME NEW c \in Callers, Enter(c) PROVE TypeOK'
  BY <1>3 DEF TypeOK, Enter, Goto
<1>4. ASSUME NEW c \in Callers, ReadValue(c) PROVE TypeOK'
  BY <1>4 DEF TypeOK, ReadValue, Return, Goto
<1>5. ASSUME NEW c \in Callers, StoreSuccess(c) PROVE TypeOK'
  BY <1>5 DEF TypeOK, StoreSuccess, Return, Goto
<1>6. ASSUME NEW c \in Callers, StoreFailure(c) PROVE TypeOK'
  BY <1>6 DEF TypeOK, StoreFailure, Goto
<1>7. ASSUME NEW c \in Callers, ReadStale(c) PROVE TypeOK'
  BY <1>7 DEF TypeOK, ReadStale, Return, Goto
<1>8. ASSUME NEW c \in Callers, ClientGone(c) PROVE TypeOK'
  BY <1>8 DEF TypeOK, ClientGone
<1>9. ASSUME NEW c \in Callers, NEW path \in {"props", "models"}, GetSucceeds(c, path)
      PROVE  TypeOK'
  BY <1>9 DEF TypeOK, GetSucceeds, Goto
<1>10. ASSUME NEW c \in Callers, NEW path \in {"props", "models"}, GetFails(c, path)
       PROVE  TypeOK'
  BY <1>10 DEF TypeOK, GetFails, Goto
<1>11. ASSUME NEW w \in OrNone, BackendChanges(w) PROVE TypeOK'
  BY <1>11 DEF TypeOK, BackendChanges
<1>12. ASSUME Tick PROVE TypeOK'
  <2>1. InProbe => spent + 1 \in 0..FetchTime
    BY <1>12 DEF Tick, TypeOK
  <2>2. QED
    BY <1>12, <2>1 DEF TypeOK, Tick
<1> QED
  BY Steps, <1>1, <1>2, <1>3, <1>4, <1>5, <1>6, <1>7, <1>8, <1>9, <1>10, <1>11, <1>12

\* Only Enter lets a caller into the probe, and only when nobody is in it.
LEMMA SerialStep == TypeOK /\ ProbesSerial /\ [Next]_vars => ProbesSerial'
<1> SUFFICES ASSUME TypeOK, ProbesSerial, [Next]_vars PROVE ProbesSerial'
  OBVIOUS
<1>1. CASE UNCHANGED pc
  BY <1>1 DEF ProbesSerial
<1>2. ASSUME NEW c \in Callers, pc[c] \in Probing, NEW to, pc' = [pc EXCEPT ![c] = to]
      PROVE  ProbesSerial'
  BY <1>2 DEF ProbesSerial, TypeOK
<1>3. ASSUME NEW c \in Callers, NEW to \in {"idle", "read", "queue"},
             pc' = [pc EXCEPT ![c] = to]
      PROVE  ProbesSerial'
  BY <1>3 DEF ProbesSerial, TypeOK
<1>4. ASSUME NEW c \in Callers, Enter(c) PROVE ProbesSerial'
  BY <1>4 DEF ProbesSerial, Enter, Goto, TypeOK
<1>5. ASSUME NEW c \in Callers,
             Look(c) \/ ReadValue(c) \/ StoreSuccess(c) \/ ReadStale(c)
      PROVE  ProbesSerial'
  BY <1>5, <1>3 DEF Look, ReadValue, StoreSuccess, ReadStale, Return, Goto
<1>6. ASSUME NEW c \in Callers, NEW path \in {"props", "models"},
             GetSucceeds(c, path) \/ GetFails(c, path)
      PROVE  ProbesSerial'
  BY <1>6, <1>2 DEF GetSucceeds, GetFails, Goto
<1>7. ASSUME NEW c \in Callers, StoreFailure(c) PROVE ProbesSerial'
  BY <1>7, <1>2 DEF StoreFailure, Goto
<1> QED
  BY Steps, <1>1, <1>4, <1>5, <1>6, <1>7 DEF ClientGone, BackendChanges, Tick

\* A failing probe waits for one step of the back-off and doubles the next.
LEMMA BackoffStep == TypeOK /\ BackoffInv /\ [Next]_vars => BackoffInv'
<1> SUFFICES ASSUME TypeOK, BackoffInv, [Next]_vars PROVE BackoffInv'
  OBVIOUS
<1> USE Parameters DEF TypeOK, BackoffInv
<1>1. CASE UNCHANGED <<wait, backoff>>
  BY <1>1
<1>2. ASSUME NEW c \in Callers, StoreSuccess(c) PROVE BackoffInv'
  BY <1>2 DEF StoreSuccess
<1>3. ASSUME NEW c \in Callers, StoreFailure(c) PROVE BackoffInv'
  BY <1>3 DEF StoreFailure
<1>4. ASSUME Tick PROVE BackoffInv'
  BY <1>4 DEF Tick
<1> QED
  BY Steps, <1>1, <1>2, <1>3, <1>4
     DEF Look, Enter, ReadValue, ReadStale, ClientGone, GetSucceeds, GetFails, BackendChanges

LEMMA AgeStep == IInv /\ [Next]_vars => AgeInv'
<1> SUFFICES ASSUME IInv, [Next]_vars PROVE AgeInv'
  OBVIOUS
<1> USE Parameters DEF IInv, TypeOK, AgeInv
<1>1. CASE UNCHANGED vars
  BY <1>1
<1>2. ASSUME NEW c \in Callers,
             Look(c) \/ ReadValue(c) \/ ReadStale(c)
      PROVE  AgeInv'
  BY <1>2 DEF Look, ReadValue, ReadStale, Return, Goto
<1>3. ASSUME NEW c \in Callers, Enter(c) PROVE AgeInv'
  BY <1>3 DEF Enter, Goto
<1>4. ASSUME NEW c \in Callers, StoreSuccess(c) PROVE AgeInv'
  <2>1. backend > 0 /\ answer[c] # backend => calm <= FetchTime
    BY <1>4 DEF StoreSuccess, Return, Goto
  <2>2. (backend > 0 /\ value > 0 /\ value # backend /\ fresh > 0
           => calm <= FetchTime + TTL - fresh)'
    BY <1>4, <2>1 DEF StoreSuccess
  <2>3. QED
    BY <1>4, <2>2 DEF StoreSuccess, Return, Goto
<1>5. ASSUME NEW c \in Callers, StoreFailure(c) PROVE AgeInv'
  <2>1. backend > 0 => calm <= FetchTime
    BY <1>5 DEF StoreFailure, Goto
  <2>2. wait' <= MaxBackoff
    BY <1>5 DEF StoreFailure
  <2>3. QED
    BY <1>5, <2>1, <2>2 DEF StoreFailure, Goto
<1>6. ASSUME NEW c \in Callers, ClientGone(c) PROVE AgeInv'
  BY <1>6 DEF ClientGone
<1>7. ASSUME NEW c \in Callers, NEW path \in {"props", "models"}, GetSucceeds(c, path)
      PROVE  AgeInv'
  BY <1>7 DEF GetSucceeds, Goto
<1>8. ASSUME NEW c \in Callers, GetFails(c, "props") PROVE AgeInv'
  BY <1>8 DEF GetFails, Goto
<1>9. ASSUME NEW c \in Callers, GetFails(c, "models") PROVE AgeInv'
  <2>1. backend > 0 /\ ~gone[c] => calm <= spent
    <3>1. "models" \notin Paths => "props" \in Paths
      BY PathsAssumption
    <3>2. QED
      BY <1>9, <3>1 DEF GetFails, Goto
  <2>2. backend > 0 => calm' <= spent'
    BY <1>9, <2>1 DEF GetFails, Goto
  <2>3. QED
    BY <1>9, <2>2 DEF GetFails, Goto
<1>10. ASSUME NEW w \in OrNone, BackendChanges(w) PROVE AgeInv'
  BY <1>10 DEF BackendChanges
<1>11. ASSUME Tick PROVE AgeInv'
  <2>1. calm' <= calm + 1
    BY <1>11 DEF Tick
  <2>2. ASSUME NEW c \in Callers, pc[c] \in Probing PROVE spent' = spent + 1
    BY <1>11, <2>2 DEF Tick, InProbe
  <2>3. QED
    BY <1>11, <2>1, <2>2 DEF Tick
<1> QED
  BY Steps, <1>1, <1>2, <1>3, <1>4, <1>5, <1>6, <1>7, <1>8, <1>9, <1>10, <1>11

LEMMA Invariance == Spec => []IInv
<1>1. IInv /\ [Next]_vars => IInv'
  BY TypeStep, SerialStep, BackoffStep, AgeStep DEF IInv
<1>2. QED
  BY InitInv, <1>1, PTL DEF Spec

-----------------------------------------------------------------------------
\* The fields of Provider and of its callers stay in their ranges.
THEOREM TypeCorrect == Spec => []TypeOK
BY Invariance, PTL DEF IInv

\* At most one probe is in flight, however many callers find one due
\* (localctx.go:44).
THEOREM SerialCorrect == Spec => []ProbesSerial
BY Invariance, PTL DEF IInv

\* The back-off grows to its limit and no further, however many callers fail
\* one after the other.
THEOREM BackoffCorrect == Spec => []BackoffInv
BY Invariance, PTL DEF IInv

\* One probe and one lifetime or back-off after the backend settled, neither a
\* failure nor a window of before keeps the router from the right one.
THEOREM Settles == Spec => []CacheSettles
<1>1. IInv => CacheSettles
  BY Parameters DEF IInv, TypeOK, AgeInv, CacheSettles, Settled
<1>2. QED
  BY Invariance, <1>1, PTL

\* A value, once found, is never lost and never withheld (localctx.go:63-65).
THEOREM StaleServes == Spec => StaleBeatsNothing
<1>1. IInv /\ [Next]_vars =>
        (value > 0 => /\ value' > 0
                      /\ \A c \in Callers : pc[c] # "idle" /\ pc'[c] = "idle" => last' > 0)
  <2> SUFFICES ASSUME IInv, [Next]_vars, value > 0
               PROVE  /\ value' > 0
                      /\ \A c \in Callers : pc[c] # "idle" /\ pc'[c] = "idle" => last' > 0
    OBVIOUS
  <2> USE Parameters DEF IInv, TypeOK
  <2>1. CASE UNCHANGED <<pc, value>>
    BY <2>1
  <2>2. ASSUME NEW c \in Callers, Look(c) \/ Enter(c) \/ StoreFailure(c)
        PROVE  /\ value' > 0
               /\ \A d \in Callers : pc[d] # "idle" /\ pc'[d] = "idle" => last' > 0
    BY <2>2 DEF Look, Enter, StoreFailure, Goto
  <2>3. ASSUME NEW c \in Callers, ReadValue(c) \/ StoreSuccess(c) \/ ReadStale(c)
        PROVE  value' > 0 /\ last' > 0
    BY <2>3 DEF ReadValue, StoreSuccess, ReadStale, Return
  <2>4. ASSUME NEW c \in Callers, NEW path \in {"props", "models"},
               GetSucceeds(c, path) \/ GetFails(c, path)
        PROVE  /\ value' > 0
               /\ \A d \in Callers : pc[d] # "idle" /\ pc'[d] = "idle" => last' > 0
    BY <2>4 DEF GetSucceeds, GetFails, Goto
  <2> QED
    BY Steps, <2>1, <2>2, <2>3, <2>4 DEF ClientGone, BackendChanges, Tick
<1>2. QED
  BY Invariance, <1>1, PTL DEF Spec, StaleBeatsNothing
=============================================================================
