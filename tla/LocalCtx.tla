------------------------------- MODULE LocalCtx -------------------------------
(***************************************************************************)
(* The cached size of the backend's context window                         *)
(* (src/internal/localctx/localctx.go), asked by every request that the    *)
(* cloud router has to judge.  Two mutexes: mu for the fields, fetchMu for *)
(* one probe at a time.  An action is one critical section of mu, or one   *)
(* HTTP request of a probe.  A deadline is the time left until it.         *)
(*                                                                         *)
(* cloud.localMaxTokens > 0 replaces all of this by a constant and is not  *)
(* modelled.                                                               *)
(***************************************************************************)
EXTENDS Integers, FiniteSets

CONSTANTS
  Callers,      \* request handlers that ask
  Windows,      \* context windows the backend may be started with
  Paths,        \* endpoints of this backend build that tell the window
  TTL,          \* ttl, in ticks
  MinBackoff,   \* minBackoff
  MaxBackoff,   \* maxBackoff
  FetchTime     \* the longest a probe takes, from its first request to its result

ASSUME CallersAssumption == IsFiniteSet(Callers)
ASSUME WindowsAssumption == Windows \subseteq Nat \ {0}
ASSUME PathsAssumption == Paths \subseteq {"props", "models"} /\ Paths # {}
ASSUME TimesAssumption == /\ {TTL, MinBackoff, FetchTime} \subseteq Nat \ {0}
                          /\ MaxBackoff \in Nat /\ MinBackoff <= MaxBackoff

VARIABLES
  backend,   \* the window a probe would find; 0: no answer
  calm,      \* how long the backend is like that and no probe failed for its client
  pc,        \* where a caller of ContextWindow is
  gone,      \* the caller's request context is cancelled
  answer,    \* what the caller's probe found, 0 is an error
  spent,     \* how long the probe in progress takes already
  value,     \* the fields of Provider
  fresh,     \* time left until expires
  wait,      \* time left until nextTry
  backoff,
  last       \* what the latest call returned; 0 is ErrNoValue

fields == <<value, fresh, wait, backoff>>
vars == <<backend, calm, pc, gone, answer, spent, fields, last>>

Larger(a, b) == IF a > b THEN a ELSE b
Smaller(a, b) == IF a < b THEN a ELSE b
OrNone == Windows \union {0}

\* From here on the cache has to be right.
Settled == FetchTime + Larger(TTL, MaxBackoff)

Probing == {"props", "models", "store"}

TypeOK ==
  /\ backend \in OrNone
  /\ calm \in 0..Settled
  /\ pc \in [Callers -> {"idle", "read", "queue", "stale"} \union Probing]
  /\ gone \in [Callers -> BOOLEAN]
  /\ answer \in [Callers -> OrNone]
  /\ spent \in 0..FetchTime
  /\ value \in OrNone
  /\ fresh \in 0..TTL
  /\ wait \in 0..MaxBackoff
  /\ backoff \in 0..MaxBackoff
  /\ last \in OrNone

\* New: nothing is known, nothing was tried.
Init ==
  /\ backend \in OrNone
  /\ calm = 0
  /\ pc = [c \in Callers |-> "idle"]
  /\ gone = [c \in Callers |-> FALSE]
  /\ answer = [c \in Callers |-> 0]
  /\ spent = 0
  /\ value = 0 /\ fresh = 0 /\ wait = 0 /\ backoff = 0
  /\ last = 0

-----------------------------------------------------------------------------
(* ContextWindow and probe.                                                *)

Goto(c, from, to) == pc[c] = from /\ pc' = [pc EXCEPT ![c] = to]

Return(c, from, result) ==
  /\ Goto(c, from, "idle")
  /\ gone' = [gone EXCEPT ![c] = FALSE]
  /\ answer' = [answer EXCEPT ![c] = 0]
  /\ last' = result

\* The first section: a probe is due unless the value is fresh or the last
\* probes failed a short time ago.
Look(c) ==
  /\ Goto(c, "idle", IF (value > 0 /\ fresh > 0) \/ wait > 0 THEN "read" ELSE "queue")
  /\ UNCHANGED <<backend, calm, gone, answer, spent, fields, last>>

\* The value is read in a section of its own.
ReadValue(c) ==
  /\ Return(c, "read", value)
  /\ UNCHANGED <<backend, calm, spent, fields>>

\* fetchMu; the caller does not look again whether a probe is still due.
Enter(c) ==
  /\ \A d \in Callers : pc[d] \notin Probing
  /\ Goto(c, "queue", "props")
  /\ spent' = 0
  /\ UNCHANGED <<backend, calm, gone, answer, fields, last>>

\* getNctx with a result, from either endpoint.
GetSucceeds(c, path) ==
  /\ backend > 0 /\ path \in Paths
  /\ Goto(c, path, "store")
  /\ answer' = [answer EXCEPT ![c] = backend]
  /\ UNCHANGED <<backend, calm, gone, spent, fields, last>>

\* Mutant: no time limit, a backend that does not answer blocks the probe.
GetFailsWhenRefused(c, path) ==
  /\ gone[c] \/ (backend > 0 /\ path \notin Paths)
  /\ Goto(c, path, IF path = "props" THEN "models" ELSE "store")
  /\ calm' = IF path = "models" /\ gone[c] THEN 0 ELSE calm
  /\ UNCHANGED <<backend, gone, answer, spent, fields, last>>

\* getNctx with an error: no answer, no such field, or the client left.  The
\* context of a probe is the one of the client that happens to run it.
GetFails(c, path) ==
  /\ backend = 0 \/ path \notin Paths \/ gone[c]
  /\ Goto(c, path, IF path = "props" THEN "models" ELSE "store")
  /\ calm' = IF path = "models" /\ gone[c] THEN 0 ELSE calm
  /\ UNCHANGED <<backend, gone, answer, spent, fields, last>>

Get(c) == \E path \in {"props", "models"} : GetSucceeds(c, path) \/ GetFails(c, path)

StoreSuccess(c) ==
  /\ answer[c] > 0
  /\ Return(c, "store", answer[c])
  /\ value' = answer[c] /\ fresh' = TTL
  /\ wait' = 0 /\ backoff' = 0
  /\ UNCHANGED <<backend, calm, spent>>

\* Mutant: the time to wait is doubled, the limit forgotten.
StoreFailureDoubles(c) ==
  LET w == IF backoff = 0 THEN MinBackoff ELSE backoff
  IN  /\ answer[c] = 0
      /\ Goto(c, "store", "stale")
      /\ backoff' = Smaller(2 * w, MaxBackoff)
      /\ wait' = Smaller(2 * w, 2 * MaxBackoff)
      /\ UNCHANGED <<backend, calm, gone, answer, spent, value, fresh, last>>

\* Mutant: a failing probe drops the value it could not confirm.
StoreFailureForgets(c) ==
  LET w == IF backoff = 0 THEN MinBackoff ELSE backoff
  IN  /\ answer[c] = 0
      /\ Goto(c, "store", "stale")
      /\ backoff' = Smaller(2 * w, MaxBackoff)
      /\ wait' = w
      /\ value' = 0
      /\ UNCHANGED <<backend, calm, gone, answer, spent, fresh, last>>

\* Every failing probe doubles the back-off, a queued one too.
StoreFailure(c) ==
  LET w == IF backoff = 0 THEN MinBackoff ELSE backoff
  IN  /\ answer[c] = 0
      /\ Goto(c, "store", "stale")
      /\ backoff' = Smaller(2 * w, MaxBackoff)
      /\ wait' = w
      /\ UNCHANGED <<backend, calm, gone, answer, spent, value, fresh, last>>

\* After a failing probe the stale value is better than none.
ReadStale(c) ==
  /\ Return(c, "stale", value)
  /\ UNCHANGED <<backend, calm, spent, fields>>

-----------------------------------------------------------------------------
(* The environment.                                                        *)

ClientGone(c) ==
  /\ pc[c] # "idle" /\ ~gone[c]
  /\ gone' = [gone EXCEPT ![c] = TRUE]
  /\ UNCHANGED <<backend, calm, pc, answer, spent, fields, last>>

\* The backend goes down or comes up, possibly with other parameters.
BackendChanges(w) ==
  /\ backend # w
  /\ backend' = w
  /\ calm' = 0
  /\ UNCHANGED <<pc, gone, answer, spent, fields, last>>

CountDown(t) == IF t > 0 THEN t - 1 ELSE 0
InProbe == \E c \in Callers : pc[c] \in Probing

Tick ==
  /\ InProbe => spent < FetchTime
  /\ spent' = IF InProbe THEN spent + 1 ELSE spent
  /\ calm' = Smaller(calm + 1, Settled)
  /\ fresh' = CountDown(fresh)
  /\ wait' = CountDown(wait)
  /\ UNCHANGED <<backend, pc, gone, answer, value, backoff, last>>

-----------------------------------------------------------------------------
ContextWindow(c) ==
  \/ ReadValue(c) \/ Get(c) \/ StoreSuccess(c) \/ StoreFailure(c) \/ ReadStale(c)

Next ==
  \/ \E c \in Callers : Look(c) \/ Enter(c) \/ ContextWindow(c) \/ ClientGone(c)
  \/ \E w \in OrNone : BackendChanges(w)
  \/ Tick

\* A probe ends (its requests have a time limit), and a Go mutex does not let
\* a waiter starve.
Fairness == \A c \in Callers : WF_vars(ContextWindow(c)) /\ SF_vars(Enter(c))

Spec == Init /\ [][Next]_vars
FairSpec == Spec /\ Fairness

-----------------------------------------------------------------------------
(* Properties.                                                             *)

\* However many callers find a probe due together, one at a time is in
\* progress (localctx.go:44, "at most one probe in flight").
ProbesSerial ==
  \A c, d \in Callers : pc[c] \in Probing /\ pc[d] \in Probing => c = d

\* A herd of queued callers that all fail drives the back-off up to its limit
\* and no further, and a time to wait never exceeds the step it came from.
BackoffInv ==
  /\ wait <= backoff
  /\ backoff # 0 => backoff \in MinBackoff..MaxBackoff

\* Once the backend answers, the router is neither blind nor wrong for longer
\* than one probe and one lifetime or back-off: no stale failure and no value
\* of an earlier start-up outlives that, whatever was in flight or queued when
\* the backend came up.
CacheSettles ==
  calm = Settled /\ backend > 0 => /\ wait = 0
                                   /\ value > 0 /\ fresh > 0 => value = backend

\* Once a window was found no call reports "unknown" any more, not even one
\* whose own probe failed (localctx.go:63-65).
StaleBeatsNothing ==
  [][value > 0 => /\ value' > 0
                  /\ \A c \in Callers : pc[c] # "idle" /\ pc'[c] = "idle" => last' > 0]_vars

\* Every call returns, with a dead backend and with callers queued before it.
CallsReturn == \A c \in Callers : pc[c] # "idle" ~> pc[c] = "idle"
=============================================================================
