------------------------------- MODULE ErrGuard -------------------------------
(***************************************************************************)
(* The error guard of src/internal/errguard/errguard.go: a matching backend *)
(* error runs the command, at most once per cooldown window, in a goroutine *)
(* that the server context kills on shutdown.                              *)
(***************************************************************************)
EXTENDS Integers

CONSTANTS
  Reporters,        \* the response paths that report errors, concurrently
  Configured,       \* config: errguard.cooldown
  DefaultCooldown,  \* what an unset cooldown stands for
  HasCommand,       \* config: command is not empty
  MaxTime,          \* bound: the last instant of the clock
  MaxFired          \* bound: no error arrives once the guard fired so often

ASSUME CooldownAssumption == Configured \in Int /\ DefaultCooldown \in Nat \ {0}
ASSUME CommandAssumption == HasCommand \in BOOLEAN
ASSUME BoundsAssumption == MaxTime \in Nat /\ MaxFired \in Nat

\* EffectiveCooldown: zero is "unset", only a negative value disables.
Cooldown ==
  CASE Configured < 0 -> 0
    [] Configured > 0 -> Configured
    [] OTHER -> DefaultCooldown

Never == -1

VARIABLES
  now,        \* the clock (time.Now carries a monotonic reading)
  lastFire,   \* Policy.lastFire, Never for the zero time
  matched,    \* reporters whose error matched and that have yet to take the lock
  running,    \* commands in progress
  fired,      \* history: how often the guard fired
  unanswered, \* history: when the guard suppressed an error first since it last
              \* fired, Never if it did not
  shutdown    \* the server context is cancelled

vars == <<now, lastFire, matched, running, fired, unanswered, shutdown>>

TypeOK ==
  /\ now \in Nat
  /\ lastFire \in Nat \union {Never}
  /\ matched \subseteq Reporters
  /\ running \in Nat
  /\ fired \in Nat
  /\ unanswered \in Nat \union {Never}
  /\ shutdown \in BOOLEAN

Init ==
  /\ now = 0
  /\ lastFire = Never
  /\ matched = {}
  /\ running = 0
  /\ fired = 0
  /\ unanswered = Never
  /\ shutdown = FALSE

\* matches: the patterns are tried before the lock is taken; an error that
\* matches none returns at once.
Matches(r) ==
  /\ r \notin matched
  /\ fired < MaxFired
  /\ matched' = matched \union {r}
  /\ UNCHANGED <<now, lastFire, running, fired, unanswered, shutdown>>

CoolingDown == lastFire # Never /\ now < lastFire + Cooldown

\* An error is suppressed: only its instant is remembered here, if it is the first.
Suppressed == unanswered' = IF unanswered = Never THEN now ELSE unanswered

\* The guard fires.  The command of a cancelled context does not start.
Fires ==
  /\ fired' = fired + 1
  /\ unanswered' = Never
  /\ running' = IF HasCommand /\ ~shutdown THEN running + 1 ELSE running

\* Mutant: firing is not recorded.
OnBackendErrorForgets(r) ==
  /\ r \in matched
  /\ matched' = matched \ {r}
  /\ IF CoolingDown THEN Suppressed /\ UNCHANGED <<fired, running>> ELSE Fires
  /\ UNCHANGED <<now, lastFire, shutdown>>

\* Mutant: a suppressed error renews the window.
OnBackendErrorRenews(r) ==
  /\ r \in matched
  /\ matched' = matched \ {r}
  /\ lastFire' = now
  /\ IF CoolingDown THEN Suppressed /\ UNCHANGED <<fired, running>> ELSE Fires
  /\ UNCHANGED <<now, shutdown>>

\* The critical section of OnBackendError, and the goroutine it starts.
OnBackendError(r) ==
  /\ r \in matched
  /\ matched' = matched \ {r}
  /\ IF CoolingDown
       THEN Suppressed /\ UNCHANGED <<lastFire, fired, running>>
       ELSE Fires /\ lastFire' = now
  /\ UNCHANGED <<now, shutdown>>

CommandEnds ==
  /\ running > 0
  /\ running' = running - 1
  /\ UNCHANGED <<now, lastFire, matched, fired, unanswered, shutdown>>

\* exec.CommandContext kills what still runs.
Shutdown ==
  /\ ~shutdown
  /\ shutdown' = TRUE
  /\ running' = 0
  /\ UNCHANGED <<now, lastFire, matched, fired, unanswered>>

ClockTicks ==
  /\ now < MaxTime
  /\ now' = now + 1
  /\ UNCHANGED <<lastFire, matched, running, fired, unanswered, shutdown>>

Next ==
  \/ \E r \in Reporters : Matches(r) \/ OnBackendError(r)
  \/ CommandEnds
  \/ Shutdown
  \/ ClockTicks

Spec == Init /\ [][Next]_vars

-----------------------------------------------------------------------------
\* However many errors arrive together, the guard fires at most once at the
\* start and once per elapsed cooldown: a burst restarts the backend once
\* (errguard.go:91-92).
RateBound == fired > 0 => (fired - 1) * Cooldown <= now

\* A fault that lasts is acted on in the end: an error that comes a cooldown or
\* more after one that was suppressed fires, if nothing fired in between, however
\* many errors were suppressed meanwhile.  Suppressed errors never keep the window
\* open (errguard.go:94-102).
PersistentFaultActs ==
  [][\A r \in Reporters :
       /\ r \in matched /\ r \notin matched'
       /\ unanswered # Never /\ now >= unanswered + Cooldown
       => fired' = fired + 1]_vars
=============================================================================
