------------------------------- MODULE MCUnits -------------------------------
(***************************************************************************)
(* Four components that share no state with the others, checked in one run: *)
(* the initial state picks one of them, which then runs by itself.  The     *)
(* error guard's definitions keep their names, the others get plain ones.   *)
(***************************************************************************)
EXTENDS ErrGuard, Sequences

CONSTANTS
  Runes, Counted, WideRunes, WideBytes, NoRune,
  RepeatLimit, HardRepeat, SuccessLimit,
  MaxPiece,    \* bound: longest piece of content
  MaxContent,  \* bound: longest content of the content loop
  MaxEvent,    \* bound: longest piece of a field of the probe's answer
  MaxAnswer    \* bound: longest field of the probe's answer

VARIABLES
  unit,                                                    \* which one runs
  state, alarms, content, cuts,                            \* of ContentLoop
  checker, totalLen, verdict, answer,                      \* of ProbeStream
  config, at, req, reader, declared, key, target, outcome  \* of RequestBody

contentVars == <<state, alarms, content, cuts>>
probeVars   == <<checker, totalLen, verdict, answer>>
bodyVars    == <<config, at, req, reader, declared, key, target, outcome>>

C == INSTANCE ContentLoop WITH MaxText <- MaxContent, text <- content
P == INSTANCE ProbeStream WITH MaxPiece <- MaxEvent, MaxText <- MaxAnswer, text <- answer
R == INSTANCE RequestBody

ASSUME RuneConstants == C!ConstantsOK /\ P!ConstantsOK

UnitsInit ==
  /\ unit \in {"errors", "content", "probe", "request"}
  /\ Init /\ C!Init /\ P!Init
  /\ IF unit = "request" THEN R!Init
                         ELSE R!Init /\ config = [keys |-> "none", prefixCache |-> FALSE,
                                                  observed |-> {}, cloud |-> "off"]

UnitsNext ==
  \/ unit = "errors"  /\ Next   /\ UNCHANGED <<unit, contentVars, probeVars, bodyVars>>
  \/ unit = "content" /\ C!Next /\ UNCHANGED <<unit, vars, probeVars, bodyVars>>
  \/ unit = "probe"   /\ P!Next /\ UNCHANGED <<unit, vars, contentVars, bodyVars>>
  \/ unit = "request" /\ R!Next /\ UNCHANGED <<unit, vars, contentVars, probeVars>>

UnitsSpec ==
  UnitsInit /\ [][UnitsNext]_<<unit, vars, contentVars, probeVars, bodyVars>>

\* The types of all four: in particular no counter of errguard.go, probe.go or
\* the stream state of watchdog.go leaves its range.
UnitsTypeOK == TypeOK /\ C!TypeOK /\ P!TypeOK /\ R!TypeOK

\* watchdog.go:424-432, see ContentLoop.
MarkIsExact == C!MarkIsExact

\* watchdog.go:457, see ContentLoop.
OneAlarmPerRun == C!OneAlarmPerRun

\* probe.go:195-207, see ProbeStream.
VerdictIsExact == P!VerdictIsExact

\* reqbody.go:1-5, see RequestBody.
BodyWhole == R!BodyWhole

\* proxy.go:156-168, see RequestBody.
RewritesAreDue == R!RewritesAreDue
==============================================================================
