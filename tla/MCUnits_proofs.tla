---------------------------- MODULE MCUnits_proofs ----------------------------
(***************************************************************************)
(* Proofs about the four units of MCUnits: the error guard, for any number  *)
(* of reporters, any cooldown and any length of time; the way of a request  *)
(* body, whatever the features and the request; the content loop and the    *)
(* probe's verdict, for any alphabet, any limits, any length of text and    *)
(* every way to cut it into pieces.                                         *)
(***************************************************************************)
EXTENDS MCUnits, RecursionTheorems, SequenceTheorems, FiniteSetTheorems, TLAPS

unitVars == <<unit, vars, contentVars, probeVars, bodyVars>>

-----------------------------------------------------------------------------
(* The error guard.                                                         *)

LEMMA CooldownType == Cooldown \in Nat
BY CooldownAssumption DEF Cooldown

LEMMA GuardTypesInit == Init => TypeOK
<1> SUFFICES ASSUME Init PROVE TypeOK
  OBVIOUS
<1>1. shutdown \in BOOLEAN /\ lastFire \in Nat \union {Never}
  BY DEF Init
<1>2. now \in Nat /\ running \in Nat /\ fired \in Nat
  BY DEF Init
<1> QED
  BY <1>1, <1>2 DEF Init, TypeOK

LEMMA GuardTypesStep == TypeOK /\ [Next]_vars => TypeOK'
<1> SUFFICES ASSUME TypeOK, [Next]_vars PROVE TypeOK'
  OBVIOUS
<1> USE DEF TypeOK
<1>1. ASSUME NEW r \in Reporters, Matches(r) PROVE TypeOK'
  BY <1>1 DEF Matches
<1>2. ASSUME NEW r \in Reporters, OnBackendError(r) PROVE TypeOK'
  BY <1>2 DEF OnBackendError, Suppressed, Fires
<1>3. CASE CommandEnds
  BY <1>3 DEF CommandEnds
<1>4. CASE Shutdown
  BY <1>4 DEF Shutdown
<1>5. CASE ClockTicks
  BY <1>5 DEF ClockTicks
<1>6. CASE UNCHANGED vars
  BY <1>6 DEF vars
<1> QED
  BY <1>1, <1>2, <1>3, <1>4, <1>5, <1>6 DEF Next

\* The guard's state keeps its types; the clock and the counters never go back
\* below zero.
THEOREM TypeCorrect == Spec => []TypeOK
BY GuardTypesInit, GuardTypesStep, PTL DEF Spec

\* The strengthening of RateBound: the fires so far fit before the latest one,
\* not merely before now, and the zero time means that there was none.
FiresFit ==
  /\ fired = 0 <=> lastFire = Never
  /\ fired > 0 => (fired - 1) * Cooldown <= lastFire /\ lastFire <= now

\* One more fire takes one more cooldown.
LEMMA OneMore == \A n, c \in Nat : n > 0 => n * c = (n - 1) * c + c
OBVIOUS

LEMMA FiresFitStep == TypeOK /\ FiresFit /\ [Next]_vars => FiresFit'
<1> SUFFICES ASSUME TypeOK, FiresFit, [Next]_vars PROVE FiresFit'
  OBVIOUS
<1> USE CooldownType DEF TypeOK, Never
<1>1. ASSUME NEW r \in Reporters, OnBackendError(r) PROVE FiresFit'
  <2>1. CASE CoolingDown
    BY <1>1, <2>1 DEF OnBackendError, FiresFit
  <2>2. CASE ~CoolingDown /\ fired = 0
    BY <1>1, <2>2 DEF OnBackendError, Fires, FiresFit
  <2>3. CASE ~CoolingDown /\ fired > 0
    <3>1. lastFire \in Nat /\ lastFire + Cooldown <= now
      BY <2>3 DEF FiresFit, CoolingDown
    <3>2. fired * Cooldown = (fired - 1) * Cooldown + Cooldown
      BY <2>3, OneMore
    <3>3. (fired - 1) * Cooldown \in Int /\ (fired - 1) * Cooldown <= lastFire
      BY <2>3 DEF FiresFit
    <3>4. fired * Cooldown <= now
      BY <3>1, <3>2, <3>3
    <3>5. lastFire' = now /\ fired' = fired + 1 /\ now' = now
      BY <1>1, <2>3 DEF OnBackendError, Fires
    <3>6. (fired' - 1) * Cooldown = fired * Cooldown
      BY <3>5
    <3> QED
      BY <3>4, <3>5, <3>6 DEF FiresFit
  <2> QED
    BY <2>1, <2>2, <2>3
<1>2. ASSUME UNCHANGED <<lastFire, fired>>, now' \in Nat, now <= now' PROVE FiresFit'
  BY <1>2 DEF FiresFit
<1>3. CASE ClockTicks
  BY <1>2, <1>3 DEF ClockTicks
<1>4. CASE UNCHANGED vars
  BY <1>2, <1>4 DEF vars
<1>5. ASSUME NEW r \in Reporters, Matches(r) PROVE FiresFit'
  BY <1>2, <1>5 DEF Matches
<1>6. CASE CommandEnds \/ Shutdown
  BY <1>2, <1>6 DEF CommandEnds, Shutdown
<1> QED
  BY <1>1, <1>3, <1>4, <1>5, <1>6 DEF Next

\* The guard runs the command at most once plus once per elapsed cooldown,
\* whatever the errors and however many responses report them at once.
THEOREM RateBounded == Spec => []RateBound
<1>1. Init => FiresFit
  BY DEF Init, FiresFit
<1>2. TypeOK /\ FiresFit /\ [Next]_vars => FiresFit'
  BY FiresFitStep
<1>3. TypeOK /\ FiresFit => RateBound
  <2> SUFFICES ASSUME TypeOK, FiresFit, fired > 0 PROVE (fired - 1) * Cooldown <= now
    BY DEF RateBound
  <2>1. (fired - 1) * Cooldown \in Int /\ lastFire \in Int /\ now \in Int
    BY CooldownType DEF TypeOK, Never
  <2> QED
    BY <2>1 DEF FiresFit
<1> QED
  BY <1>1, <1>2, <1>3, TypeCorrect, PTL DEF Spec

\* The errors suppressed since the latest fire all fall into its window.
WindowHolds ==
  unanswered # Never =>
    /\ lastFire # Never
    /\ lastFire <= unanswered /\ unanswered < lastFire + Cooldown

LEMMA WindowStep == TypeOK /\ FiresFit /\ WindowHolds /\ [Next]_vars => WindowHolds'
<1> SUFFICES ASSUME TypeOK, FiresFit, WindowHolds, [Next]_vars PROVE WindowHolds'
  OBVIOUS
<1>1. ASSUME NEW r \in Reporters, OnBackendError(r) PROVE WindowHolds'
  <2>1. CASE CoolingDown
    <3>1. lastFire \in Nat /\ lastFire <= now /\ now < lastFire + Cooldown
      BY <2>1 DEF CoolingDown, FiresFit, TypeOK, Never
    <3>2. lastFire' = lastFire /\ unanswered' = IF unanswered = Never THEN now ELSE unanswered
      BY <1>1, <2>1 DEF OnBackendError, Suppressed
    <3> QED
      BY <3>1, <3>2 DEF WindowHolds, Never
  <2>2. CASE ~CoolingDown
    BY <1>1, <2>2 DEF OnBackendError, Fires, WindowHolds
  <2> QED
    BY <2>1, <2>2
<1>2. ASSUME UNCHANGED <<lastFire, unanswered>> PROVE WindowHolds'
  BY <1>2 DEF WindowHolds
<1> QED
  BY <1>1, <1>2 DEF Next, Matches, CommandEnds, Shutdown, ClockTicks, vars

\* A fault that lasts is acted on: a cooldown after an error that was suppressed
\* the next one fires, whatever was suppressed in between, for any cooldown and
\* any number of concurrent reporters.
THEOREM FaultsAnswered == Spec => PersistentFaultActs
<1>1. Init => FiresFit /\ WindowHolds
  BY DEF Init, FiresFit, WindowHolds
<1>2. TypeOK /\ FiresFit /\ WindowHolds /\ [Next]_vars => FiresFit' /\ WindowHolds'
  BY FiresFitStep, WindowStep
<1>3. ASSUME TypeOK, WindowHolds, Next, NEW r \in Reporters, r \in matched, r \notin matched',
             unanswered # Never, now >= unanswered + Cooldown
      PROVE  fired' = fired + 1
  <2>1. PICK q \in Reporters : OnBackendError(q)
    BY <1>3 DEF Next, Matches, CommandEnds, Shutdown, ClockTicks
  <2>2. ~CoolingDown
    <3>1. lastFire \in Nat /\ unanswered \in Nat /\ now \in Nat /\ lastFire <= unanswered
      BY <1>3 DEF WindowHolds, TypeOK, Never
    <3> QED
      BY <1>3, <3>1, CooldownType DEF CoolingDown
  <2> QED
    BY <2>1, <2>2 DEF OnBackendError, Fires
<1>4. TypeOK /\ WindowHolds /\ [Next]_vars =>
        [\A r \in Reporters :
           /\ r \in matched /\ r \notin matched'
           /\ unanswered # Never /\ now >= unanswered + Cooldown
           => fired' = fired + 1]_vars
  BY <1>3
<1> QED
  BY <1>1, <1>2, <1>4, TypeCorrect, PTL DEF Spec, PersistentFaultActs

-----------------------------------------------------------------------------
(* The way of a request body.                                               *)

\* A request with a body that has text, the kind the two invariants are about.
HasBody == req.kind \in {"small", "large"}

\* Read up to step s, an edit has been considered.
Considered(e) ==
  CASE e = "tools"  -> at \in {"usage", "model", "sanitize", "auth", "send"}
    [] e = "usage"  -> at \in {"model", "sanitize", "auth", "send"}
    [] e = "model"  -> at \in {"sanitize", "auth", "send"}
    [] e = "params" -> at \in {"auth", "send"}

Due(e) ==
  /\ req.chat
  /\ CASE e = "tools"  -> config.prefixCache /\ R!IsJSON /\ "tools" \in req.has
       [] e = "usage"  -> target \in config.observed /\ req.type = "json" /\ "stream" \in req.has
       [] e = "model"  -> target = "cloud" /\ config.cloud = "renaming"
       [] e = "params" -> target = "cloud" /\ "params" \in req.has

\* While a request with a body is on its way, its reader is the client's text
\* with the edits that were due so far, under a length that is its own.
BodyOnItsWay ==
  /\ reader.body.kind = req.kind
  /\ reader.ends = req.ends
  /\ reader.source \in {"client", "memory"}
  /\ declared \in {R!Unknown, reader.body}
  /\ reader.ends = "eof" =>
       \A e \in R!Edits : e \in reader.body.edits <=> Considered(e) /\ Due(e)

\* What the keys are before, between and after the two steps that replace them.
KeysOnTheirWay ==
  /\ at \in {"route", "proxy", "keys"} => key = R!ClientKey(req)
  /\ at \in {"prefix", "usage", "model", "sanitize", "auth", "send"} =>
       /\ key.header = IF at = "send" /\ target = "cloud" THEN "cloud" ELSE R!SignedHeader
       /\ key.query = IF config.keys = "none" THEN R!ClientKey(req).query ELSE "none"

BodyInv ==
  /\ R!TypeOK
  /\ at \notin {"idle", "done"} => KeysOnTheirWay
  /\ at \notin {"idle", "done"} /\ HasBody => BodyOnItsWay
  /\ R!BodyWhole
  /\ R!RewritesAreDue

LEMMA RequestTypes == R!TypeOK /\ [R!Next]_bodyVars => R!TypeOK'
<1> SUFFICES ASSUME R!TypeOK, [R!Next]_bodyVars PROVE R!TypeOK'
  OBVIOUS
<1> USE DEF R!TypeOK, R!Configs, R!Bodies, R!Kinds, R!Edits
<1> DEFINE Readers == [body : R!Bodies, ends : {"eof", "error"},
                       source : {"client", "memory", "closed", "none"}]
           Outcomes == [how : {"pending", "refused", "aborted", "failed", "sent"}, body : R!Bodies]
           Steps == {"idle", "route", "proxy", "keys", "prefix", "usage", "model", "sanitize",
                     "auth", "send", "done"}
<1>0. R!NoRequest \in R!Requests
  BY DEF R!NoRequest, R!Requests
<1>1. R!NoReader \in Readers /\ R!Nothing \in R!Bodies /\ R!Pending \in Outcomes
  BY DEF R!NoReader, R!Nothing, R!Pending
<1>2. ASSUME NEW how \in {"refused", "aborted", "failed", "sent"}, NEW body \in R!Bodies,
             R!End(how, body)
      PROVE  at' \in Steps /\ outcome' \in Outcomes
  BY <1>2 DEF R!End
<1>3. CASE R!Arrive
  <2>1. PICK r \in R!Requests :
       /\ req' = r
       /\ reader' = [body |-> [kind |-> r.kind, edits |-> {}], ends |-> r.ends,
                     source |-> "client"]
       /\ declared' = IF r.sized THEN reader'.body ELSE R!Unknown
       /\ key' = R!ClientKey(r)
       /\ target' = "local"
       /\ IF config.keys # "none" /\ r.key = "none"
            THEN R!End("refused", R!Nothing)
            ELSE at' = "route" /\ outcome' = R!Pending
    BY <1>3 DEF R!Arrive
  <2>2. r.kind \in R!Kinds /\ r.ends \in {"eof", "error"} 
    BY DEF R!Requests
  <2>3. reader' \in Readers
    BY <2>1, <2>2
  <2>4. declared' \in R!Bodies \union {R!Unknown}
    BY <2>1, <2>2
  <2>5. at' \in Steps /\ outcome' \in Outcomes
    BY <2>1, <1>1, <1>2
  <2>6. key' \in [header : {"none", "client", "backend", "cloud"}, query : {"none", "client"}]
    BY <2>1 DEF R!ClientKey
  <2> QED
    BY <2>1, <2>3, <2>4, <2>5, <2>6, <1>3 DEF R!Arrive
<1>4. ASSUME NEW to \in Steps, R!Skip(to)
      PROVE  at' \in Steps /\ reader' \in Readers /\ declared' \in R!Bodies \union {R!Unknown}
               /\ outcome' \in Outcomes
  BY <1>4 DEF R!Skip
<1>5. ASSUME NEW body \in R!Bodies, R!Restore(body)
      PROVE  reader' \in Readers /\ declared' \in R!Bodies \union {R!Unknown}
  BY <1>5 DEF R!Restore
<1>6. ASSUME NEW to \in Steps, NEW edits \in SUBSET R!Edits, R!Rewrite(to, edits)
      PROVE  at' \in Steps /\ reader' \in Readers /\ declared' \in R!Bodies \union {R!Unknown}
               /\ outcome' \in Outcomes
  <2>1. [reader.body EXCEPT !.edits = @ \union edits] \in R!Bodies
    OBVIOUS
  <2> QED
    BY <1>1, <1>2, <1>5, <1>6, <2>1 DEF R!Rewrite
<1>7. CASE R!Route
  <2>1. reader' \in Readers /\ declared' \in R!Bodies \union {R!Unknown}
    BY <1>5, <1>7 DEF R!Route, R!Buffer
  <2> QED
    BY <1>7, <2>1 DEF R!Route
<1>8. CASE R!RouteUnread
  BY <1>8 DEF R!RouteUnread
<1>9. CASE R!Proxy
  <2>1. reader' \in Readers
    BY <1>1, <1>9 DEF R!Proxy, R!NoReader
  <2> QED
    BY <1>9, <2>1 DEF R!Proxy, R!requestVars
<1>10. CASE R!SwapKeys
  <2>1. key' \in [header : {"none", "client", "backend", "cloud"}, query : {"none", "client"}]
    BY <1>10 DEF R!SwapKeys, R!NoKey
  <2> QED
    BY <1>10, <2>1 DEF R!SwapKeys, R!requestVars
<1>11. CASE R!NormalizeTools
  <2>1. R!Present({"tools"}) \in SUBSET R!Edits
    BY DEF R!Present
  <2>2. CASE R!Skip("usage") \/ R!Rewrite("usage", R!Present({"tools"}))
    BY <1>4, <1>6, <1>11, <2>1, <2>2 DEF R!NormalizeTools
  <2>3. CASE ~(R!Skip("usage") \/ R!Rewrite("usage", R!Present({"tools"})))
    BY <1>1, <1>11, <2>3 DEF R!NormalizeTools
  <2> QED
    BY <2>2, <2>3
<1>12. CASE R!InjectUsage
  BY <1>4, <1>6, <1>12 DEF R!InjectUsage
<1>13. CASE R!RewriteModel
  BY <1>4, <1>6, <1>13 DEF R!RewriteModel
<1>14. CASE R!Sanitize
  <2>1. R!Present({"params"}) \in SUBSET R!Edits
    BY DEF R!Present
  <2> QED
    BY <1>4, <1>6, <1>14, <2>1 DEF R!Sanitize
<1>15. CASE R!SetAuth
  <2>1. key' \in [header : {"none", "client", "backend", "cloud"}, query : {"none", "client"}]
    BY <1>15 DEF R!SetAuth
  <2> QED
    BY <1>15, <2>1 DEF R!SetAuth, R!requestVars
<1>16. CASE R!Send
  BY <1>1, <1>2, <1>16 DEF R!Send
<1>17. CASE R!Return
  BY <1>0, <1>1, <1>17 DEF R!Return, R!NoKey
<1>18. CASE UNCHANGED bodyVars
  BY <1>18 DEF bodyVars
<1> QED
  BY <1>3, <1>7, <1>8, <1>9, <1>10, <1>11, <1>12, <1>13, <1>14, <1>15, <1>16, <1>17, <1>18 DEF R!Next

\* A rewrite of a readable body adds its edits; a broken one passes by.
LEMMA RewriteStep ==
  ASSUME NEW to, NEW edits \in SUBSET R!Edits, R!TypeOK, HasBody, BodyOnItsWay,
         R!Rewrite(to, edits), req' = req
  PROVE  /\ at' = to /\ outcome' = outcome
         /\ reader'.body.kind = req.kind
         /\ reader'.ends = req.ends
         /\ reader'.source \in {"client", "memory"}
         /\ declared' \in {R!Unknown, reader'.body}
         /\ reader'.ends = "eof" => reader'.body.edits = reader.body.edits \union edits
<1> USE DEF BodyOnItsWay
<1>1. ~R!Missing
  BY DEF R!Missing
<1>2. CASE R!Readable
  <2>1. reader.body \in R!Bodies
    BY DEF R!TypeOK
  <2>2. R!Restore([reader.body EXCEPT !.edits = @ \union edits]) /\ at' = to /\ outcome' = outcome
    BY <1>1, <1>2 DEF R!Rewrite
  <2> QED
    BY <1>2, <2>1, <2>2 DEF R!Restore, R!Readable, R!Bodies
<1>3. CASE ~R!Readable
  BY <1>1, <1>3 DEF R!Rewrite, R!Readable
<1> QED
  BY <1>2, <1>3

\* The same for a step that adds what is due at it, or is skipped because
\* nothing is.
LEMMA EditStep ==
  ASSUME NEW to \in {"usage", "model", "sanitize", "auth"}, NEW edits \in SUBSET R!Edits,
         R!TypeOK, HasBody, BodyOnItsWay, UNCHANGED <<config, req, target>>,
         R!Rewrite(to, edits) \/ (R!Skip(to) /\ edits = {}),
         at' = to => \A e \in R!Edits :
           Considered(e)' /\ Due(e) <=> (Considered(e) /\ Due(e)) \/ e \in edits
  PROVE  at' = to /\ outcome' = outcome /\ BodyOnItsWay'
<1>1. /\ at' = to /\ outcome' = outcome
      /\ reader'.body.kind = req.kind
      /\ reader'.ends = req.ends
      /\ reader'.source \in {"client", "memory"}
      /\ declared' \in {R!Unknown, reader'.body}
      /\ reader'.ends = "eof" => reader'.body.edits = reader.body.edits \union edits
  <2>1. CASE R!Rewrite(to, edits)
    BY <2>1, RewriteStep
  <2>2. CASE R!Skip(to) /\ edits = {}
    BY <2>2 DEF R!Skip, BodyOnItsWay
  <2> QED
    BY <2>1, <2>2
<1>2. \A e \in R!Edits : Due(e)' <=> Due(e)
  BY DEF Due, R!IsJSON, R!Edits
<1>3. ASSUME reader'.ends = "eof", NEW e \in R!Edits
      PROVE  e \in reader'.body.edits <=> Considered(e)' /\ Due(e)'
  <2>1. reader.ends = "eof"
    BY <1>1, <1>3 DEF BodyOnItsWay
  <2>2. e \in reader.body.edits <=> Considered(e) /\ Due(e)
    BY <2>1 DEF BodyOnItsWay
  <2> QED
    BY <1>1, <1>2, <1>3, <2>2
<1> QED
  BY <1>1, <1>3 DEF BodyOnItsWay

LEMMA RequestStep == BodyInv /\ [R!Next]_bodyVars => BodyInv'
<1> SUFFICES ASSUME BodyInv, [R!Next]_bodyVars PROVE BodyInv'
  OBVIOUS
<1>0. R!TypeOK /\ R!TypeOK'
  BY RequestTypes DEF BodyInv
<1> USE DEF R!Edits
<1>1. ASSUME at' # "done", at' # "idle" => KeysOnTheirWay' /\ (HasBody' => BodyOnItsWay')
      PROVE  BodyInv'
  BY <1>0, <1>1 DEF BodyInv, R!BodyWhole, R!RewritesAreDue, R!Sent
<1>2. CASE R!Arrive
  <2>1. PICK r \in R!Requests :
       /\ req' = r
       /\ reader' = [body |-> [kind |-> r.kind, edits |-> {}], ends |-> r.ends,
                     source |-> "client"]
       /\ declared' = IF r.sized THEN reader'.body ELSE R!Unknown
       /\ key' = R!ClientKey(r)
       /\ target' = "local"
       /\ IF config.keys # "none" /\ r.key = "none"
            THEN R!End("refused", R!Nothing)
            ELSE at' = "route" /\ outcome' = R!Pending
    BY <1>2 DEF R!Arrive
  <2>2. CASE config.keys # "none" /\ r.key = "none"
    BY <1>0, <2>1, <2>2 DEF BodyInv, R!End, R!BodyWhole, R!RewritesAreDue, R!Sent
  <2>3. CASE ~(config.keys # "none" /\ r.key = "none")
    <3>1. at' = "route"
      BY <2>1, <2>3
    <3>2. KeysOnTheirWay'
      BY <2>1, <3>1 DEF KeysOnTheirWay
    <3>3. BodyOnItsWay'
      BY <2>1, <3>1 DEF BodyOnItsWay, Considered
    <3> QED
      BY <1>1, <3>1, <3>2, <3>3
  <2> QED
    BY <2>2, <2>3
<1>3. CASE R!Route
  <2>1. at = "route" /\ at' \in {"route", "proxy"}
    BY <1>3 DEF R!Route
  <2>2. ASSUME HasBody' PROVE BodyOnItsWay'
    <3>1. HasBody /\ BodyOnItsWay
      BY <1>3, <2>1, <2>2 DEF BodyInv, HasBody, R!Route
    <3>2. reader'.body = reader.body /\ reader'.ends = reader.ends
          /\ reader'.source \in {"client", "memory"} /\ declared' \in {R!Unknown, reader'.body}
      BY <1>3, <3>1 DEF BodyOnItsWay, R!Route, R!Buffer, R!Restore, R!Readable
    <3>3. \A e \in R!Edits : ~Considered(e) /\ ~Considered(e)'
      BY <2>1 DEF Considered
    <3> QED
      BY <1>3, <3>1, <3>2, <3>3 DEF BodyOnItsWay, R!Route
  <2>3. KeysOnTheirWay'
    BY <1>3 DEF BodyInv, KeysOnTheirWay, R!Route
  <2> QED
    BY <1>1, <2>1, <2>2, <2>3
<1>4. CASE R!RouteUnread
  <2>1. at = "route" /\ at' = "proxy"
    BY <1>4 DEF R!RouteUnread
  <2>2. ASSUME HasBody' PROVE BodyOnItsWay'
    <3>1. HasBody /\ BodyOnItsWay
      BY <1>4, <2>1, <2>2 DEF BodyInv, HasBody, R!RouteUnread
    <3>2. \A e \in R!Edits : ~Considered(e) /\ ~Considered(e)'
      BY <2>1 DEF Considered
    <3> QED
      BY <1>4, <3>1, <3>2 DEF BodyOnItsWay, R!RouteUnread
  <2>3. KeysOnTheirWay'
    BY <1>4 DEF BodyInv, KeysOnTheirWay, R!RouteUnread
  <2> QED
    BY <1>1, <2>1, <2>2, <2>3
<1>5. CASE R!Proxy
  <2>1. at = "proxy" /\ at' = "keys"
    BY <1>5 DEF R!Proxy
  <2>2. ASSUME HasBody' PROVE BodyOnItsWay'
    <3>1. HasBody /\ BodyOnItsWay
      BY <1>5, <2>1, <2>2 DEF BodyInv, HasBody, R!Proxy, R!requestVars
    <3>2. reader' = reader
      BY <1>5, <3>1 DEF R!Proxy, HasBody, BodyOnItsWay, R!Unknown
    <3>3. \A e \in R!Edits : ~Considered(e) /\ ~Considered(e)'
      BY <2>1 DEF Considered
    <3> QED
      BY <1>5, <3>1, <3>2, <3>3 DEF BodyOnItsWay, R!Proxy, R!requestVars
  <2>3. KeysOnTheirWay'
    BY <1>5 DEF BodyInv, KeysOnTheirWay, R!SignedHeader, R!ClientKey, R!Proxy,
                R!requestVars
  <2> QED
    BY <1>1, <2>1, <2>2, <2>3
<1>6. CASE R!SwapKeys
  <2>1. at = "keys" /\ at' = "prefix"
    BY <1>6 DEF R!SwapKeys
  <2>2. ASSUME HasBody' PROVE BodyOnItsWay'
    <3>1. HasBody /\ BodyOnItsWay
      BY <1>6, <2>1, <2>2 DEF BodyInv, HasBody, R!SwapKeys, R!requestVars
    <3>2. \A e \in R!Edits : ~Considered(e) /\ ~Considered(e)'
      BY <2>1 DEF Considered
    <3> QED
      BY <1>6, <3>1, <3>2 DEF BodyOnItsWay, R!SwapKeys, R!requestVars
  <2>3. KeysOnTheirWay'
    <3>1. config.keys \in {"none", "virtual", "resigned"}
      BY <1>0 DEF R!TypeOK, R!Configs
    <3>2. key = R!ClientKey(req) /\ UNCHANGED <<config, req>>
      BY <1>6, <2>1 DEF BodyInv, KeysOnTheirWay, R!SwapKeys, R!requestVars
    <3>3. CASE config.keys = "none"
      BY <1>6, <2>1, <3>2, <3>3 DEF KeysOnTheirWay, R!SwapKeys, R!SignedHeader, R!ClientKey
    <3>4. CASE config.keys = "virtual"
      BY <1>6, <2>1, <3>2, <3>4 DEF KeysOnTheirWay, R!SwapKeys, R!SignedHeader, R!ClientKey, R!NoKey
    <3>5. CASE config.keys = "resigned"
      BY <1>6, <2>1, <3>2, <3>5 DEF KeysOnTheirWay, R!SwapKeys, R!SignedHeader, R!ClientKey, R!NoKey
    <3> QED
      BY <3>1, <3>3, <3>4, <3>5
  <2> QED
    BY <1>1, <2>1, <2>2, <2>3
<1>7. ASSUME NEW to \in {"usage", "model", "sanitize", "auth"}, NEW edits \in SUBSET R!Edits,
             at \in {"prefix", "usage", "model", "sanitize"},
             UNCHANGED <<config, req, key, target>>,
             R!Rewrite(to, edits) \/ (R!Skip(to) /\ edits = {}),
             at' = to => \A e \in R!Edits :
                Considered(e)' /\ Due(e) <=> (Considered(e) /\ Due(e)) \/ e \in edits
      PROVE  BodyInv'
  <2>1. CASE HasBody
    <3>1. BodyOnItsWay
      BY <1>7, <2>1 DEF BodyInv
    <3>2. at' = to /\ BodyOnItsWay'
      BY <1>0, <1>7, <2>1, <3>1, EditStep
    <3>3. KeysOnTheirWay'
      BY <1>7, <3>2 DEF BodyInv, KeysOnTheirWay, R!SignedHeader, R!ClientKey
    <3> QED
      BY <1>1, <1>7, <3>2, <3>3
  <2>2. CASE ~HasBody
    <3>1. CASE at' = to
      <4>1. KeysOnTheirWay'
        BY <1>7, <3>1 DEF BodyInv, KeysOnTheirWay, R!SignedHeader, R!ClientKey
      <4> QED
        BY <1>1, <1>7, <2>2, <3>1, <4>1 DEF HasBody
    <3>2. CASE at' # to
      <4>1. R!End("aborted", R!Nothing)
        BY <1>7, <3>2 DEF R!Rewrite, R!Skip
      <4> QED
        BY <1>0, <1>7, <2>2, <4>1 DEF BodyInv, HasBody, R!End, R!BodyWhole, R!RewritesAreDue, R!Sent
    <3> QED
      BY <3>1, <3>2
  <2> QED
    BY <2>1, <2>2
<1>8. CASE R!NormalizeTools
  <2> DEFINE applies == config.prefixCache /\ req.chat /\ R!IsJSON
  <2>1. at = "prefix" /\ UNCHANGED <<config, req, key, target>>
    BY <1>8 DEF R!NormalizeTools
  <2>2. ASSUME at' = "usage", NEW e \in R!Edits
        PROVE  Considered(e)' /\ Due(e) <=>
                 (Considered(e) /\ Due(e)) \/ e \in (IF applies THEN R!Present({"tools"}) ELSE {})
    BY <2>1, <2>2 DEF Considered, Due, R!Present
  <2>3. CASE applies /\ R!Readable /\ ~R!HasText(reader.body)
    <3>1. at' = "usage"
      BY <1>8, <2>3 DEF R!NormalizeTools
    <3>2. ~HasBody
      BY <2>1, <2>3 DEF BodyInv, BodyOnItsWay, HasBody, R!HasText
    <3>3. KeysOnTheirWay'
      BY <2>1, <3>1 DEF BodyInv, KeysOnTheirWay, R!SignedHeader, R!ClientKey
    <3> QED
      BY <1>1, <2>1, <3>1, <3>2, <3>3 DEF HasBody
  <2>4. CASE applies /\ ~(R!Readable /\ ~R!HasText(reader.body))
    <3>1. R!Rewrite("usage", R!Present({"tools"}))
      BY <1>8, <2>4 DEF R!NormalizeTools
    <3>2. R!Present({"tools"}) \in SUBSET R!Edits
      BY DEF R!Present
    <3> QED
      BY <1>7, <2>1, <2>2, <2>4, <3>1, <3>2
  <2>5. CASE ~applies
    <3>1. R!Skip("usage")
      BY <1>8, <2>5 DEF R!NormalizeTools
    <3> QED
      BY <1>7, <2>1, <2>2, <2>5, <3>1
  <2> QED
    BY <2>3, <2>4, <2>5
<1>9. CASE R!InjectUsage
  <2> DEFINE applies == target \in config.observed /\ req.chat /\ req.type = "json"
             edits == IF applies /\ "stream" \in req.has THEN {"usage"} ELSE {}
  <2>1. at = "usage" /\ UNCHANGED <<config, req, key, target>>
    BY <1>9 DEF R!InjectUsage
  <2>2. ASSUME at' = "model", NEW e \in R!Edits
        PROVE  Considered(e)' /\ Due(e) <=> (Considered(e) /\ Due(e)) \/ e \in edits
    BY <2>1, <2>2 DEF Considered, Due
  <2>3. R!Rewrite("model", edits) \/ (R!Skip("model") /\ edits = {})
    BY <1>9 DEF R!InjectUsage
  <2>4. edits \in SUBSET R!Edits
    OBVIOUS
  <2> HIDE DEF edits
  <2> QED
    BY <1>7, <2>1, <2>2, <2>3, <2>4
<1>10. CASE R!RewriteModel
  <2> DEFINE applies == target = "cloud" /\ config.cloud = "renaming" /\ req.chat
             edits == IF applies /\ R!HasText(reader.body) THEN {"model"} ELSE {}
  <2>1. at = "model" /\ UNCHANGED <<config, req, key, target>>
    BY <1>10 DEF R!RewriteModel
  <2>2. R!Rewrite("sanitize", edits) \/ (R!Skip("sanitize") /\ edits = {})
    BY <1>10 DEF R!RewriteModel
  <2>3. edits \in SUBSET R!Edits
    OBVIOUS
  <2>4. CASE HasBody
    <3>1. R!HasText(reader.body)
      BY <2>1, <2>4 DEF BodyInv, BodyOnItsWay, HasBody, R!HasText
    <3>2. ASSUME at' = "sanitize", NEW e \in R!Edits
          PROVE  Considered(e)' /\ Due(e) <=> (Considered(e) /\ Due(e)) \/ e \in edits
      BY <2>1, <3>1, <3>2 DEF Considered, Due
    <3> HIDE DEF edits
    <3> QED
      BY <1>7, <2>1, <2>2, <2>3, <3>2
  <2>5. CASE ~HasBody
    <3>1. CASE at' = "sanitize"
      <4>1. KeysOnTheirWay'
        BY <2>1, <3>1 DEF BodyInv, KeysOnTheirWay, R!SignedHeader, R!ClientKey
      <4> QED
        BY <1>1, <2>1, <2>5, <3>1, <4>1 DEF HasBody
    <3>2. CASE at' # "sanitize"
      <4>1. R!End("aborted", R!Nothing)
        BY <2>2, <3>2 DEF R!Rewrite, R!Skip
      <4> QED
        BY <1>0, <2>1, <2>5, <4>1 DEF BodyInv, HasBody, R!End, R!BodyWhole, R!RewritesAreDue, R!Sent
    <3> QED
      BY <3>1, <3>2
  <2> QED
    BY <2>4, <2>5
<1>11. CASE R!Sanitize
  <2> DEFINE applies == target = "cloud" /\ req.chat
             edits == IF applies THEN R!Present({"params"}) ELSE {}
  <2>1. at = "sanitize" /\ UNCHANGED <<config, req, key, target>>
    BY <1>11 DEF R!Sanitize
  <2>2. ASSUME at' = "auth", NEW e \in R!Edits
        PROVE  Considered(e)' /\ Due(e) <=> (Considered(e) /\ Due(e)) \/ e \in edits
    BY <2>1, <2>2 DEF Considered, Due, R!Present
  <2>3. R!Rewrite("auth", edits) \/ (R!Skip("auth") /\ edits = {})
    BY <1>11 DEF R!Sanitize
  <2>4. edits \in SUBSET R!Edits
    BY DEF R!Present
  <2> HIDE DEF edits
  <2> QED
    BY <1>7, <2>1, <2>2, <2>3, <2>4
<1>12. CASE R!SetAuth
  <2>1. at = "auth" /\ at' = "send" /\ UNCHANGED <<config, req, target, reader, declared>>
    BY <1>12 DEF R!SetAuth, R!requestVars
  <2>2. ASSUME HasBody' PROVE BodyOnItsWay'
    <3>1. HasBody /\ BodyOnItsWay
      BY <2>1, <2>2 DEF BodyInv, HasBody
    <3>2. \A e \in R!Edits : Considered(e) /\ Considered(e)'
      BY <2>1 DEF Considered
    <3>3. \A e \in R!Edits : Due(e)' <=> Due(e)
      BY <2>1 DEF Due, R!IsJSON
    <3> QED
      BY <2>1, <3>1, <3>2, <3>3 DEF BodyOnItsWay
  <2>3. KeysOnTheirWay'
    <3>1. key \in [header : {"none", "client", "backend", "cloud"}, query : {"none", "client"}]
      BY <1>0 DEF R!TypeOK
    <3> QED
      BY <1>12, <2>1, <3>1 DEF BodyInv, KeysOnTheirWay, R!SignedHeader, R!ClientKey, R!SetAuth
  <2> QED
    BY <1>1, <2>1, <2>2, <2>3
<1>13. CASE R!Send
  <2>1. at = "send" /\ at' = "done" /\ UNCHANGED <<config, req, key, target>>
    BY <1>13 DEF R!Send, R!End
  <2>0. /\ key'.header = IF target' = "cloud" THEN "cloud" ELSE R!SignedHeader'
        /\ key'.query = IF config'.keys = "none" THEN R!ClientKey(req').query ELSE "none"
    BY <2>1 DEF BodyInv, KeysOnTheirWay, R!SignedHeader, R!ClientKey
  <2>2. CASE ~HasBody
    BY <1>0, <2>0, <2>1, <2>2 DEF BodyInv, HasBody, R!BodyWhole, R!RewritesAreDue, R!ClientKey
  <2>3. CASE HasBody
    <3>1. BodyOnItsWay /\ KeysOnTheirWay
      BY <2>1, <2>3 DEF BodyInv
    <3>2. req.ends \in {"eof", "error"}
      BY <1>0 DEF R!TypeOK, R!Requests
    <3>3. R!Delivers <=> req.ends = "eof"
      BY <3>1 DEF BodyOnItsWay, R!Delivers, R!Readable
    <3>4. CASE req.ends = "error"
      <4>1. outcome' = [how |-> "failed", body |-> R!Nothing]
        BY <1>13, <3>3, <3>4 DEF R!Send, R!End
      <4> QED
        BY <1>0, <2>1, <3>4, <4>1 DEF BodyInv, R!BodyWhole, R!RewritesAreDue, R!Sent
    <3>5. CASE req.ends = "eof"
      <4>1. outcome' = [how |-> "sent", body |-> reader.body]
        BY <1>13, <3>3, <3>5 DEF R!Send, R!End
      <4>2. R!BodyWhole'
        BY <2>1, <3>1, <3>5, <4>1 DEF BodyOnItsWay, R!BodyWhole
      <4>3. \A e \in R!Edits : e \in reader.body.edits <=> Due(e)
        BY <2>1, <3>1, <3>5 DEF BodyOnItsWay, Considered
      <4>4. reader.body.edits \subseteq R!Edits
        BY <1>0 DEF R!TypeOK, R!Bodies
      <4>5. R!RewritesAreDue'
        <5>1. outcome.body.edits' =
               IF ~req.chat THEN {}
               ELSE {e \in R!Edits :
                 CASE e = "tools"  -> config.prefixCache /\ R!IsJSON /\ "tools" \in req.has
                   [] e = "usage"  -> target \in config.observed /\ req.type = "json"
                                        /\ "stream" \in req.has
                   [] e = "model"  -> target = "cloud" /\ config.cloud = "renaming"
                   [] e = "params" -> target = "cloud" /\ "params" \in req.has}
          <6>1. reader.body.edits = {e \in R!Edits : Due(e)}
            BY <4>3, <4>4
          <6>2. CASE ~req.chat
            BY <4>1, <6>1, <6>2 DEF Due
          <6>3. CASE req.chat
            <7>1. \A e \in R!Edits : Due(e) <=>
                 CASE e = "tools"  -> config.prefixCache /\ R!IsJSON /\ "tools" \in req.has
                   [] e = "usage"  -> target \in config.observed /\ req.type = "json"
                                        /\ "stream" \in req.has
                   [] e = "model"  -> target = "cloud" /\ config.cloud = "renaming"
                   [] e = "params" -> target = "cloud" /\ "params" \in req.has
              BY <6>3 DEF Due
            <7>2. outcome'.body.edits = reader.body.edits
              BY <4>1
            <7> QED
              BY <6>1, <6>3, <7>1, <7>2, Zenon
          <6> QED
            BY <6>2, <6>3
        <5> QED
          BY <2>0, <2>1, <5>1 DEF R!RewritesAreDue, R!IsJSON, R!ClientKey
      <4> QED
        BY <1>0, <2>1, <4>2, <4>5 DEF BodyInv
    <3> QED
      BY <3>2, <3>4, <3>5
  <2> QED
    BY <2>2, <2>3
<1>14. CASE R!Return
  BY <1>1, <1>14 DEF R!Return
<1>15. CASE UNCHANGED bodyVars
  BY <1>0, <1>15 DEF bodyVars, BodyInv, KeysOnTheirWay, HasBody, BodyOnItsWay, Considered, Due,
       R!IsJSON, R!BodyWhole, R!RewritesAreDue, R!Sent, R!SignedHeader, R!ClientKey
<1> QED
  BY <1>2, <1>3, <1>4, <1>5, <1>6, <1>8, <1>9, <1>10, <1>11, <1>12, <1>13, <1>14, <1>15 DEF R!Next

LEMMA RequestInit == R!Init => BodyInv
<1> SUFFICES ASSUME R!Init PROVE BodyInv
  OBVIOUS
<1>1. R!NoRequest \in R!Requests
  BY DEF R!NoRequest, R!Requests, R!Kinds
<1>2. R!TypeOK
  BY <1>1 DEF R!Init, R!TypeOK, R!NoReader, R!Nothing, R!NoKey, R!Pending, R!Bodies, R!Kinds, R!Edits
<1> QED
  BY <1>2 DEF R!Init, BodyInv, R!BodyWhole, R!RewritesAreDue, R!Sent

LEMMA RequestInvariant == UnitsSpec => []BodyInv
<1>1. UnitsInit => BodyInv
  BY RequestInit DEF UnitsInit
<1>2. BodyInv /\ [UnitsNext]_unitVars => BodyInv'
  <2>1. [UnitsNext]_unitVars => [R!Next]_bodyVars
    BY DEF UnitsNext, unitVars
  <2> QED
    BY <2>1, RequestStep
<1> QED
  BY <1>1, <1>2, PTL DEF UnitsSpec, unitVars

\* Under every configuration a body with text that the client delivered arrives
\* as the same text, and one that broke off is never passed on.
THEOREM BodiesArriveWhole == UnitsSpec => []BodyWhole
<1>1. BodyInv => BodyWhole
  BY DEF BodyInv, BodyWhole
<1> QED
  BY <1>1, RequestInvariant, PTL

\* The server finds exactly the edits and the keys that the features and the
\* target call for.
THEOREM RewritesApplied == UnitsSpec => []RewritesAreDue
<1>1. BodyInv => RewritesAreDue
  BY DEF BodyInv, RewritesAreDue
<1> QED
  BY <1>1, RequestInvariant, PTL

\* What a piece of n runes does to a sequence.
LEMMA Appended ==
  ASSUME NEW S, NEW s \in Seq(S), NEW n \in Nat, NEW piece \in [1..n -> S]
  PROVE  /\ Len(piece) = n /\ Len(s) \in Nat /\ s \in [1..Len(s) -> S]
         /\ s \o piece \in Seq(S) /\ Len(s \o piece) = Len(s) + n
         /\ s \o piece \in [1..(Len(s) + n) -> S]
         /\ \A i \in 1..Len(s) : (s \o piece)[i] = s[i]
         /\ \A i \in 1..n : (s \o piece)[Len(s) + i] = piece[i]
<1>1. piece \in Seq(S) /\ Len(piece) = n
  OBVIOUS
<1>2. Len(s) \in Nat /\ s \in [1..Len(s) -> S]
  BY LenProperties
<1>3. s \o piece \in Seq(S) /\ Len(s \o piece) = Len(s) + n
  BY <1>1, ConcatProperties
<1>4. s \o piece \in [1..(Len(s) + n) -> S]
  BY <1>3, LenProperties
<1>5. \A i \in 1..(Len(s) + n) : (s \o piece)[i] = IF i <= Len(s) THEN s[i] ELSE piece[i - Len(s)]
  BY <1>1, ConcatProperties
<1>6. \A i \in 1..Len(s) : i \in 1..(Len(s) + n) /\ i <= Len(s)
  BY <1>2
<1>7. \A i \in 1..n : Len(s) + i \in 1..(Len(s) + n) /\ ~(Len(s) + i <= Len(s))
                     /\ (Len(s) + i) - Len(s) = i
  BY <1>2
<1>8. \A i \in 1..Len(s) : (s \o piece)[i] = s[i]
  BY <1>5, <1>6
<1>9. \A i \in 1..n : (s \o piece)[Len(s) + i] = piece[i]
  BY <1>5, <1>7
<1> QED
  BY <1>1, <1>2, <1>3, <1>4, <1>8, <1>9

-----------------------------------------------------------------------------
(* The content loop, over any text T cut at any place k.                    *)

StreamStates ==
  [lastRune : Runes \union {NoRune}, run : Nat, clean : Nat, degenerate : BOOLEAN,
   crossed : BOOLEAN]

ExtendsAt(T, i) == i > 1 /\ T[i] = T[i - 1] /\ T[i] \in Counted

ReachesAt(T, i, n) ==
  i >= n /\ T[i] \in Counted /\ \A j \in (i - n + 2)..i : ExtendsAt(T, j)

\* The last repeatLimit runes up to j repeat nothing.
CleanAt(T, j) == j >= RepeatLimit /\ \A i \in (j - RepeatLimit + 1)..j : ~ExtendsAt(T, i)

MarkedAt(T, k) ==
  \E i \in 1..k : ReachesAt(T, i, RepeatLimit) /\ ~\E j \in i..k : CleanAt(T, j)

CrossesAt(T, i) ==
  HardRepeat # 0 /\ ReachesAt(T, i, HardRepeat) /\ ~ReachesAt(T, i, HardRepeat + 1)

\* What the counters of a stream say about the first k runes of its text: the
\* invariant of the loop over the runes.
Describes(s, T, k) ==
  /\ s.run \in 0..k
  /\ s.clean \in 0..k
  /\ s.lastRune = IF k = 0 THEN NoRune ELSE T[k]
  /\ k > 0 => s.run >= 1 /\ ~ExtendsAt(T, k - s.run + 1)
  /\ \A j \in (k - s.run + 2)..k : ExtendsAt(T, j)
  /\ \A j \in (k - s.clean + 1)..k : ~ExtendsAt(T, j)
  /\ s.clean < k => ExtendsAt(T, k - s.clean)
  /\ s.degenerate <=> MarkedAt(T, k)

LEMMA LimitTypes ==
  RepeatLimit \in Nat \ {0} /\ HardRepeat \in Nat /\ NoRune \notin Runes /\ Counted \subseteq Runes
BY RuneConstants DEF C!ConstantsOK

LEMMA MarkedStep ==
  ASSUME NEW T, NEW k \in Nat \ {0}
  PROVE  MarkedAt(T, k) <=>
           (ReachesAt(T, k, RepeatLimit) \/ MarkedAt(T, k - 1)) /\ ~CleanAt(T, k)
<1>1. ASSUME MarkedAt(T, k) 
      PROVE  (ReachesAt(T, k, RepeatLimit) \/ MarkedAt(T, k - 1)) /\ ~CleanAt(T, k)
  <2>1. PICK i \in 1..k : ReachesAt(T, i, RepeatLimit) /\ ~\E j \in i..k : CleanAt(T, j)
    BY <1>1 DEF MarkedAt
  <2>2. ~CleanAt(T, k)
    BY <2>1
  <2>3. CASE i = k
    BY <2>1, <2>2, <2>3
  <2>4. CASE i # k
    <3>1. i \in 1..(k - 1) /\ i..(k - 1) \subseteq i..k
      BY <2>4
    <3> QED
      BY <2>1, <2>2, <3>1 DEF MarkedAt
  <2> QED
    BY <2>3, <2>4
<1>2. ASSUME ReachesAt(T, k, RepeatLimit), ~CleanAt(T, k) PROVE MarkedAt(T, k)
  <2>1. k \in 1..k /\ k..k = {k}
    OBVIOUS
  <2> QED
    BY <1>2, <2>1 DEF MarkedAt
<1>3. ASSUME MarkedAt(T, k - 1), ~CleanAt(T, k) PROVE MarkedAt(T, k)
  <2>1. PICK i \in 1..(k - 1) : ReachesAt(T, i, RepeatLimit) /\ ~\E j \in i..(k - 1) : CleanAt(T, j)
    BY <1>3 DEF MarkedAt
  <2>2. i \in 1..k /\ i..k = i..(k - 1) \union {k}
    OBVIOUS
  <2> QED
    BY <1>3, <2>1, <2>2 DEF MarkedAt
<1> QED
  BY <1>1, <1>2, <1>3

\* A counter of the repeating runes before k is the run that ends there.
LEMMA RunStep ==
  ASSUME NEW T, NEW k \in Nat \ {0}, NEW run \in 1..k, NEW n \in Nat \ {0},
         ~ExtendsAt(T, k - run + 1), \A j \in (k - run + 2)..k : ExtendsAt(T, j)
  PROVE  ReachesAt(T, k, n) <=> T[k] \in Counted /\ run >= n
<1>1. CASE run >= n
  <2>1. \A j \in (k - n + 2)..k : j \in (k - run + 2)..k
    BY <1>1
  <2> QED
    BY <1>1, <2>1 DEF ReachesAt
<1>2. CASE run < n
  <2>1. k - run + 1 \in (k - n + 2)..k
    BY <1>2
  <2> QED
    BY <1>2, <2>1 DEF ReachesAt
<1> QED
  BY <1>1, <1>2

LEMMA CleanStep ==
  ASSUME NEW T, NEW k \in Nat, NEW clean \in 0..k,
         \A j \in (k - clean + 1)..k : ~ExtendsAt(T, j),
         clean < k => ExtendsAt(T, k - clean)
  PROVE  CleanAt(T, k) <=> clean >= RepeatLimit
<1> USE LimitTypes
<1>1. CASE clean >= RepeatLimit
  <2>1. \A j \in (k - RepeatLimit + 1)..k : j \in (k - clean + 1)..k
    BY <1>1
  <2> QED
    BY <1>1, <2>1 DEF CleanAt
<1>2. CASE clean < RepeatLimit
  <2>1. ASSUME k >= RepeatLimit PROVE k - clean \in (k - RepeatLimit + 1)..k /\ clean < k
    BY <1>2, <2>1
  <2> QED
    BY <1>2, <2>1 DEF CleanAt
<1> QED
  BY <1>1, <1>2

\* One turn of the loop.
LEMMA RuneStep ==
  ASSUME NEW N \in Nat, NEW T \in [1..N -> Runes], NEW k \in 1..N, NEW s \in StreamStates,
         Describes(s, T, k - 1)
  PROVE  /\ C!FeedRune(s, T[k]) \in StreamStates
         /\ Describes(C!FeedRune(s, T[k]), T, k)
         /\ C!FeedRune(s, T[k]).crossed <=> s.crossed \/ CrossesAt(T, k)
<1> DEFINE z == C!FeedRune(s, T[k])
           extends == C!CountsRepeat(T[k]) /\ T[k] = s.lastRune
           run == IF extends THEN s.run + 1 ELSE 1
           clean == IF extends THEN 0 ELSE s.clean + 1
           marked == s.degenerate \/ (T[k] \in Counted /\ run >= RepeatLimit)
<1> USE LimitTypes
<1>0. k \in Nat \ {0}
  OBVIOUS
<1>1. extends <=> ExtendsAt(T, k)
  BY DEF Describes, ExtendsAt, C!CountsRepeat
<1>2. /\ s.run \in 0..(k - 1) /\ s.clean \in 0..(k - 1)
      /\ k - 1 > 0 => s.run >= 1 /\ ~ExtendsAt(T, (k - 1) - s.run + 1)
      /\ \A j \in ((k - 1) - s.run + 2)..(k - 1) : ExtendsAt(T, j)
      /\ \A j \in ((k - 1) - s.clean + 1)..(k - 1) : ~ExtendsAt(T, j)
      /\ s.clean < k - 1 => ExtendsAt(T, (k - 1) - s.clean)
      /\ s.degenerate <=> MarkedAt(T, k - 1)
  BY DEF Describes
<1>3. z = [lastRune |-> T[k], run |-> run, clean |-> clean,
           degenerate |-> marked /\ clean < RepeatLimit,
           crossed |-> s.crossed \/ (HardRepeat > 0 /\ T[k] \in Counted /\ run = HardRepeat)]
  BY DEF C!FeedRune, C!CountsRepeat
<1>4. T[k] \in Runes
  OBVIOUS
<1>5. ExtendsAt(T, k) => k - 1 > 0
  BY DEF ExtendsAt
<1> HIDE DEF z, extends
<1>6. run \in 1..k /\ ~ExtendsAt(T, k - run + 1) /\ \A j \in (k - run + 2)..k : ExtendsAt(T, j)
  <2>1. CASE extends
    <3>1. run = s.run + 1 /\ k - run + 1 = (k - 1) - s.run + 1 /\ run \in 1..k
      BY <1>2, <2>1
    <3>2. ~ExtendsAt(T, k - run + 1)
      BY <1>1, <1>2, <1>5, <2>1, <3>1
    <3>3. ASSUME NEW j \in (k - run + 2)..k PROVE ExtendsAt(T, j)
      <4>1. j = k \/ j \in ((k - 1) - s.run + 2)..(k - 1)
        BY <1>2, <3>1
      <4> QED
        BY <1>1, <1>2, <2>1, <4>1
    <3> QED
      BY <3>1, <3>2, <3>3
  <2>2. CASE ~extends
    BY <1>1, <2>2
  <2> QED
    BY <2>1, <2>2
<1>7. /\ clean \in 0..k
      /\ \A j \in (k - clean + 1)..k : ~ExtendsAt(T, j)
      /\ clean < k => ExtendsAt(T, k - clean)
  <2>1. CASE extends
    BY <1>1, <2>1
  <2>2. CASE ~extends
    <3>1. clean = s.clean + 1 /\ k - clean = (k - 1) - s.clean /\ clean \in 0..k
      <4>1. clean = s.clean + 1
        BY <2>2
      <4> HIDE DEF clean
      <4> QED
        BY <1>2, <4>1
    <3>2. ASSUME NEW j \in (k - clean + 1)..k PROVE ~ExtendsAt(T, j)
      <4>1. j = k \/ j \in ((k - 1) - s.clean + 1)..(k - 1)
        BY <1>2, <3>1
      <4> QED
        BY <1>1, <1>2, <2>2, <4>1
    <3>3. clean < k => ExtendsAt(T, k - clean)
      BY <1>2, <3>1
    <3> QED
      BY <3>1, <3>2, <3>3
  <2> QED
    BY <2>1, <2>2
<1> HIDE DEF run, clean
<1>8. ReachesAt(T, k, RepeatLimit) <=> T[k] \in Counted /\ run >= RepeatLimit
  BY <1>0, <1>6, RunStep
<1>9. CleanAt(T, k) <=> clean >= RepeatLimit
  BY <1>7, CleanStep
<1>10. (marked /\ clean < RepeatLimit) <=> MarkedAt(T, k)
  <2>1. clean < RepeatLimit <=> ~(clean >= RepeatLimit)
    BY <1>7
  <2>2. MarkedAt(T, k) <=>
           (ReachesAt(T, k, RepeatLimit) \/ MarkedAt(T, k - 1)) /\ ~CleanAt(T, k)
    BY MarkedStep
  <2> QED
    BY <1>2, <1>8, <1>9, <2>1, <2>2, Zenon
<1>11. (HardRepeat > 0 /\ T[k] \in Counted /\ run = HardRepeat) <=> CrossesAt(T, k)
  <2>1. CASE HardRepeat = 0
    BY <2>1 DEF CrossesAt
  <2>2. CASE HardRepeat # 0
    <3>0. HardRepeat \in Nat \ {0} /\ HardRepeat + 1 \in Nat \ {0}
      BY <2>2
    <3>1. ReachesAt(T, k, HardRepeat) <=> T[k] \in Counted /\ run >= HardRepeat
      BY <1>0, <1>6, <3>0, RunStep
    <3>2. ReachesAt(T, k, HardRepeat + 1) <=> T[k] \in Counted /\ run >= HardRepeat + 1
      BY <1>0, <1>6, <3>0, RunStep
    <3> QED
      BY <1>6, <2>2, <3>1, <3>2 DEF CrossesAt
  <2> QED
    BY <2>1, <2>2
<1>12. z \in StreamStates
  <2>1. marked \in BOOLEAN /\ s.crossed \in BOOLEAN
    BY DEF StreamStates
  <2> QED
    BY <1>3, <1>4, <1>6, <1>7, <2>1 DEF StreamStates
<1>13. Describes(z, T, k)
  <2>1. z.run = run /\ z.clean = clean /\ z.lastRune = T[k]
    BY <1>3
  <2>2. z.degenerate <=> MarkedAt(T, k)
    <3>1. z.degenerate = (marked /\ clean < RepeatLimit)
      BY <1>3
    <3> QED
      BY <1>10, <3>1, Zenon
  <2> QED
    BY <1>6, <1>7, <2>1, <2>2 DEF Describes
<1>14. z.crossed <=> s.crossed \/ CrossesAt(T, k)
  <2>1. z.crossed = (s.crossed \/ (HardRepeat > 0 /\ T[k] \in Counted /\ run = HardRepeat))
    BY <1>3
  <2> QED
    BY <1>11, <2>1, Zenon
<1> QED
  BY <1>12, <1>13, <1>14 DEF z

\* The loop over a piece is a function by recursion on its runes.
LEMMA FeedRunesLoop ==
  ASSUME NEW n \in Nat, NEW piece \in [1..n -> Runes], NEW s \in StreamStates
  PROVE  \E fed \in [0..n -> StreamStates] :
           /\ fed[0] = s
           /\ \A i \in 1..n : fed[i] = C!FeedRune(fed[i - 1], piece[i])
           /\ fed[n] = C!FeedRunes(s, piece, n)
<1> DEFINE Unfolds(f) == f = [i \in 0..n |-> IF i = 0 THEN s ELSE C!FeedRune(f[i - 1], piece[i])]
           step == [i \in 1..n |-> [x \in StreamStates |-> C!FeedRune(x, piece[i])]]
           fed == CHOOSE f : Unfolds(f)
<1>1. ASSUME NEW x \in StreamStates, NEW r \in Runes PROVE C!FeedRune(x, r) \in StreamStates
  BY DEF C!FeedRune, C!CountsRepeat, StreamStates
<1>2. step \in Loops(n, StreamStates)
  BY <1>1 DEF Loops
<1>3. PICK g \in [0..n -> StreamStates] : RunsThrough(g, s, step, n)
  <2> HIDE DEF step
  <2> QED
    BY <1>2, RecursionExists
<1>4. ASSUME NEW i \in 1..n PROVE g[i] = C!FeedRune(g[i - 1], piece[i])
  <2>1. g[i - 1] \in StreamStates
    OBVIOUS
  <2> QED
    BY <1>3, <2>1 DEF RunsThrough
<1>5. ASSUME NEW i \in 0..n
      PROVE  g[i] = IF i = 0 THEN s ELSE C!FeedRune(g[i - 1], piece[i])
  BY <1>3, <1>4 DEF RunsThrough
<1>6. Unfolds(g)
  BY <1>5
<1>7. ASSUME NEW f, Unfolds(f)
      PROVE  /\ f[0] = s
             /\ \A i \in 1..n : f[i] = C!FeedRune(f[i - 1], piece[i])
  BY <1>7
<1>8. ASSUME NEW f, Unfolds(f) PROVE f \in [0..n -> StreamStates]
  <2>1. f[0] \in StreamStates
    BY <1>8, <1>7
  <2> DEFINE T == {i \in 0..n : f[i] \in StreamStates}
  <2>2. 0 \in T
    BY <2>1
  <2>3. ASSUME NEW i \in 1..n, i - 1 \in T PROVE i \in T
    BY <1>1, <1>7, <1>8, <2>3
  <2>4. \A i \in 0..n : i \in T
    <3> HIDE DEF T
    <3> QED
      BY <2>2, <2>3, Induction
  <2> QED
    BY <1>8, <2>4
<1>9. Unfolds(fed)
  <2> HIDE DEF Unfolds
  <2> QED
    BY <1>6, Zenon
<1>10. fed[n] = C!FeedRunes(s, piece, n)
  BY DEF C!FeedRunes
<1> HIDE DEF fed
<1> QED
  BY <1>7, <1>8, <1>9, <1>10

\* One piece: n runes at the end of the m before them.
LEMMA PieceStep ==
  ASSUME NEW m \in Nat, NEW n \in Nat, NEW T \in [1..(m + n) -> Runes],
         NEW piece \in [1..n -> Runes], \A i \in 1..n : T[m + i] = piece[i],
         NEW s \in StreamStates, Describes(s, T, m), ~s.crossed
  PROVE  /\ C!FeedRunes(s, piece, n) \in StreamStates
         /\ Describes(C!FeedRunes(s, piece, n), T, m + n)
         /\ C!FeedRunes(s, piece, n).crossed <=> \E i \in (m + 1)..(m + n) : CrossesAt(T, i)
<1>1. PICK fed \in [0..n -> StreamStates] :
           /\ fed[0] = s
           /\ \A i \in 1..n : fed[i] = C!FeedRune(fed[i - 1], piece[i])
           /\ fed[n] = C!FeedRunes(s, piece, n)
  BY FeedRunesLoop
<1> DEFINE Fits(i) == /\ Describes(fed[i], T, m + i)
                      /\ fed[i].crossed <=> \E j \in (m + 1)..(m + i) : CrossesAt(T, j)
           F == {i \in 0..n : Fits(i)}
<1>2. 0 \in F
  <2>1. (m + 1)..(m + 0) = {} /\ m + 0 = m
    OBVIOUS
  <2> QED
    BY <1>1, <2>1
<1>3. ASSUME NEW i \in 1..n, i - 1 \in F PROVE i \in F
  <2>1. m + i \in 1..(m + n) /\ (m + i) - 1 = m + (i - 1) /\ m + n \in Nat
    OBVIOUS
  <2>2. fed[i - 1] \in StreamStates /\ fed[i] = C!FeedRune(fed[i - 1], T[m + i])
    BY <1>1
  <2>3. Describes(fed[i - 1], T, (m + i) - 1)
    BY <1>3, <2>1
  <2>4. /\ Describes(fed[i], T, m + i)
        /\ fed[i].crossed <=> fed[i - 1].crossed \/ CrossesAt(T, m + i)
    BY <2>1, <2>2, <2>3, RuneStep
  <2>5. (m + 1)..(m + i) = ((m + 1)..(m + (i - 1))) \union {m + i}
    OBVIOUS
  <2>6. fed[i - 1].crossed <=> \E j \in (m + 1)..(m + (i - 1)) : CrossesAt(T, j)
    BY <1>3
  <2>7. fed[i].crossed <=> \E j \in (m + 1)..(m + i) : CrossesAt(T, j)
    BY <2>4, <2>5, <2>6, Zenon
  <2> QED
    BY <2>4, <2>7
<1>4. n \in F
  <2> HIDE DEF F
  <2>1. n \in 0..n
    OBVIOUS
  <2> QED
    BY <1>2, <1>3, <2>1, Induction
<1> QED
  BY <1>1, <1>4

\* What is said of the first k runes depends on no other rune.
LEMMA SamePrefix ==
  ASSUME NEW m \in Nat, NEW T, NEW U, \A i \in 1..m : U[i] = T[i]
  PROVE  /\ \A s : Describes(s, T, m) <=> Describes(s, U, m)
         /\ \A i \in 1..m : CrossesAt(T, i) <=> CrossesAt(U, i)
<1> USE LimitTypes
<1>1. \A i \in 1..m : ExtendsAt(T, i) <=> ExtendsAt(U, i)
  BY DEF ExtendsAt
<1>2. ASSUME NEW i \in 1..m, NEW n \in Nat \ {0} PROVE ReachesAt(T, i, n) <=> ReachesAt(U, i, n)
  <2>1. i >= n => \A j \in (i - n + 2)..i : j \in 1..m
    OBVIOUS
  <2> QED
    BY <1>1, <2>1 DEF ReachesAt
<1>3. ASSUME NEW i \in 1..m PROVE CleanAt(T, i) <=> CleanAt(U, i)
  <2>1. i >= RepeatLimit => \A j \in (i - RepeatLimit + 1)..i : j \in 1..m
    OBVIOUS
  <2> QED
    BY <1>1, <2>1 DEF CleanAt
<1>4. MarkedAt(T, m) <=> MarkedAt(U, m)
  <2>1. \A i \in 1..m : \A j \in i..m : j \in 1..m
    OBVIOUS
  <2> QED
    BY <1>2, <1>3, <2>1 DEF MarkedAt
<1>5. ASSUME NEW s PROVE Describes(s, T, m) <=> Describes(s, U, m)
  <2>1. m # 0 => m \in 1..m /\ U[m] = T[m]
    OBVIOUS
  <2>2. s.run \in 0..m => \A j \in (m - s.run + 2)..m : j \in 1..m
    OBVIOUS
  <2>3. s.run \in 0..m /\ s.run >= 1 => m - s.run + 1 \in 1..m
    OBVIOUS
  <2>4. s.clean \in 0..m => \A j \in (m - s.clean + 1)..m : j \in 1..m
    OBVIOUS
  <2>5. s.clean \in 0..m /\ s.clean < m => m - s.clean \in 1..m
    OBVIOUS
  <2> QED
    BY <1>1, <1>4, <2>1, <2>2, <2>3, <2>4, <2>5 DEF Describes
<1>6. ASSUME NEW i \in 1..m PROVE CrossesAt(T, i) <=> CrossesAt(U, i)
  BY <1>2 DEF CrossesAt
<1> QED
  BY <1>5, <1>6

CrossingsTo(T, k) == {i \in 1..k : CrossesAt(T, i)}

\* The pieces with a crossing among the first k runes, cut at the places of D.
CrossedTo(T, k, D) ==
  {c \in D : \E i \in CrossingsTo(T, k) : i <= c /\ \A d \in D : i <= d => c <= d}

\* n alarms are one for each piece with a crossing, and the text of k runes is
\* cut at its end.
AlarmsFit(n, T, k, D) ==
  /\ D \in SUBSET (1..k)
  /\ k > 0 => k \in D
  /\ n = Cardinality(CrossedTo(T, k, D))

LEMMA CrossedFinite ==
  ASSUME NEW T, NEW k \in Nat, NEW D \in SUBSET (1..k)
  PROVE  /\ IsFiniteSet(CrossedTo(T, k, D)) /\ Cardinality(CrossedTo(T, k, D)) \in Nat
         /\ Cardinality(CrossedTo(T, k, D)) <= k
<1>1. IsFiniteSet(1..k) /\ Cardinality(1..k) = k
  BY FS_Interval
<1>2. CrossedTo(T, k, D) \in SUBSET (1..k)
  BY DEF CrossedTo
<1>3. IsFiniteSet(CrossedTo(T, k, D)) /\ Cardinality(CrossedTo(T, k, D)) <= Cardinality(1..k)
  BY <1>1, <1>2, FS_Subset
<1> QED
  BY <1>1, <1>3, FS_CardinalityType

\* One more piece alarms once when it holds a crossing and not otherwise, and
\* takes none of the earlier crossings from the pieces they are in.
LEMMA AlarmStep ==
  ASSUME NEW m \in Nat, NEW n \in Nat \ {0}, NEW T, NEW U, NEW D,
         \A i \in 1..m : CrossesAt(T, i) <=> CrossesAt(U, i),
         NEW a, AlarmsFit(a, T, m, D), NEW crossed \in BOOLEAN,
         crossed <=> \E i \in (m + 1)..(m + n) : CrossesAt(U, i)
  PROVE  AlarmsFit(a + (IF crossed THEN 1 ELSE 0), U, m + n, D \union {m + n})
<1> DEFINE Q == D \union {m + n}
           X == CrossedTo(T, m, D)
           Y == CrossedTo(U, m + n, Q)
<1>1. D \in SUBSET (1..m) /\ (m > 0 => m \in D) /\ a = Cardinality(X)
  BY DEF AlarmsFit
<1>2. Q \in SUBSET (1..(m + n)) /\ m + n \in Q /\ m + n \notin D
  BY <1>1
<1>3. ASSUME NEW c \in D PROVE c \in X <=> c \in Y
  <2>1. c \in 1..m
    BY <1>1, <1>3
  <2>2. ASSUME NEW i \in 1..m
        PROVE  (\A d \in D : i <= d => c <= d) <=> (\A d \in Q : i <= d => c <= d)
    BY <2>1, <2>2
  <2>3. \A i \in 1..m : i \in CrossingsTo(T, m) <=> i \in CrossingsTo(U, m + n)
    BY DEF CrossingsTo
  <2>4. \A i : i \in CrossingsTo(T, m) => i \in 1..m
    BY DEF CrossingsTo
  <2>5. \A i : i \in CrossingsTo(U, m + n) /\ i <= c => i \in 1..m
    BY <2>1 DEF CrossingsTo
  <2>6. c \in X <=> \E i \in 1..m : /\ i \in CrossingsTo(T, m) /\ i <= c
                                    /\ \A d \in D : i <= d => c <= d
    BY <1>3, <2>4 DEF CrossedTo
  <2>7. c \in Y <=> \E i \in 1..m : /\ i \in CrossingsTo(U, m + n) /\ i <= c
                                    /\ \A d \in Q : i <= d => c <= d
    BY <1>3, <2>5 DEF CrossedTo
  <2> HIDE DEF X, Y, Q
  <2> QED
    BY <2>2, <2>3, <2>6, <2>7
<1>4. m + n \in Y <=> crossed
  <2>1. ASSUME NEW i \in 1..(m + n)
        PROVE  (\A d \in Q : i <= d => m + n <= d) <=> i \in (m + 1)..(m + n)
    <3>1. CASE i \in (m + 1)..(m + n)
      <4>1. \A d \in D : ~(i <= d)
        BY <1>1, <3>1
      <4> QED
        BY <3>1, <4>1
    <3>2. CASE i \notin (m + 1)..(m + n)
      <4>1. m \in D /\ m \in Q /\ i <= m /\ ~(m + n <= m)
        BY <1>1, <2>1, <3>2
      <4> QED
        BY <3>2, <4>1
    <3> QED
      BY <3>1, <3>2
  <2>2. m + n \in Y <=> \E i \in 1..(m + n) : CrossesAt(U, i) /\ i \in (m + 1)..(m + n)
    <3>1. m + n \in Y <=> \E i \in 1..(m + n) :
              CrossesAt(U, i) /\ i <= m + n /\ \A d \in Q : i <= d => m + n <= d
      BY <1>2 DEF CrossedTo, CrossingsTo
    <3>2. \A i \in 1..(m + n) : i <= m + n
      OBVIOUS
    <3> HIDE DEF Y, Q
    <3> QED
      BY <2>1, <3>1, <3>2
  <2>3. \A i \in (m + 1)..(m + n) : i \in 1..(m + n)
    OBVIOUS
  <2> HIDE DEF Y, Q
  <2> QED
    BY <2>2, <2>3
<1>5. X \subseteq D /\ Y \subseteq D \union {m + n}
  BY DEF CrossedTo
<1>6. IsFiniteSet(X) /\ Cardinality(X) \in Nat
  BY <1>1, CrossedFinite
<1> HIDE DEF X, Y, Q
<1>7. CASE crossed
  <2>1. Y = X \union {m + n} /\ m + n \notin X
    BY <1>2, <1>3, <1>4, <1>5, <1>7
  <2>2. Cardinality(Y) = Cardinality(X) + 1
    BY <1>6, <2>1, FS_AddElement
  <2> QED
    BY <1>1, <1>2, <1>7, <2>2 DEF AlarmsFit, Y, Q
<1>8. CASE ~crossed
  <2>1. Y = X
    BY <1>3, <1>4, <1>5, <1>8
  <2>2. a + 0 = Cardinality(Y)
    BY <1>1, <1>6, <2>1
  <2> QED
    BY <1>1, <1>2, <1>8, <2>2 DEF AlarmsFit, Y, Q
<1> QED
  BY <1>7, <1>8

\* The invariant of the content loop: of its state s and a alarms after text T
\* came in the pieces that end at the places of D.
ContentFits(s, a, T, D) ==
  /\ T \in Seq(Runes)
  /\ Len(T) <= MaxContent
  /\ s \in StreamStates
  /\ Describes(s, T, Len(T))
  /\ AlarmsFit(a, T, Len(T), D)

ContentInv == ContentFits(state, alarms, content, cuts)

LEMMA FreshContent == ContentFits(C!Fresh, 0, <<>>, {})
<1>1. <<>> \in Seq(Runes) /\ Len(<<>>) = 0 /\ MaxContent \in Nat
  BY RuneConstants DEF C!ConstantsOK
<1>2. C!Fresh \in StreamStates
  BY DEF C!Fresh, StreamStates
<1>3. Describes(C!Fresh, <<>>, 0)
  BY DEF C!Fresh, Describes, MarkedAt
<1>4. AlarmsFit(0, <<>>, 0, {})
  <2>1. CrossedTo(<<>>, 0, {}) = {}
    BY DEF CrossedTo
  <2> QED
    BY <2>1, FS_EmptySet DEF AlarmsFit
<1> QED
  BY <1>1, <1>2, <1>3, <1>4 DEF ContentFits

LEMMA ContentStep == ContentInv /\ [C!Next]_contentVars => ContentInv'
<1> SUFFICES ASSUME ContentInv, [C!Next]_contentVars PROVE ContentInv'
  OBVIOUS
<1>1. ASSUME NEW n \in 1..MaxPiece, Len(content) + n <= MaxContent,
             NEW piece \in [1..n -> Runes], C!OnStreamContent(piece)
      PROVE  ContentInv'
  <2> DEFINE m == Len(content)
             s == [state EXCEPT !.crossed = FALSE]
             z == C!FeedRunes(s, piece, n)
  <2>0. n \in Nat
    OBVIOUS
  <2>1. /\ Len(piece) = n /\ m \in Nat /\ content \in [1..m -> Runes]
        /\ content \o piece \in Seq(Runes) /\ Len(content \o piece) = m + n
        /\ content \o piece \in [1..(m + n) -> Runes]
        /\ \A i \in 1..m : (content \o piece)[i] = content[i]
        /\ \A i \in 1..n : (content \o piece)[m + i] = piece[i]
    BY <2>0, Appended DEF ContentInv, ContentFits
  <2>2. /\ state' = C!FeedRunes(s, piece, Len(piece))
        /\ alarms' = alarms + (IF C!FeedRunes(s, piece, Len(piece)).crossed THEN 1 ELSE 0)
        /\ content' = content \o piece
        /\ cuts' = cuts \union {Len(content')}
    BY <1>1 DEF C!OnStreamContent
  <2>3. s \in StreamStates /\ ~s.crossed
    BY DEF ContentInv, ContentFits, StreamStates
  <2>4. Describes(s, content, m)
    <3>1. /\ s.run = state.run /\ s.clean = state.clean /\ s.lastRune = state.lastRune
          /\ s.degenerate = state.degenerate
      BY DEF ContentInv, ContentFits, StreamStates
    <3> QED
      BY <3>1 DEF ContentInv, ContentFits, Describes
  <2> DEFINE U == content \o piece
  <2> HIDE DEF m, s, U
  <2>5. /\ Describes(s, U, m)
        /\ \A i \in 1..m : CrossesAt(content, i) <=> CrossesAt(U, i)
    <3>1. \A i \in 1..m : U[i] = content[i]
      BY <2>1 DEF U
    <3> QED
      BY <2>1, <2>4, <3>1, SamePrefix
  <2>6. /\ z \in StreamStates
        /\ Describes(z, U, m + n)
        /\ z.crossed <=> \E i \in (m + 1)..(m + n) : CrossesAt(U, i)
    <3>1. U \in [1..(m + n) -> Runes] /\ \A i \in 1..n : U[m + i] = piece[i]
      BY <2>1 DEF U
    <3> QED
      BY <2>0, <2>1, <2>3, <2>5, <3>1, PieceStep
  <2> HIDE DEF z
  <2>7. /\ state' = z /\ alarms' = alarms + (IF z.crossed THEN 1 ELSE 0) /\ content' = U
        /\ Len(content') = m + n /\ cuts' = cuts \union {m + n}
    BY <2>1, <2>2 DEF z, U, m
  <2>8. AlarmsFit(alarms', U, m + n, cuts')
    <3>1. z.crossed \in BOOLEAN
      BY <2>6 DEF StreamStates
    <3>2. AlarmsFit(alarms, content, m, cuts)
      BY DEF ContentInv, ContentFits, m
    <3>3. n \in Nat \ {0}
      OBVIOUS
    <3>4. AlarmsFit(alarms + (IF z.crossed THEN 1 ELSE 0), U, m + n, cuts \union {m + n})
      BY <2>1, <2>5, <2>6, <3>1, <3>2, <3>3, AlarmStep
    <3> QED
      BY <2>7, <3>4
  <2>9. content' \in Seq(Runes) /\ Len(content') <= MaxContent
    BY <1>1, <2>1, <2>7 DEF U, m
  <2> QED
    BY <2>6, <2>7, <2>8, <2>9 DEF ContentInv, ContentFits
<1>2. CASE C!NextStream
  <2>1. state' = C!Fresh /\ alarms' = 0 /\ content' = <<>> /\ cuts' = {}
    BY <1>2 DEF C!NextStream
  <2> QED
    BY <2>1, FreshContent DEF ContentInv
<1>3. CASE UNCHANGED contentVars
  BY <1>3 DEF contentVars, ContentInv, ContentFits
<1> QED
  BY <1>1, <1>2, <1>3 DEF C!Next

LEMMA ContentInvariant == UnitsSpec => []ContentInv
<1>1. UnitsInit => ContentInv
  BY FreshContent DEF UnitsInit, C!Init, ContentInv
<1>2. ContentInv /\ [UnitsNext]_unitVars => ContentInv'
  <2>1. [UnitsNext]_unitVars => [C!Next]_contentVars
    BY DEF UnitsNext, unitVars
  <2> QED
    BY <2>1, ContentStep
<1> QED
  BY <1>1, <1>2, PTL DEF UnitsSpec, unitVars

LEMMA ExtendsSame == \A i : C!Extends(i) <=> ExtendsAt(content, i)
BY DEF C!Extends, ExtendsAt

LEMMA ReachesSame == \A i, n : C!RunReaches(i, n) <=> ReachesAt(content, i, n)
BY ExtendsSame DEF C!RunReaches, ReachesAt

\* A stream is marked exactly when a counted run reached repeatLimit and no clean
\* stretch followed, for every text and every way to cut it.
THEOREM MarksExact == UnitsSpec => []MarkIsExact
<1>1. ContentInv => MarkIsExact
  <2> SUFFICES ASSUME ContentInv PROVE MarkIsExact
    OBVIOUS
  <2>1. state.degenerate <=> MarkedAt(content, Len(content))
    BY DEF ContentInv, ContentFits, Describes
  <2>2. \A j : CleanAt(content, j) <=>
           j >= RepeatLimit /\ \A k \in (j - RepeatLimit + 1)..j : ~C!Extends(k)
    BY ExtendsSame DEF CleanAt
  <2> QED
    BY <2>1, <2>2, ReachesSame, Zenon DEF MarkIsExact, C!MarkIsExact, MarkedAt
<1> QED
  BY <1>1, ContentInvariant, PTL

\* There are exactly as many alarms as pieces that bring some loop to hardRepeat:
\* each loop of a stream alarms in its piece, and none alarms again.
THEOREM AlarmsPerRun == UnitsSpec => []OneAlarmPerRun
<1>1. ContentInv => OneAlarmPerRun
  <2> SUFFICES ASSUME ContentInv PROVE OneAlarmPerRun
    OBVIOUS
  <2>1. C!Crossings = CrossingsTo(content, Len(content))
    <3>1. CASE HardRepeat = 0
      BY <3>1 DEF C!Crossings, CrossingsTo, CrossesAt
    <3>2. CASE HardRepeat # 0
      BY <3>2, ReachesSame DEF C!Crossings, CrossingsTo, CrossesAt
    <3> QED
      BY <3>1, <3>2
  <2>2. C!CrossedPieces = CrossedTo(content, Len(content), cuts)
    BY <2>1 DEF C!CrossedPieces, CrossedTo
  <2>3. alarms = Cardinality(CrossedTo(content, Len(content), cuts))
    BY DEF ContentInv, ContentFits, AlarmsFit
  <2> QED
    BY <2>2, <2>3 DEF OneAlarmPerRun, C!OneAlarmPerRun, Cardinality, C!Cardinality
<1> QED
  BY <1>1, ContentInvariant, PTL

LEMMA ContentTypes == ContentInv => C!TypeOK
<1> SUFFICES ASSUME ContentInv PROVE C!TypeOK
  OBVIOUS
<1>1. MaxContent \in Nat /\ Len(content) \in Nat /\ Len(content) <= MaxContent
  BY RuneConstants DEF C!ConstantsOK, ContentInv, ContentFits
<1>2. state.run \in 0..MaxContent /\ state.clean \in 0..MaxContent
  BY <1>1 DEF ContentInv, ContentFits, Describes
<1>3. state \in [lastRune : Runes \union {NoRune}, run : 0..MaxContent, clean : 0..MaxContent,
                degenerate : BOOLEAN, crossed : BOOLEAN]
  BY <1>2 DEF ContentInv, ContentFits, StreamStates
<1>4. alarms \in 0..MaxContent
  <2>1. cuts \in SUBSET (1..Len(content))
    BY DEF ContentInv, ContentFits, AlarmsFit
  <2>2. alarms \in Nat /\ alarms <= Len(content)
    BY <1>1, <2>1, CrossedFinite DEF ContentInv, ContentFits, AlarmsFit
  <2> QED
    BY <1>1, <2>2
<1>5. cuts \subseteq 1..MaxContent
  BY <1>1 DEF ContentInv, ContentFits, AlarmsFit
<1> QED
  BY <1>1, <1>3, <1>4, <1>5 DEF C!TypeOK, ContentInv, ContentFits

-----------------------------------------------------------------------------
(* The probe's verdict.                                                     *)

CheckerStates == [lastChar : Runes \union {NoRune}, run : Nat, failed : BOOLEAN]

\* What a checker says of the k runes T of its field that it was fed.
Checked(c, T, k) ==
  /\ c.run \in 0..k
  /\ ~c.failed =>
       /\ c.lastChar = IF k = 0 THEN NoRune ELSE T[k]
       /\ k > 0 => c.run >= 1 /\ ~ExtendsAt(T, k - c.run + 1)
       /\ \A j \in (k - c.run + 2)..k : ExtendsAt(T, j)
  /\ c.failed <=> \E i \in 1..k : ReachesAt(T, i, RepeatLimit)

LEMMA CheckRuneStep ==
  ASSUME NEW N \in Nat, NEW T \in [1..N -> Runes], NEW k \in 1..N, NEW c \in CheckerStates,
         Checked(c, T, k - 1)
  PROVE  P!CheckRune(c, T[k]) \in CheckerStates /\ Checked(P!CheckRune(c, T[k]), T, k)
<1> DEFINE extends == T[k] \in Counted /\ T[k] = c.lastChar
           run == IF extends THEN c.run + 1 ELSE 1
           z == P!CheckRune(c, T[k])
<1> USE LimitTypes
<1>0. k \in Nat \ {0} /\ T[k] \in Runes /\ 1..k = 1..(k - 1) \union {k}
  OBVIOUS
<1>1. CASE c.failed
  <2>1. z = c
    BY <1>1 DEF P!CheckRune
  <2>2. c.run \in 0..(k - 1) /\ \E i \in 1..(k - 1) : ReachesAt(T, i, RepeatLimit)
    BY <1>1 DEF Checked
  <2>3. c.run \in 0..k /\ \E i \in 1..k : ReachesAt(T, i, RepeatLimit)
    BY <2>2
  <2> QED
    BY <1>1, <2>1, <2>3 DEF Checked
<1>2. CASE ~c.failed
  <2>1. /\ c.run \in 0..(k - 1)
        /\ c.lastChar = IF k - 1 = 0 THEN NoRune ELSE T[k - 1]
        /\ k - 1 > 0 => c.run >= 1 /\ ~ExtendsAt(T, (k - 1) - c.run + 1)
        /\ \A j \in ((k - 1) - c.run + 2)..(k - 1) : ExtendsAt(T, j)
        /\ ~\E i \in 1..(k - 1) : ReachesAt(T, i, RepeatLimit)
    BY <1>2 DEF Checked
  <2>2. extends <=> ExtendsAt(T, k)
    BY <2>1 DEF ExtendsAt
  <2>3. ExtendsAt(T, k) => k - 1 > 0
    BY DEF ExtendsAt
  <2>4. z = [lastChar |-> T[k], run |-> run, failed |-> T[k] \in Counted /\ run >= RepeatLimit]
    BY <1>2 DEF P!CheckRune
  <2> HIDE DEF extends, z
  <2>5. run \in 1..k /\ ~ExtendsAt(T, k - run + 1) /\ \A j \in (k - run + 2)..k : ExtendsAt(T, j)
    <3>1. CASE extends
      <4>1. run = c.run + 1 /\ k - run + 1 = (k - 1) - c.run + 1 /\ run \in 1..k
        BY <2>1, <3>1
      <4>2. ~ExtendsAt(T, k - run + 1)
        BY <2>1, <2>2, <2>3, <3>1, <4>1
      <4>3. ASSUME NEW j \in (k - run + 2)..k PROVE ExtendsAt(T, j)
        <5>1. j = k \/ j \in ((k - 1) - c.run + 2)..(k - 1)
          BY <2>1, <4>1
        <5> QED
          BY <2>1, <2>2, <3>1, <5>1
      <4> QED
        BY <4>1, <4>2, <4>3
    <3>2. CASE ~extends
      BY <2>2, <3>2
    <3> QED
      BY <3>1, <3>2
  <2> HIDE DEF run
  <2>6. ReachesAt(T, k, RepeatLimit) <=> T[k] \in Counted /\ run >= RepeatLimit
    BY <1>0, <2>5, RunStep
  <2>7. z.failed <=> \E i \in 1..k : ReachesAt(T, i, RepeatLimit)
    <3>1. z.failed = (T[k] \in Counted /\ run >= RepeatLimit)
      BY <2>4
    <3> QED
      BY <1>0, <2>1, <2>6, <3>1, Zenon
  <2>8. z.run = run /\ z.lastChar = T[k] /\ z \in CheckerStates
    <3>1. (T[k] \in Counted /\ run >= RepeatLimit) \in BOOLEAN /\ run \in Nat
      BY <2>5
    <3> QED
      BY <1>0, <2>4, <3>1 DEF CheckerStates
  <2> QED
    BY <2>5, <2>7, <2>8 DEF Checked, z
<1> QED
  BY <1>1, <1>2

LEMMA CheckRunesLoop ==
  ASSUME NEW n \in Nat, NEW piece \in [1..n -> Runes], NEW c \in CheckerStates
  PROVE  \E checked \in [0..n -> CheckerStates] :
           /\ checked[0] = c
           /\ \A i \in 1..n : checked[i] = P!CheckRune(checked[i - 1], piece[i])
           /\ checked[n] = P!CheckRunes(c, piece, n)
<1> DEFINE Unfolds(f) == f = [i \in 0..n |-> IF i = 0 THEN c ELSE P!CheckRune(f[i - 1], piece[i])]
           step == [i \in 1..n |-> [x \in CheckerStates |-> P!CheckRune(x, piece[i])]]
           checked == CHOOSE f : Unfolds(f)
<1>1. ASSUME NEW x \in CheckerStates, NEW r \in Runes PROVE P!CheckRune(x, r) \in CheckerStates
  <2>1. (r \in Counted /\ (IF r \in Counted /\ r = x.lastChar THEN x.run + 1 ELSE 1) >= RepeatLimit)
          \in BOOLEAN
    OBVIOUS
  <2> QED
    BY <2>1 DEF P!CheckRune, CheckerStates
<1>2. step \in Loops(n, CheckerStates)
  BY <1>1 DEF Loops
<1>3. PICK g \in [0..n -> CheckerStates] : RunsThrough(g, c, step, n)
  <2> HIDE DEF step
  <2> QED
    BY <1>2, RecursionExists
<1>4. ASSUME NEW i \in 1..n PROVE g[i] = P!CheckRune(g[i - 1], piece[i])
  <2>1. g[i - 1] \in CheckerStates
    OBVIOUS
  <2> QED
    BY <1>3, <2>1 DEF RunsThrough
<1>5. ASSUME NEW i \in 0..n
      PROVE  g[i] = IF i = 0 THEN c ELSE P!CheckRune(g[i - 1], piece[i])
  BY <1>3, <1>4 DEF RunsThrough
<1>6. Unfolds(g)
  BY <1>5
<1>7. ASSUME NEW f, Unfolds(f)
      PROVE  /\ f[0] = c
             /\ \A i \in 1..n : f[i] = P!CheckRune(f[i - 1], piece[i])
  BY <1>7
<1>8. ASSUME NEW f, Unfolds(f) PROVE f \in [0..n -> CheckerStates]
  <2>1. f[0] \in CheckerStates
    BY <1>8, <1>7
  <2> DEFINE T == {i \in 0..n : f[i] \in CheckerStates}
  <2>2. 0 \in T
    BY <2>1
  <2>3. ASSUME NEW i \in 1..n, i - 1 \in T PROVE i \in T
    BY <1>1, <1>7, <1>8, <2>3
  <2>4. \A i \in 0..n : i \in T
    <3> HIDE DEF T
    <3> QED
      BY <2>2, <2>3, Induction
  <2> QED
    BY <1>8, <2>4
<1>9. Unfolds(checked)
  <2> HIDE DEF Unfolds
  <2> QED
    BY <1>6, Zenon
<1>10. checked[n] = P!CheckRunes(c, piece, n)
  BY DEF P!CheckRunes
<1> HIDE DEF checked
<1> QED
  BY <1>7, <1>8, <1>9, <1>10

LEMMA CheckStep ==
  ASSUME NEW m \in Nat, NEW n \in Nat, NEW T \in [1..(m + n) -> Runes],
         NEW piece \in [1..n -> Runes], \A i \in 1..n : T[m + i] = piece[i],
         NEW c \in CheckerStates, Checked(c, T, m)
  PROVE  P!CheckRunes(c, piece, n) \in CheckerStates /\ Checked(P!CheckRunes(c, piece, n), T, m + n)
<1>1. PICK checked \in [0..n -> CheckerStates] :
           /\ checked[0] = c
           /\ \A i \in 1..n : checked[i] = P!CheckRune(checked[i - 1], piece[i])
           /\ checked[n] = P!CheckRunes(c, piece, n)
  BY CheckRunesLoop
<1> DEFINE F == {i \in 0..n : Checked(checked[i], T, m + i)}
<1>2. 0 \in F
  <2>1. m + 0 = m
    OBVIOUS
  <2> QED
    BY <1>1, <2>1
<1>3. ASSUME NEW i \in 1..n, i - 1 \in F PROVE i \in F
  <2>1. m + i \in 1..(m + n) /\ (m + i) - 1 = m + (i - 1) /\ m + n \in Nat
    OBVIOUS
  <2>2. checked[i - 1] \in CheckerStates /\ checked[i] = P!CheckRune(checked[i - 1], T[m + i])
    BY <1>1
  <2>3. Checked(checked[i - 1], T, (m + i) - 1)
    BY <1>3, <2>1
  <2> QED
    BY <2>1, <2>2, <2>3, CheckRuneStep
<1>4. n \in F
  <2> HIDE DEF F
  <2>1. n \in 0..n
    OBVIOUS
  <2> QED
    BY <1>2, <1>3, <2>1, Induction
<1> QED
  BY <1>1, <1>4

\* The bytes of a piece.
LEMMA BytesBound ==
  ASSUME NEW n \in Nat, NEW piece
  PROVE  P!Bytes(piece, n) \in Nat /\ P!Bytes(piece, n) <= n * WideBytes
<1> DEFINE cost(i) == IF piece[i] \in WideRunes THEN WideBytes ELSE 1
           Unfolds(f) == f = [i \in 0..n |-> IF i = 0 THEN 0 ELSE f[i - 1] + cost(i)]
           step == [i \in 1..n |-> [x \in Nat |-> x + cost(i)]]
           bytes == CHOOSE f : Unfolds(f)
<1>1. WideBytes \in 1..4
  BY RuneConstants DEF P!ConstantsOK
<1>2. \A i \in 1..n : cost(i) \in 1..WideBytes /\ cost(i) \in Nat
  BY <1>1
<1> HIDE DEF cost
<1>3. step \in Loops(n, Nat)
  BY <1>2 DEF Loops
<1>4. PICK g \in [0..n -> Nat] : RunsThrough(g, 0, step, n)
  <2> HIDE DEF step
  <2> QED
    BY <1>3, RecursionExists
<1>5. ASSUME NEW i \in 1..n PROVE g[i] = g[i - 1] + cost(i)
  <2>1. g[i - 1] \in Nat
    OBVIOUS
  <2> QED
    BY <1>4, <2>1 DEF RunsThrough
<1>6. ASSUME NEW i \in 0..n PROVE g[i] = IF i = 0 THEN 0 ELSE g[i - 1] + cost(i)
  BY <1>4, <1>5 DEF RunsThrough
<1>7. Unfolds(g)
  BY <1>6
<1>8. Unfolds(bytes)
  <2> HIDE DEF Unfolds
  <2> QED
    BY <1>7, Zenon
<1>9. bytes[n] = P!Bytes(piece, n)
  BY DEF P!Bytes, cost
<1> HIDE DEF bytes
<1>10. bytes[0] = 0 /\ \A i \in 1..n : bytes[i] = bytes[i - 1] + cost(i)
  BY <1>8
<1> DEFINE T == {i \in 0..n : bytes[i] \in Nat /\ bytes[i] <= i * WideBytes}
<1>11. 0 \in T
  BY <1>1, <1>10
<1>12. ASSUME NEW i \in 1..n, i - 1 \in T PROVE i \in T
  <2>1. bytes[i] = bytes[i - 1] + cost(i) /\ bytes[i - 1] \in Nat /\ bytes[i - 1] <= (i - 1) * WideBytes
    BY <1>10, <1>12
  <2>2. cost(i) \in Nat /\ cost(i) <= WideBytes
    BY <1>1, <1>2
  <2>3. i * WideBytes = (i - 1) * WideBytes + WideBytes
    BY <1>1
  <2>4. (i - 1) * WideBytes \in Int
    BY <1>1
  <2>5. bytes[i] \in Nat /\ bytes[i] <= i * WideBytes
    BY <1>1, <2>1, <2>2, <2>3, <2>4
  <2> QED
    BY <2>5
<1>13. n \in T
  <2> HIDE DEF T
  <2>1. n \in 0..n
    OBVIOUS
  <2> QED
    BY <1>11, <1>12, <2>1, Induction
<1> QED
  BY <1>9, <1>13

\* The same limit looks at the same runes, whatever follows them.
LEMMA SameRuns ==
  ASSUME NEW m \in Nat, NEW T, NEW U, \A i \in 1..m : U[i] = T[i], NEW c
  PROVE  Checked(c, T, m) => Checked(c, U, m)
<1> USE LimitTypes
<1>1. \A i \in 1..m : ExtendsAt(T, i) <=> ExtendsAt(U, i)
  BY DEF ExtendsAt
<1>2. ASSUME NEW i \in 1..m PROVE ReachesAt(T, i, RepeatLimit) <=> ReachesAt(U, i, RepeatLimit)
  <2>1. i >= RepeatLimit => \A j \in (i - RepeatLimit + 2)..i : j \in 1..m
    OBVIOUS
  <2> QED
    BY <1>1, <2>1 DEF ReachesAt
<1>3. m # 0 => m \in 1..m /\ U[m] = T[m]
  OBVIOUS
<1>4. c.run \in 0..m => \A j \in (m - c.run + 2)..m : j \in 1..m
  OBVIOUS
<1>5. c.run \in 0..m /\ c.run >= 1 => m - c.run + 1 \in 1..m
  OBVIOUS
<1> QED
  BY <1>1, <1>2, <1>3, <1>4, <1>5 DEF Checked

\* RepeatLimit equal runes in a row, as the property counts them and as the
\* checker does.
LoopIn(T, k) ==
  \E i \in 1..(k - RepeatLimit + 1) :
    T[i] \in Counted /\ \A j \in i..(i + RepeatLimit - 1) : T[j] = T[i]

LEMMA LoopReaches ==
  ASSUME NEW T, NEW k \in Nat
  PROVE  LoopIn(T, k) <=> \E i \in 1..k : ReachesAt(T, i, RepeatLimit)
<1> USE LimitTypes
<1>1. ASSUME NEW i \in 1..(k - RepeatLimit + 1), T[i] \in Counted,
             \A j \in i..(i + RepeatLimit - 1) : T[j] = T[i]
      PROVE  \E e \in 1..k : ReachesAt(T, e, RepeatLimit)
  <2> DEFINE e == i + RepeatLimit - 1
  <2>1. e \in 1..k /\ e >= RepeatLimit /\ e \in i..e /\ e - RepeatLimit + 2 = i + 1
    OBVIOUS
  <2>2. ASSUME NEW j \in (i + 1)..e PROVE ExtendsAt(T, j)
    <3>1. j \in i..(i + RepeatLimit - 1) /\ j - 1 \in i..(i + RepeatLimit - 1) /\ j > 1
      OBVIOUS
    <3> QED
      BY <1>1, <3>1 DEF ExtendsAt
  <2>3. T[e] \in Counted
    BY <1>1, <2>1
  <2> HIDE DEF e
  <2> QED
    BY <2>1, <2>2, <2>3 DEF ReachesAt
<1>2. ASSUME NEW e \in 1..k, ReachesAt(T, e, RepeatLimit) PROVE LoopIn(T, k)
  <2> DEFINE i == e - RepeatLimit + 1
             F == {d \in 0..(RepeatLimit - 1) : T[i + d] = T[i]}
  <2>1. i \in 1..(k - RepeatLimit + 1) /\ RepeatLimit - 1 \in Nat /\ i + (RepeatLimit - 1) = e
    BY <1>2 DEF ReachesAt
  <2>2. \A j \in (i + 1)..e : T[j] = T[j - 1]
    BY <1>2 DEF ReachesAt, ExtendsAt
  <2> HIDE DEF i
  <2>3. 0 \in F
    BY <2>1
  <2>4. ASSUME NEW d \in 1..(RepeatLimit - 1), d - 1 \in F PROVE d \in F
    <3>1. i + d \in (i + 1)..e /\ (i + d) - 1 = i + (d - 1)
      BY <2>1
    <3> QED
      BY <2>2, <2>4, <3>1
  <2>5. \A d \in 0..(RepeatLimit - 1) : d \in F
    <3> HIDE DEF F
    <3> QED
      BY <2>1, <2>3, <2>4, Induction
  <2>6. ASSUME NEW j \in i..(i + RepeatLimit - 1) PROVE T[j] = T[i]
    <3>1. j - i \in 0..(RepeatLimit - 1) /\ i + (j - i) = j
      BY <2>1
    <3> QED
      BY <2>5, <3>1
  <2>7. T[i] \in Counted
    <3>1. e \in i..(i + RepeatLimit - 1) /\ T[e] \in Counted
      BY <1>2, <2>1 DEF ReachesAt
    <3> QED
      BY <2>6, <3>1
  <2> QED
    BY <2>1, <2>6, <2>7 DEF LoopIn
<1> QED
  BY <1>1, <1>2 DEF LoopIn

\* The invariant of the probe: while it has not failed each checker is exact
\* about its field; once it has, there is a loop in one of them.
ProbeInv ==
  /\ answer \in [P!Fields -> Seq(Runes)]
  /\ \A f \in P!Fields : Len(answer[f]) <= MaxAnswer
  /\ checker \in [P!Fields -> CheckerStates]
  /\ \A f \in P!Fields : checker[f].run <= Len(answer[f])
  /\ verdict \in {"reading", "early", "finished", "degenerate", "broken"}
  /\ verdict # "degenerate" => \A f \in P!Fields :
       Checked(checker[f], answer[f], Len(answer[f])) /\ ~checker[f].failed
  /\ verdict = "degenerate" => P!Loops
  /\ totalLen \in Nat
  /\ totalLen <= (Len(answer["reasoning"]) + Len(answer["content"])) * WideBytes

LEMMA FieldLoops == P!Loops <=> \E f \in P!Fields : LoopIn(answer[f], Len(answer[f]))
BY DEF P!Loops, LoopIn

\* One field through one event.
LEMMA FieldStep ==
  ASSUME NEW T \in Seq(Runes), NEW n \in Nat, NEW piece \in [1..n -> Runes],
         NEW c \in CheckerStates, Checked(c, T, Len(T))
  PROVE  /\ T \o piece \in Seq(Runes) /\ Len(T \o piece) = Len(T) + n
         /\ P!Check(c, piece) \in CheckerStates
         /\ Checked(P!Check(c, piece), T \o piece, Len(T \o piece))
         /\ P!TextBytes(piece) \in Nat /\ P!TextBytes(piece) <= n * WideBytes
<1>1. /\ Len(piece) = n /\ Len(T) \in Nat
      /\ T \o piece \in Seq(Runes) /\ Len(T \o piece) = Len(T) + n
      /\ T \o piece \in [1..(Len(T) + n) -> Runes]
      /\ \A i \in 1..Len(T) : (T \o piece)[i] = T[i]
      /\ \A i \in 1..n : (T \o piece)[Len(T) + i] = piece[i]
  BY Appended
<1>2. P!Check(c, piece) = P!CheckRunes(c, piece, n) /\ P!TextBytes(piece) = P!Bytes(piece, n)
  BY <1>1 DEF P!Check, P!TextBytes
<1> DEFINE m == Len(T)
           U == T \o piece
<1> HIDE DEF m, U
<1>3. Checked(c, U, m)
  <2>1. \A i \in 1..m : U[i] = T[i]
    BY <1>1 DEF m, U
  <2> QED
    BY <1>1, <2>1, SameRuns DEF m
<1>4. P!CheckRunes(c, piece, n) \in CheckerStates /\ Checked(P!CheckRunes(c, piece, n), U, m + n)
  <2>1. m \in Nat /\ U \in [1..(m + n) -> Runes] /\ \A i \in 1..n : U[m + i] = piece[i]
    BY <1>1 DEF m, U
  <2> QED
    BY <1>3, <2>1, CheckStep
<1> QED
  BY <1>1, <1>2, <1>4, BytesBound DEF m, U

LEMMA EventStep ==
  ASSUME ProbeInv, NEW nr \in Nat, NEW nc \in Nat,
         NEW reasoning \in [1..nr -> Runes], NEW said \in [1..nc -> Runes],
         Len(answer["reasoning"]) + Len(reasoning) <= MaxAnswer,
         Len(answer["content"]) + Len(said) <= MaxAnswer,
         P!Event([f \in P!Fields |-> IF f = "reasoning" THEN reasoning ELSE said])
  PROVE  ProbeInv'
<1> DEFINE piece == [f \in P!Fields |-> IF f = "reasoning" THEN reasoning ELSE said]
           checked == [f \in P!Fields |-> P!Check(checker[f], piece[f])]
<1> USE DEF P!Fields
<1>1. piece["reasoning"] = reasoning /\ piece["content"] = said
  OBVIOUS
<1>2. /\ verdict = "reading"
      /\ answer' = [f \in P!Fields |-> answer[f] \o piece[f]]
      /\ checker' = [checked EXCEPT !["content"] =
                       IF checked["reasoning"].failed THEN checker["content"] ELSE @]
      /\ IF \E f \in P!Fields : checker'[f].failed
           THEN verdict' = "degenerate" /\ totalLen' = totalLen
           ELSE /\ totalLen' = totalLen + P!TextBytes(piece["reasoning"]) + P!TextBytes(piece["content"])
                /\ verdict' \in {"early", "reading"}
  BY DEF P!Event
<1>3. /\ checked["reasoning"] = P!Check(checker["reasoning"], reasoning)
      /\ checked["content"] = P!Check(checker["content"], said)
  BY <1>1
<1>4. /\ answer'["reasoning"] = answer["reasoning"] \o reasoning
      /\ answer'["content"] = answer["content"] \o said
      /\ answer' = [f \in P!Fields |-> answer'[f]]
  BY <1>1, <1>2
<1>5. /\ checker'["reasoning"] = P!Check(checker["reasoning"], reasoning)
      /\ checker'["content"] = IF P!Check(checker["reasoning"], reasoning).failed
                                 THEN checker["content"] ELSE P!Check(checker["content"], said)
      /\ checker' = [f \in P!Fields |-> checker'[f]]
  BY <1>2, <1>3
<1>6. /\ answer["reasoning"] \in Seq(Runes) /\ answer["content"] \in Seq(Runes)
      /\ checker["reasoning"] \in CheckerStates /\ checker["content"] \in CheckerStates
      /\ Checked(checker["reasoning"], answer["reasoning"], Len(answer["reasoning"]))
      /\ Checked(checker["content"], answer["content"], Len(answer["content"]))
      /\ ~checker["reasoning"].failed /\ ~checker["content"].failed
      /\ checker["content"].run <= Len(answer["content"])
      /\ totalLen \in Nat
      /\ totalLen <= (Len(answer["reasoning"]) + Len(answer["content"])) * WideBytes
  BY <1>2 DEF ProbeInv
<1> DEFINE R2 == answer["reasoning"] \o reasoning
           C2 == answer["content"] \o said
<1>7. /\ R2 \in Seq(Runes) /\ Len(R2) = Len(answer["reasoning"]) + nr
      /\ P!Check(checker["reasoning"], reasoning) \in CheckerStates
      /\ Checked(P!Check(checker["reasoning"], reasoning), R2, Len(R2))
      /\ P!TextBytes(reasoning) \in Nat /\ P!TextBytes(reasoning) <= nr * WideBytes
  BY <1>6, FieldStep
<1>8. /\ C2 \in Seq(Runes) /\ Len(C2) = Len(answer["content"]) + nc
      /\ P!Check(checker["content"], said) \in CheckerStates
      /\ Checked(P!Check(checker["content"], said), C2, Len(C2))
      /\ P!TextBytes(said) \in Nat /\ P!TextBytes(said) <= nc * WideBytes
  BY <1>6, FieldStep
<1>9. Len(reasoning) = nr /\ Len(said) = nc
  BY <1>6, Appended
<1>10. /\ Len(answer["reasoning"]) \in Nat /\ Len(answer["content"]) \in Nat
       /\ WideBytes \in 1..4
  BY <1>6, LenProperties, RuneConstants DEF P!ConstantsOK
<1> HIDE DEF piece, checked, R2, C2
<1>11. answer' \in [P!Fields -> Seq(Runes)] /\ checker' \in [P!Fields -> CheckerStates]
  <2>1. \A f \in P!Fields : answer'[f] \in Seq(Runes)
    BY <1>4, <1>7, <1>8 DEF R2, C2
  <2>2. \A f \in P!Fields : checker'[f] \in CheckerStates
    BY <1>5, <1>6, <1>7, <1>8
  <2> QED
    BY <1>4, <1>5, <2>1, <2>2
<1>12. \A f \in P!Fields : Len(answer'[f]) <= MaxAnswer
  BY <1>4, <1>7, <1>8, <1>9 DEF R2, C2
<1>13. answer'["reasoning"] = R2 /\ answer'["content"] = C2
  BY <1>4 DEF R2, C2
<1>14. \A f \in P!Fields : checker'[f].run <= Len(answer'[f])
  <2>1. P!Check(checker["reasoning"], reasoning).run <= Len(R2)
    BY <1>7 DEF Checked
  <2>2. P!Check(checker["content"], said).run <= Len(C2)
    BY <1>8 DEF Checked
  <2>3. checker["content"].run <= Len(C2)
    <3>1. checker["content"].run \in Nat
      BY <1>6 DEF CheckerStates
    <3> QED
      BY <1>6, <1>8, <1>10, <3>1
  <2> QED
    BY <1>5, <1>13, <2>1, <2>2, <2>3
<1>15. /\ totalLen' \in Nat
       /\ totalLen' <= (Len(answer'["reasoning"]) + Len(answer'["content"])) * WideBytes
  <2> DEFINE lr == Len(answer["reasoning"])
             lc == Len(answer["content"])
             br == P!TextBytes(reasoning)
             bc == P!TextBytes(said)
  <2>1. totalLen' \in {totalLen, totalLen + br + bc}
    BY <1>1, <1>2
  <2>2. Len(answer'["reasoning"]) = lr + nr /\ Len(answer'["content"]) = lc + nc
    BY <1>7, <1>8, <1>13
  <2>3. /\ lr \in Nat /\ lc \in Nat /\ br \in Nat /\ bc \in Nat /\ WideBytes \in 1..4
        /\ br <= nr * WideBytes /\ bc <= nc * WideBytes
        /\ totalLen \in Nat /\ totalLen <= (lr + lc) * WideBytes
    BY <1>6, <1>7, <1>8, <1>10
  <2> HIDE DEF lr, lc, br, bc
  <2>4. totalLen' \in Nat /\ totalLen' <= ((lr + nr) + (lc + nc)) * WideBytes
    <3>1. \A w \in {1, 2, 3, 4} : WideBytes = w =>
             totalLen' \in Nat /\ totalLen' <= ((lr + nr) + (lc + nc)) * w
      BY <2>1, <2>3
    <3>2. WideBytes \in {1, 2, 3, 4}
      BY <2>3
    <3> QED
      BY <3>1, <3>2
  <2> QED
    BY <2>2, <2>4
<1>16. CASE \E f \in P!Fields : checker'[f].failed
  <2>1. verdict' = "degenerate"
    BY <1>2, <1>16
  <2>2. P!Loops' <=> LoopIn(R2, Len(R2)) \/ LoopIn(C2, Len(C2))
    BY <1>13 DEF P!Loops, LoopIn
  <2>3. P!Loops'
    <3>1. CASE P!Check(checker["reasoning"], reasoning).failed
      <4>1. \E i \in 1..Len(R2) : ReachesAt(R2, i, RepeatLimit)
        BY <1>7, <3>1 DEF Checked
      <4>2. Len(R2) \in Nat
        BY <1>7, <1>10
      <4> QED
        BY <2>2, <4>1, <4>2, LoopReaches
    <3>2. CASE ~P!Check(checker["reasoning"], reasoning).failed
      <4>1. P!Check(checker["content"], said).failed
        BY <1>5, <1>16, <3>2
      <4>2. \E i \in 1..Len(C2) : ReachesAt(C2, i, RepeatLimit)
        BY <1>8, <4>1 DEF Checked
      <4>3. Len(C2) \in Nat
        BY <1>8, <1>10
      <4> QED
        BY <2>2, <4>2, <4>3, LoopReaches
    <3> QED
      BY <3>1, <3>2
  <2> QED
    BY <1>11, <1>12, <1>14, <1>15, <2>1, <2>3 DEF ProbeInv
<1>17. CASE ~\E f \in P!Fields : checker'[f].failed
  <2>1. verdict' \in {"early", "reading"}
    BY <1>2, <1>17
  <2>2. \A f \in P!Fields : Checked(checker'[f], answer'[f], Len(answer'[f])) /\ ~checker'[f].failed
    <3>1. checker'["content"] = P!Check(checker["content"], said)
      BY <1>5, <1>17
    <3> QED
      BY <1>5, <1>7, <1>8, <1>13, <1>17, <3>1
  <2> QED
    BY <1>11, <1>12, <1>14, <1>15, <2>1, <2>2 DEF ProbeInv
<1> QED
  BY <1>16, <1>17

LEMMA ProbeFresh == P!Init => ProbeInv
<1> SUFFICES ASSUME P!Init PROVE ProbeInv
  OBVIOUS
<1>1. /\ \A f \in P!Fields : answer[f] = <<>> /\ checker[f] = P!Fresh
      /\ totalLen = 0 /\ verdict = "reading"
  BY DEF P!Init
<1>2. <<>> \in Seq(Runes) /\ Len(<<>>) = 0 /\ MaxAnswer \in Nat /\ WideBytes \in 1..4
  BY RuneConstants DEF P!ConstantsOK
<1>3. P!Fresh \in CheckerStates /\ Checked(P!Fresh, <<>>, 0) /\ ~P!Fresh.failed /\ P!Fresh.run = 0
  BY DEF P!Fresh, CheckerStates, Checked
<1>4. answer \in [P!Fields -> Seq(Runes)] /\ checker \in [P!Fields -> CheckerStates]
  BY <1>2, <1>3 DEF P!Init
<1>5. \A f \in P!Fields : Checked(checker[f], answer[f], Len(answer[f])) /\ ~checker[f].failed
  BY <1>1, <1>2, <1>3
<1>6. totalLen <= (Len(answer["reasoning"]) + Len(answer["content"])) * WideBytes
  <2>1. Len(answer["reasoning"]) = 0 /\ Len(answer["content"]) = 0
    BY <1>1, <1>2 DEF P!Fields
  <2>2. (0 + 0) * WideBytes = 0
    BY <1>2
  <2> QED
    BY <1>1, <2>1, <2>2
<1>7. \A f \in P!Fields : Len(answer[f]) <= MaxAnswer /\ checker[f].run <= Len(answer[f])
  BY <1>1, <1>2, <1>3
<1> QED
  BY <1>1, <1>4, <1>5, <1>6, <1>7 DEF ProbeInv

LEMMA ProbeStep == ProbeInv /\ [P!Next]_probeVars => ProbeInv'
<1>1. ASSUME ProbeInv,
             \E reasoning, said \in P!Pieces :
               /\ Len(answer["reasoning"]) + Len(reasoning) <= MaxAnswer
               /\ Len(answer["content"]) + Len(said) <= MaxAnswer
               /\ P!Event([f \in P!Fields |-> IF f = "reasoning" THEN reasoning ELSE said])
      PROVE  ProbeInv'
  <2>1. PICK reasoning \in P!Pieces, said \in P!Pieces :
               /\ Len(answer["reasoning"]) + Len(reasoning) <= MaxAnswer
               /\ Len(answer["content"]) + Len(said) <= MaxAnswer
               /\ P!Event([f \in P!Fields |-> IF f = "reasoning" THEN reasoning ELSE said])
    BY <1>1
  <2>2. PICK nr \in 0..MaxEvent : reasoning \in [1..nr -> Runes]
    BY DEF P!Pieces
  <2>3. PICK nc \in 0..MaxEvent : said \in [1..nc -> Runes]
    BY DEF P!Pieces
  <2>4. nr \in Nat /\ nc \in Nat
    OBVIOUS
  <2> QED
    BY <1>1, <2>1, <2>2, <2>3, <2>4, EventStep
<1>2. ASSUME ProbeInv, NEW how \in {"finished", "broken"}, P!End(how) PROVE ProbeInv'
  <2>1. /\ verdict = "reading" /\ verdict' = how
        /\ UNCHANGED <<checker, totalLen, answer>>
    BY <1>2 DEF P!End
  <2> QED
    BY <1>2, <2>1 DEF ProbeInv
<1>3. P!ProbeAgain => P!Init'
  BY DEF P!ProbeAgain, P!Init
<1>4. P!Init' => ProbeInv'
  BY ProbeFresh, PTL
<1>5. ProbeInv /\ UNCHANGED probeVars => ProbeInv'
  BY DEF probeVars, ProbeInv, P!Loops
<1> QED
  BY <1>1, <1>2, <1>3, <1>4, <1>5 DEF P!Next

LEMMA ProbeInvariant == UnitsSpec => []ProbeInv
<1>1. UnitsInit => ProbeInv
  BY ProbeFresh DEF UnitsInit
<1>2. ProbeInv /\ [UnitsNext]_unitVars => ProbeInv'
  <2>1. [UnitsNext]_unitVars => [P!Next]_probeVars
    BY DEF UnitsNext, unitVars
  <2> QED
    BY <2>1, ProbeStep
<1> QED
  BY <1>1, <1>2, PTL DEF UnitsSpec, unitVars

\* The probe fails as degenerate exactly on the event that completes a loop in
\* one field, wherever the event boundaries fall.
THEOREM VerdictsExact == UnitsSpec => []VerdictIsExact
<1>1. ProbeInv => VerdictIsExact
  <2> SUFFICES ASSUME ProbeInv, verdict # "degenerate" PROVE ~P!Loops
    BY DEF ProbeInv, VerdictIsExact, P!VerdictIsExact
  <2>1. ASSUME NEW f \in P!Fields PROVE ~LoopIn(answer[f], Len(answer[f]))
    <3>1. ~\E i \in 1..Len(answer[f]) : ReachesAt(answer[f], i, RepeatLimit)
      BY DEF ProbeInv, Checked
    <3>2. Len(answer[f]) \in Nat
      BY LenProperties DEF ProbeInv
    <3> QED
      BY <3>1, <3>2, LoopReaches
  <2> QED
    BY <2>1, FieldLoops
<1> QED
  BY <1>1, ProbeInvariant, PTL

LEMMA ProbeTypes == ProbeInv => P!TypeOK
<1> SUFFICES ASSUME ProbeInv PROVE P!TypeOK
  OBVIOUS
<1> DEFINE lr == Len(answer["reasoning"])
           lc == Len(answer["content"])
<1>1. lr \in 0..MaxAnswer /\ lc \in 0..MaxAnswer /\ MaxAnswer \in Nat /\ WideBytes \in 1..4
  <2>1. "reasoning" \in P!Fields /\ "content" \in P!Fields
    BY DEF P!Fields
  <2>2. lr \in Nat /\ lc \in Nat
    BY <2>1, LenProperties DEF ProbeInv
  <2> QED
    BY <2>1, <2>2, RuneConstants DEF P!ConstantsOK, ProbeInv
<1>2. ASSUME NEW f \in P!Fields
      PROVE  checker[f] \in [lastChar : Runes \union {NoRune}, run : 0..MaxAnswer, failed : BOOLEAN]
  <2>1. checker[f] \in CheckerStates /\ checker[f].run <= Len(answer[f])
        /\ Len(answer[f]) <= MaxAnswer /\ answer[f] \in Seq(Runes)
    BY DEF ProbeInv
  <2>2. Len(answer[f]) \in Nat
    BY <2>1, LenProperties
  <2>3. checker[f].run \in 0..MaxAnswer
    BY <1>1, <2>1, <2>2 DEF CheckerStates
  <2> QED
    BY <2>1, <2>3 DEF CheckerStates
<1>3. totalLen \in 0..(2 * MaxAnswer * WideBytes)
  <2>1. totalLen \in Nat /\ totalLen <= (lr + lc) * WideBytes
    BY DEF ProbeInv
  <2> HIDE DEF lr, lc
  <2>2. \A w \in {1, 2, 3, 4} : WideBytes = w => totalLen <= 2 * MaxAnswer * w
    BY <1>1, <2>1
  <2>3. WideBytes \in {1, 2, 3, 4}
    BY <1>1
  <2> QED
    BY <1>1, <2>1, <2>2, <2>3
<1> QED
  BY <1>2, <1>3 DEF ProbeInv, P!TypeOK

-----------------------------------------------------------------------------
(* All four together.                                                       *)

LEMMA GuardInUnits == UnitsSpec => []TypeOK
<1>1. UnitsInit => TypeOK
  BY GuardTypesInit DEF UnitsInit
<1>2. TypeOK /\ [UnitsNext]_unitVars => TypeOK'
  <2>1. [UnitsNext]_unitVars => [Next]_vars
    BY DEF UnitsNext, unitVars
  <2> QED
    BY <2>1, GuardTypesStep
<1> QED
  BY <1>1, <1>2, PTL DEF UnitsSpec, unitVars

\* The types of all four units: no counter of the stream state, of the probe or
\* of the error guard leaves its range.
THEOREM UnitsTypes == UnitsSpec => []UnitsTypeOK
<1>1. BodyInv => R!TypeOK
  BY DEF BodyInv
<1>2. TypeOK /\ C!TypeOK /\ P!TypeOK /\ R!TypeOK => UnitsTypeOK
  BY DEF UnitsTypeOK
<1> QED
  BY <1>1, <1>2, GuardInUnits, ContentInvariant, ContentTypes, ProbeInvariant, ProbeTypes,
     RequestInvariant, PTL
=============================================================================
