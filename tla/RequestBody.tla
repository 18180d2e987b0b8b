------------------------------ MODULE RequestBody ------------------------------
(***************************************************************************)
(* What becomes of one client request on its way out: the key check, the    *)
(* reading, replaying and reinstalling of its body (reqbody.go) by the      *)
(* routing decision and by every rewrite of ReverseProxy.Rewrite, and the   *)
(* transport that holds the body against the declared length.  A body is    *)
(* one of five kinds with the set of edits made to it; two bodies of        *)
(* different kind or edits have different lengths.                          *)
(***************************************************************************)

VARIABLES
  config,    \* the enabled features, fixed at start-up
  at,        \* the next step of the request, idle between requests
  req,       \* what the client sent
  reader,    \* r.Body: what it will still deliver, and how that ends
  declared,  \* ContentLength: the body it was computed from, or unknown
  key,       \* the keys in the outbound header and query
  target,    \* the server the request is routed to
  outcome    \* how the request ended, and the body the server received

requestVars == <<req, target, outcome>>
vars == <<config, at, req, reader, declared, key, target, outcome>>

Edits   == {"tools", "usage", "model", "params"}
Kinds   == {"nothing", "blank", "small", "large"}
Bodies  == [kind : Kinds, edits : SUBSET Edits]
Nothing == [kind |-> "nothing", edits |-> {}]
Unknown == [kind |-> "unknown", edits |-> {}]

\* observe and observeCloud: the second is only set along with the first.
Configs ==
  [keys : {"none", "virtual", "resigned"}, prefixCache : BOOLEAN,
   observed : {{}, {"local"}, {"local", "cloud"}}, cloud : {"off", "plain", "renaming"}]

\* The request: POST /v1/chat/completions or another one, its content type (a
\* parameter or capitals make a JSON type that is no literal one), the body
\* with the fields a rewrite looks for, whether the client delivers all of it
\* and declares its length, and where it puts a virtual key.
Requests ==
  {r \in [chat : BOOLEAN, type : {"json", "JSON", "other"}, kind : Kinds,
          has : SUBSET {"tools", "stream", "params"}, ends : {"eof", "error"},
          sized : BOOLEAN, key : {"header", "query", "none"}] :
     /\ r.kind \in {"nothing", "blank"} => r.has = {}
     /\ r.kind = "nothing" /\ r.sized => r.ends = "eof"}

IsJSON == req.type \in {"json", "JSON"}

\* The value of a variable that belongs to no request.
NoRequest == [chat |-> FALSE, type |-> "other", kind |-> "nothing", has |-> {},
              ends |-> "eof", sized |-> TRUE, key |-> "none"]
NoReader  == [body |-> Nothing, ends |-> "eof", source |-> "memory"]
NoKey     == [header |-> "none", query |-> "none"]
Pending   == [how |-> "pending", body |-> Nothing]

Init ==
  /\ config \in Configs
  /\ at = "idle"
  /\ req = NoRequest /\ reader = NoReader /\ declared = Nothing
  /\ key = NoKey /\ target = "local" /\ outcome = Pending

End(how, body) == at' = "done" /\ outcome' = [how |-> how, body |-> body]

\* The key as the client sends it (clientKey reads it, and leaves it there).
ClientKey(r) == [header |-> IF r.key = "header" THEN "client" ELSE "none",
                 query  |-> IF r.key = "query" THEN "client" ELSE "none"]

\* A request arrives and Authorize lets it pass or answers 401.
Arrive ==
  /\ at = "idle"
  /\ \E r \in Requests :
       /\ req' = r
       /\ reader' = [body |-> [kind |-> r.kind, edits |-> {}], ends |-> r.ends,
                     source |-> "client"]
       /\ declared' = IF r.sized THEN reader'.body ELSE Unknown
       /\ key' = ClientKey(r)
       /\ target' = "local"
       /\ IF config.keys # "none" /\ r.key = "none"
            THEN End("refused", Nothing)
            ELSE at' = "route" /\ outcome' = Pending
  /\ UNCHANGED config

\* Read: a body that is delivered to its end is handed out whole; one whose
\* reading fails is replayed, head first, and left alone.
Readable == reader.source \in {"client", "memory"} /\ reader.ends = "eof"

\* A clone without a body has none to read: io.ReadAll(nil) panics.
Missing == reader.source = "none"

\* Mutant: the rewritten body keeps the length of the one before.
RestoreKeepsLength(body) ==
  /\ reader' = [body |-> body, ends |-> "eof", source |-> "memory"]
  /\ UNCHANGED declared

Restore(body) ==
  /\ reader' = [body |-> body, ends |-> "eof", source |-> "memory"]
  /\ declared' = body

\* Mutant: what could be read of a broken body passes for the body.
RewriteIgnoresErrors(to, edits) ==
  IF Missing
    THEN End("aborted", Nothing) /\ UNCHANGED <<reader, declared>>
    ELSE /\ Restore([reader.body EXCEPT !.edits = @ \union edits])
         /\ at' = to /\ UNCHANGED outcome

\* One rewrite on the way to the next step: read, edit, reinstall.
Rewrite(to, edits) ==
  \/ Missing /\ End("aborted", Nothing) /\ UNCHANGED <<reader, declared>>
  \/ Readable /\ Restore([reader.body EXCEPT !.edits = @ \union edits])
     /\ at' = to /\ UNCHANGED outcome
  \/ ~Missing /\ ~Readable /\ at' = to /\ UNCHANGED <<reader, declared, outcome>>

\* A step that does not apply to this request.
Skip(to) == at' = to /\ UNCHANGED <<reader, declared, outcome>>

\* Mutant: the prefix of an oversized body that was buffered is not replayed.
BufferDropsHead ==
  IF Readable
    THEN IF reader.body.kind = "large"
           THEN reader' = [reader EXCEPT !.body = Nothing] /\ UNCHANGED declared
           ELSE Restore(reader.body)
    ELSE UNCHANGED <<reader, declared>>

\* The buffering of Route: an oversized or broken body is replayed.
Buffer ==
  IF Readable /\ reader.body.kind # "large"
    THEN Restore(reader.body) ELSE UNCHANGED <<reader, declared>>

\* Route, once, or a second time when a probe restarted the backend.  The
\* decision itself is a choice; the body decides only whether there is one.
Route ==
  /\ at = "route"
  /\ config.cloud # "off" /\ req.chat /\ IsJSON
  /\ Buffer
  /\ \/ at' = "proxy" /\ target' = "cloud" /\ reader'.source = "memory"
     \/ at' \in {"route", "proxy"} /\ target' = "local"
  /\ UNCHANGED <<config, req, key, outcome>>

\* No decision: cloud routing is off, the request is not one to judge, or the
\* backend is down and the cloud takes it unread.
RouteUnread ==
  /\ at = "route"
  /\ \/ /\ config.cloud = "off" \/ ~req.chat \/ ~IsJSON
        /\ target' = "local"
     \/ /\ config.cloud # "off"
        /\ target' = "cloud"
  /\ at' = "proxy"
  /\ UNCHANGED <<config, req, reader, declared, key, outcome>>

\* ReverseProxy clones the request: no body when the length is zero.
Proxy ==
  /\ at = "proxy"
  /\ at' = "keys"
  /\ reader' = IF declared.kind = "nothing" THEN [NoReader EXCEPT !.source = "none"] ELSE reader
  /\ UNCHANGED <<config, declared, key, requestVars>>

\* virtualKeyPolicy.ModifyRequest
SwapKeys ==
  /\ at = "keys"
  /\ at' = "prefix"
  /\ key' = CASE config.keys = "none" -> key
              [] config.keys = "virtual" -> NoKey
              [] config.keys = "resigned" -> [NoKey EXCEPT !.header = "backend"]
  /\ UNCHANGED <<config, reader, declared, requestVars>>

\* The fields among f that the client's body has.
Present(f) == f \intersect req.has

HasText(body) == body.kind \in {"small", "large"}

\* prefixCachePolicy.ModifyRequest: a body without text is read and closed, and
\* not reinstalled.
NormalizeTools ==
  /\ at = "prefix"
  /\ IF ~(config.prefixCache /\ req.chat /\ IsJSON)
       THEN Skip("usage")
       ELSE IF Readable /\ ~HasText(reader.body)
         THEN /\ at' = "usage"
              /\ reader' = IF reader.source = "client" THEN [reader EXCEPT !.source = "closed"]
                                                       ELSE [reader EXCEPT !.body = Nothing]
              /\ UNCHANGED <<declared, outcome>>
         ELSE Rewrite("usage", Present({"tools"}))
  /\ UNCHANGED <<config, req, key, target>>

\* injectUsage
InjectUsage ==
  /\ at = "usage"
  /\ IF target \in config.observed /\ req.chat /\ req.type = "json"
       THEN Rewrite("model", IF "stream" \in req.has THEN {"usage"} ELSE {})
       ELSE Skip("model")
  /\ UNCHANGED <<config, req, key, target>>

RewriteModel ==
  /\ at = "model"
  /\ IF target = "cloud" /\ config.cloud = "renaming" /\ req.chat
       THEN Rewrite("sanitize", IF HasText(reader.body) THEN {"model"} ELSE {})
       ELSE Skip("sanitize")
  /\ UNCHANGED <<config, req, key, target>>

\* Mutant: only what the router judged is sanitized, not what the fallback sends.
SanitizeJSONOnly ==
  /\ at = "sanitize"
  /\ IF target = "cloud" /\ req.chat /\ IsJSON
       THEN Rewrite("auth", Present({"params"}))
       ELSE Skip("auth")
  /\ UNCHANGED <<config, req, key, target>>

\* sanitizeCloudBody
Sanitize ==
  /\ at = "sanitize"
  /\ IF target = "cloud" /\ req.chat
       THEN Rewrite("auth", Present({"params"}))
       ELSE Skip("auth")
  /\ UNCHANGED <<config, req, key, target>>

SetAuth ==
  /\ at = "auth"
  /\ at' = "send"
  /\ key' = IF target = "cloud" THEN [key EXCEPT !.header = "cloud"] ELSE key
  /\ UNCHANGED <<config, reader, declared, requestVars>>

\* The transport delivers a body only if it is readable and as long as declared.
Delivers == reader.source = "none" \/ (Readable /\ declared \in {Unknown, reader.body})

Send ==
  /\ at = "send"
  /\ IF Delivers THEN End("sent", reader.body) ELSE End("failed", Nothing)
  /\ UNCHANGED <<config, req, reader, declared, key, target>>

\* The handler returns.
Return ==
  /\ at = "done"
  /\ at' = "idle"
  /\ req' = NoRequest /\ reader' = NoReader /\ declared' = Nothing
  /\ key' = NoKey /\ target' = "local" /\ outcome' = Pending
  /\ UNCHANGED config

Next ==
  \/ Arrive \/ Return
  \/ Route \/ RouteUnread
  \/ Proxy
  \/ SwapKeys \/ NormalizeTools \/ InjectUsage \/ RewriteModel \/ Sanitize \/ SetAuth
  \/ Send

Spec == Init /\ [][Next]_vars

-----------------------------------------------------------------------------
TypeOK ==
  /\ config \in Configs
  /\ at \in {"idle", "route", "proxy", "keys", "prefix", "usage", "model", "sanitize",
             "auth", "send", "done"}
  /\ req \in Requests
  /\ reader \in [body : Bodies, ends : {"eof", "error"},
                 source : {"client", "memory", "closed", "none"}]
  /\ declared \in Bodies \union {Unknown}
  /\ key \in [header : {"none", "client", "backend", "cloud"}, query : {"none", "client"}]
  /\ target \in {"local", "cloud"}
  /\ outcome \in [how : {"pending", "refused", "aborted", "failed", "sent"}, body : Bodies]

Sent == at = "done" /\ outcome.how = "sent"

\* Whatever features are on and whichever way the request was routed, a body
\* with text that the client delivered arrives, and as the same text: no
\* buffering, replay or rewrite loses it or leaves a length that is not its own
\* (reqbody.go:1-5).  One that broke off on its way in is never passed on as if
\* it were whole (reqbody.go:16-18).
BodyWhole ==
  at = "done" /\ outcome.how # "refused" /\ req.kind \in {"small", "large"} =>
    IF req.ends = "eof"
      THEN outcome.how = "sent" /\ outcome.body.kind = req.kind
      ELSE outcome.how = "failed"

\* The header's key that the local backend is due.
SignedHeader ==
  CASE config.keys = "none"     -> ClientKey(req).header
    [] config.keys = "virtual"  -> "none"
    [] config.keys = "resigned" -> "backend"

\* The server finds the edits and the keys that the features and the target
\* call for, although each rewrite reads anew what the others left, the header is
\* replaced twice on the way to the cloud, and a request comes there with or
\* without a routing decision (proxy.go:156-168).  The cloud sees the cloud's own
\* key in the header; the client's key in the query is dropped exactly when
\* virtual keys are on, so that without them it goes along to the cloud too,
\* where proxy/cloud.go:208-210 has client keys never arrive.
RewritesAreDue ==
  Sent =>
    /\ req.kind \in {"small", "large"} =>
         outcome.body.edits =
           IF ~req.chat THEN {}
           ELSE {e \in Edits :
                   CASE e = "tools"  -> config.prefixCache /\ IsJSON /\ "tools" \in req.has
                     [] e = "usage"  -> target \in config.observed /\ req.type = "json"
                                          /\ "stream" \in req.has
                     [] e = "model"  -> target = "cloud" /\ config.cloud = "renaming"
                     [] e = "params" -> target = "cloud" /\ "params" \in req.has}
    /\ key.header = IF target = "cloud" THEN "cloud" ELSE SignedHeader
    /\ key.query = IF config.keys = "none" THEN ClientKey(req).query ELSE "none"
==============================================================================
