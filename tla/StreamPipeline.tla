---------------------------- MODULE StreamPipeline ----------------------------
(***************************************************************************)
(* One chat completion on its way from a backend to the client             *)
(* (Supervisor.wrapResponse of src/internal/proxy/proxy.go): ctxBody with  *)
(* its watcher goroutine, guardBody (streamerror.go) and completionTap     *)
(* (completion.go), read by the copy loop of the reverse proxy.            *)
(*                                                                         *)
(* A response is a sequence of tokens: the payload of an SSE line (or the  *)
(* whole JSON object of a plain body), and the newline that ends the line. *)
(* A read may stop between any two tokens.  Of a payload in which the      *)
(* backend died the tap sees what gjson still reads: all of it or a part   *)
(* (the payload without its newline, then a reset), or nothing ("cut").    *)
(***************************************************************************)
EXTENDS Integers, Sequences, FiniteSets, SequencesExt

CONSTANTS
  Guard,         \* errguard is configured
  EarlyTimings,  \* the backend sends draft timings before the usage event
  MaxEvents      \* bound: events the backend sends in one response

ASSUME SwitchesAssumption == {Guard, EarlyTimings} \subseteq BOOLEAN
ASSUME BoundAssumption == MaxEvents \in Nat

VARIABLES
  kind,      \* where the response comes from and how it is announced
  sent,      \* history: all the backend sent
  ending,    \* how the backend's connection ended: open, eof, reset
  nread,     \* how many tokens of "sent" were read
  gone,      \* the request context is cancelled: the client left
  closed,    \* ctxBody closed the response body
  copy,      \* the copy loop: about to call Read, blocked in it, done
  pending,   \* guardBody.pending holds the error event
  failed,    \* guardBody.failed is set
  tap,       \* the line scanner: partial and done, and what it handed out
  toClient,  \* what the copy loop wrote
  tracked    \* the stream is registered with the stream consumers

backendVars == <<kind, sent, ending>>
guardVars   == <<pending, failed>>
vars == <<backendVars, nread, gone, closed, copy, guardVars, tap, toClient, tracked>>

Payloads == {"content", "timings", "usage", "error", "done"}
Tokens == Payloads \union {"cut", "injected", "nl"}

\* Streams of the local and of the cloud backend; a local stream whose
\* Content-Type does not say so; a local JSON body.
Kinds == {"local", "cloud", "unannounced", "json"}

\* The Content-Type announces a stream: guardBody, and a tap that scans.
IsStream == kind \in {"local", "cloud"}

\* A cloud response gets no guard.
Guarded == Guard /\ kind # "cloud"

\* The blank line in front seals off a payload that was cut.
ErrorEvent == <<"nl", "nl", "injected", "nl", "nl">>

FreshTap == [partial |-> "none", done |-> FALSE, notified |-> <<>>, contents |-> 0,
             reports |-> 0]

TypeOK ==
  /\ kind \in Kinds
  /\ sent \in Seq(Tokens \ {"injected"}) /\ Len(sent) <= 2 * MaxEvents
  /\ ending \in {"open", "eof", "reset"}
  /\ nread \in 0..Len(sent)
  /\ gone \in BOOLEAN
  /\ closed \in BOOLEAN
  /\ copy \in {"call", "blocked", "done"}
  /\ pending \in BOOLEAN
  /\ failed \in BOOLEAN
  /\ tap \in [partial : {"none"} \union (Tokens \ {"nl"}), done : BOOLEAN,
              notified : Seq({"timings", "usage"}), contents : 0..MaxEvents,
              reports : 0..MaxEvents]
  /\ toClient \in Seq(Tokens)
  /\ tracked \in BOOLEAN

\* wrapResponse: the hub registers a local response with its tap.
Wrapped ==
  /\ kind \in Kinds
  /\ sent = <<>> /\ ending = "open" /\ nread = 0
  /\ gone = FALSE /\ closed = FALSE /\ copy = "call"
  /\ pending = FALSE /\ failed = FALSE
  /\ tap = FreshTap /\ toClient = <<>> /\ tracked = (kind # "cloud")

Init == Wrapped

-----------------------------------------------------------------------------
(* The backend.                                                            *)

Count(x, s) == Cardinality({i \in DOMAIN s : s[i] = x})
Terminated == sent # <<>> => Last(sent) = "nl"

\* Generation, then the usage event, then [DONE]; an error at any time.  A JSON
\* body is one object, with the usage or with an error.
SendPayload(x) ==
  /\ kind = "json" => sent = <<>> /\ x \in {"usage", "error"}
  /\ ending = "open" /\ Terminated /\ Len(sent) < 2 * MaxEvents
  /\ x = "timings" => EarlyTimings
  /\ "usage" \in Range(sent) => x \in {"error", "done"}
  /\ "done" \notin Range(sent)
  /\ sent' = Append(sent, x)
  /\ UNCHANGED <<kind, ending, nread, gone, closed, copy, guardVars, tap, toClient, tracked>>

SendNewline ==
  /\ ending = "open" /\ ~Terminated /\ kind # "json"
  /\ sent' = Append(sent, "nl")
  /\ UNCHANGED <<kind, ending, nread, gone, closed, copy, guardVars, tap, toClient, tracked>>

\* The last event may lack its newline, and at a reset its end too; or nothing
\* of it can be read.
BackendEnds(how, cut) ==
  /\ ending = "open"
  /\ ending' = how
  /\ cut => how = "reset" /\ (IF kind = "json" THEN sent = <<>> ELSE Terminated) /\ Len(sent) < 2 * MaxEvents
  /\ sent' = IF cut THEN Append(sent, "cut") ELSE sent
  /\ UNCHANGED <<kind, nread, gone, closed, copy, guardVars, tap, toClient, tracked>>

-----------------------------------------------------------------------------
(* completionTap.                                                          *)

\* handleLine: errors to the guard (the injected one is recognised by its
\* code), content to the stream consumers unless the stream is untracked, and
\* the first data is published.  A payload without its end is read like any
\* other, as far as it goes.
HandleLine(t, line) ==
  LET publishes == ~t.done /\ line \in {"timings", "usage"}
  IN  [t EXCEPT !.reports  = @ + (IF Guarded /\ line = "error" THEN 1 ELSE 0),
                !.contents = @ + (IF line = "content" /\ tracked THEN 1 ELSE 0),
                !.notified = IF publishes THEN Append(@, line) ELSE @,
                !.done     = @ \/ publishes]

\* Mutant: the scan stops once the data is out, guard or not.
FeedStops(t, token) ==
  IF t.done THEN t
  ELSE IF token = "nl" THEN HandleLine([t EXCEPT !.partial = "none"], t.partial)
  ELSE [t EXCEPT !.partial = token]

\* scan, token by token: without a guard it stops once the data is out.
Feed(t, token) ==
  IF t.done /\ ~Guarded THEN t
  ELSE IF token = "nl" THEN HandleLine([t EXCEPT !.partial = "none"], t.partial)
  ELSE [t EXCEPT !.partial = token]

\* The scan of the first n tokens of a piece.
Scanned(t, piece, n) ==
  LET after[i \in 0..n] == IF i = 0 THEN t ELSE Feed(after[i - 1], piece[i])
  IN  after[n]

\* Mutant: a line that was split across two reads loses its first part.
ScanForgets(chunk) == Scanned([tap EXCEPT !.partial = "none"], chunk, Len(chunk))

Scan(chunk) == Scanned(tap, chunk, Len(chunk))

\* Mutant: only lines with a newline count.
FlushTrailingLineSkipped(t) == t

\* At EOF the last line counts without its newline.
FlushTrailingLine(t) == HandleLine([t EXCEPT !.partial = "none"], t.partial)

\* Mutant: only a body that is one JSON object is searched.
PublishFromObject(body) ==
  [tap EXCEPT !.notified = IF body = <<"usage">> THEN body ELSE <<>>]

\* A body that was not announced as a stream is parsed as a whole: as JSON,
\* which finds the first object in it, and if that has no data, line by line.
\* An error is only looked for in the first object.
PublishFromBody(body) ==
  LET data    == {i \in DOMAIN body : body[i] \in {"timings", "usage"}}
      first   == {i \in data : \A j \in data : i <= j}
      isError == data = {} /\ body # <<>> /\ body[1] = "error"
  IN  [tap EXCEPT !.notified = IF data = {} THEN <<>> ELSE <<body[CHOOSE i \in first : TRUE]>>,
                  !.done     = data # {},
                  !.reports  = IF Guarded /\ isError THEN 1 ELSE 0]

\* completionTap.Read, with data and at EOF: a body accumulates until then.
TapData(chunk) == IF IsStream THEN Scan(chunk) ELSE tap

TapEOF(chunk) ==
  IF IsStream THEN FlushTrailingLine(Scan(chunk)) ELSE PublishFromBody(toClient \o chunk)

-----------------------------------------------------------------------------
(* Read, from the copy loop down to the backend's connection.              *)

Unread == SubSeq(sent, nread + 1, Len(sent))

\* Mutant: the error event is never used up.
ServePendingAgain ==
  /\ copy = "call" /\ pending /\ Len(toClient) < 4 * MaxEvents
  /\ tap' = Scan(ErrorEvent)
  /\ toClient' = toClient \o ErrorEvent
  /\ UNCHANGED <<backendVars, nread, gone, closed, copy, guardVars, tracked>>

\* guardBody hands out the error event, and the tap scans it like any data.
ServePending ==
  /\ copy = "call" /\ pending
  /\ pending' = FALSE
  /\ tap' = Scan(ErrorEvent)
  /\ toClient' = toClient \o ErrorEvent
  /\ UNCHANGED <<backendVars, nread, gone, closed, copy, failed, tracked>>

\* The copy loop ends and closes the body: tap, guard and ctxBody.
Finish ==
  /\ copy' = "done"
  /\ closed' = TRUE
  /\ tracked' = FALSE

\* The remembered error is returned and the proxy aborts the response.
ReturnFailed ==
  /\ copy = "call" /\ ~pending /\ failed
  /\ Finish
  /\ UNCHANGED <<backendVars, nread, gone, guardVars, tap, toClient>>

\* ctxBody.Read looks at the context before it reads.
CallInner ==
  /\ copy = "call" /\ ~pending /\ ~failed /\ ~gone
  /\ copy' = "blocked"
  /\ UNCHANGED <<backendVars, nread, gone, closed, guardVars, tap, toClient, tracked>>

\* A cancelled context, or a client that cannot be written to.
AbortCopy ==
  /\ copy = "call" /\ gone
  /\ Finish
  /\ UNCHANGED <<backendVars, nread, gone, guardVars, tap, toClient>>

ReadData(n) ==
  /\ copy = "blocked" /\ ~closed
  /\ nread' = nread + n
  /\ copy' = "call"
  /\ UNCHANGED <<backendVars, gone, closed, guardVars, tracked>>
  /\ LET chunk == SubSeq(Unread, 1, n)
     IN  tap' = TapData(chunk) /\ toClient' = toClient \o chunk

\* EOF, with the last data or after it.
ReadEOF ==
  /\ copy = "blocked" /\ ~closed /\ ending = "eof"
  /\ tap' = TapEOF(Unread)
  /\ toClient' = toClient \o Unread
  /\ nread' = Len(sent)
  /\ Finish
  /\ UNCHANGED <<backendVars, gone, guardVars>>

\* Mutant: an error that comes with the last data is passed on at once.
ReadFailsAtOnce ==
  /\ copy = "blocked" /\ IsStream
  /\ closed \/ ending = "reset"
  /\ LET chunk == IF closed THEN <<>> ELSE Unread
     IN  /\ tap' = Scan(chunk)
         /\ toClient' = toClient \o chunk
         /\ nread' = nread + Len(chunk)
         /\ pending' = (~gone /\ chunk = <<>>)
  /\ failed' = TRUE
  /\ copy' = "call"
  /\ UNCHANGED <<backendVars, gone, closed, tracked>>

\* Any other error, with the last data or after it: guardBody parks it, and
\* unless the client left the error event becomes the next data.
ReadFails ==
  /\ copy = "blocked" /\ IsStream
  /\ closed \/ ending = "reset"
  /\ LET chunk == IF closed THEN <<>> ELSE Unread
     IN  /\ tap' = Scan(chunk)
         /\ toClient' = toClient \o chunk
         /\ nread' = nread + Len(chunk)
  /\ failed' = TRUE
  /\ pending' = ~gone
  /\ copy' = "call"
  /\ UNCHANGED <<backendVars, gone, closed, tracked>>

\* Mutant: the error of a body that nobody guards is taken for its end.
BodyFailsInSilence ==
  /\ copy = "blocked" /\ ~IsStream
  /\ closed \/ ending = "reset"
  /\ LET chunk == IF closed THEN <<>> ELSE Unread
     IN  /\ toClient' = toClient \o chunk
         /\ nread' = nread + Len(chunk)
  /\ Finish
  /\ UNCHANGED <<backendVars, gone, guardVars, tap>>

\* Without guardBody the error ends the copy, and the client's connection.
BodyFails ==
  /\ copy = "blocked" /\ ~IsStream
  /\ closed \/ ending = "reset"
  /\ LET chunk == IF closed THEN <<>> ELSE Unread
     IN  /\ toClient' = toClient \o chunk
         /\ nread' = nread + Len(chunk)
  /\ failed' = TRUE
  /\ Finish
  /\ UNCHANGED <<backendVars, gone, pending, tap>>

\* Mutant: the watcher does not interrupt a read.
WatchBetweenReads ==
  /\ gone /\ ~closed /\ copy # "blocked"
  /\ closed' = TRUE
  /\ UNCHANGED <<backendVars, nread, gone, copy, guardVars, tap, toClient, tracked>>

\* The watcher goroutine of ctxBody closes the body of a client that left.
Watch ==
  /\ gone /\ ~closed
  /\ closed' = TRUE
  /\ UNCHANGED <<backendVars, nread, gone, copy, guardVars, tap, toClient, tracked>>

ClientGone ==
  /\ copy # "done" /\ ~gone
  /\ gone' = TRUE
  /\ UNCHANGED <<backendVars, nread, closed, copy, guardVars, tap, toClient, tracked>>

NextResponse ==
  /\ copy = "done"
  /\ kind' \in Kinds
  /\ sent' = <<>> /\ ending' = "open" /\ nread' = 0
  /\ gone' = FALSE /\ closed' = FALSE /\ copy' = "call"
  /\ pending' = FALSE /\ failed' = FALSE
  /\ tap' = FreshTap /\ toClient' = <<>> /\ tracked' = (kind' # "cloud")

-----------------------------------------------------------------------------
Backend ==
  \/ \E x \in Payloads : SendPayload(x)
  \/ SendNewline
  \/ \E how \in {"eof", "reset"}, cut \in BOOLEAN : BackendEnds(how, cut)

CopyLoop ==
  \/ ServePending \/ ReturnFailed \/ CallInner \/ AbortCopy
  \/ \E n \in 1..Len(Unread) : ReadData(n)
  \/ ReadEOF \/ ReadFails \/ BodyFails

Next == Backend \/ CopyLoop \/ Watch \/ ClientGone \/ NextResponse

\* The copy loop and the watcher run; the backend may stay silent for ever.
Fairness == WF_vars(CopyLoop) /\ WF_vars(Watch)

Spec == Init /\ [][Next]_vars
FairSpec == Spec /\ Fairness

-----------------------------------------------------------------------------
(* Properties.                                                             *)

\* The copy loop ended, and not because the client left.
Delivered == copy = "done" /\ ~gone

\* How the response ended for the client.
Outcome ==
  IF copy # "done" THEN "open" ELSE IF failed \/ gone THEN "aborted" ELSE "complete"

Response == INSTANCE Delivery WITH Mark <- ErrorEvent, announced <- IsStream, text <- sent,
                                   got <- toClient, left <- gone, outcome <- Outcome

\* Step by step the pipeline does what a delivery may do: nothing is taken back
\* or comes twice, the error event comes once and behind all the backend sent,
\* and a connection ends as complete or aborted for the reason that the backend
\* or the client gave (streamerror.go:23-47, proxy.go:286-315).
DeliversResponse == Response!Spec

\* The client sees what the backend sent, in order and without a gap; at most
\* one error event follows, only when the connection broke, and never inside
\* a line (streamerror.go:23-30, 32-39).
ClientStreamFaithful ==
  \/ toClient = SubSeq(sent, 1, nread)
  \/ /\ toClient = SubSeq(sent, 1, nread) \o ErrorEvent
     /\ ending = "reset" /\ nread = Len(sent)

\* An interruption is never taken for a normal end: the connection of a client
\* that is still there is aborted, after the error event when the response is
\* an announced stream; and else the client got everything.
InterruptionIsTold ==
  Delivered => IF ending = "reset"
                 THEN failed /\ (IsStream => "injected" \in Range(toClient))
                 ELSE toClient = sent

\* A completion whose usage arrived, from the cloud or not, announced as a
\* stream or not, is accounted exactly once and with the usage: "a usage chunk
\* sent as the final, unterminated event is still counted" (README.md:233), "the
\* line that carries the usage publishes the observation"
\* (completion.go:203-204).
UsageCounted ==
  Delivered /\ ending = "eof" /\ "usage" \in Range(sent) => tap.notified = <<"usage">>

\* The watchdog judges all of the content a local stream brought to the client,
\* and errguard learns of every error event of the local backend once, whether it
\* came to its end or broke off behind what gjson needs, before or behind the
\* usage, with or without a last newline, and never of the event the supervisor
\* made up itself (completion.go:221-223).  Neither hears of a cloud completion.
ConsumersFed ==
  Delivered => /\ kind = "local" => tap.contents = Count("content", sent)
               /\ Guard /\ (kind = "local" \/ (kind = "json" /\ ending = "eof"))
                    => tap.reports = Count("error", sent)
               /\ kind = "cloud" => tap.contents = 0 /\ tap.reports = 0

\* When the client leaves, the response does not outlive it, even if the
\* backend goes silent: the copy ends and the stream is unregistered.
GoneClientReleases == gone ~> copy = "done" /\ ~tracked
=============================================================================
