---------------------------- MODULE AnthropicRelay ----------------------------
(***************************************************************************)
(* The clients of StreamPipeline: one that asked for the completion itself, *)
(* or a streamed POST /v1/messages (src/internal/anthropic/), whose handler *)
(* asks the supervisor for an OpenAI stream and turns what arrives on the   *)
(* loopback connection into Anthropic events.                               *)
(*                                                                          *)
(* The conversion of a chunk is a library: content gives a delta, the      *)
(* usage event ends the message, and nothing comes after that.             *)
(***************************************************************************)
EXTENDS StreamPipeline

VARIABLES
  left,     \* the client of /v1/messages left
  relay,    \* serveStream: reading, done; none for a client of its own
  nscan,    \* how many tokens of "toClient" the scanner consumed
  events,   \* what was written to the client
  behind    \* net/http holds back events that were written

relayVars == <<left, relay, nscan, events, behind>>
allVars == <<vars, relayVars>>

RelayTypeOK ==
  /\ TypeOK
  /\ left \in BOOLEAN
  /\ relay \in {"reading", "done", "none"}
  /\ nscan \in 0..Len(toClient)
  /\ events \in Seq({"delta", "stop", "error"}) /\ Len(events) <= MaxEvents + 1
  /\ behind \in BOOLEAN

\* The self request is served by a local stream; to the handler one from the
\* cloud looks the same.
Asked ==
  /\ left = FALSE /\ nscan = 0 /\ events = <<>> /\ behind = FALSE
  /\ relay \in {"reading", "none"}
  /\ relay = "reading" => kind = "local"

RelayInit == Init /\ Asked

-----------------------------------------------------------------------------
(* serveStream.                                                            *)

Unscanned == SubSeq(toClient, nscan + 1, Len(toClient))

\* Mutant: a last line without a newline is waited for.
LinesScannedOnly ==
  LET ends == {i \in DOMAIN Unscanned : Unscanned[i] = "nl"}
  IN  {i \in ends : \A j \in ends : i <= j}

\* Where the next line ends: at its newline, or where the stream ends.
LineEnds ==
  LET ends == {i \in DOMAIN Unscanned : Unscanned[i] = "nl"}
  IN  IF ends = {}
        THEN IF copy = "done" THEN {Len(Unscanned)} \ {0} ELSE {}
        ELSE {i \in ends : \A j \in ends : i <= j}

Stopped == "stop" \in Range(events)

\* FinalizeStreamResponse.
Finalized == IF Stopped THEN events ELSE Append(events, "stop")

\* Neither writer of events finds a Flusher behind statusRecorder: what is
\* written may stay in net/http until the buffer fills.
Write(es) ==
  /\ events' = es
  /\ behind' \in IF es = events THEN {behind} ELSE BOOLEAN

\* The handler returns: net/http sends the rest.
ReturnFrom(es) ==
  /\ relay' = "done"
  /\ events' = es
  /\ behind' = FALSE

Converted(line) ==
  CASE line = "content" /\ ~Stopped -> Append(events, "delta")
    [] line = "usage" -> Finalized
    [] OTHER -> events

\* What json.Unmarshal makes of a line: a payload that the reset cut does not
\* parse, even if gjson could read it.
Parsed(line) ==
  {line} \union (IF ending = "reset" /\ nscan + 1 = Len(sent) THEN {"cut"} ELSE {})

\* Mutant: an error event ends the loop like [DONE].
RelayLineBreaks(end) ==
  LET line == Unscanned[1]
  IN  /\ relay = "reading" /\ end \in LineEnds
      /\ nscan' = nscan + end
      /\ IF line \in {"error", "injected", "done"}
           THEN ReturnFrom(Finalized)
           ELSE UNCHANGED relay /\ \E read \in Parsed(line) : Write(Converted(read))
      /\ UNCHANGED <<vars, left>>

\* One turn of the scan loop; what does not parse is skipped.
RelayLine(end) ==
  LET line == Unscanned[1]
  IN  /\ relay = "reading" /\ end \in LineEnds
      /\ nscan' = nscan + end
      /\ IF line \in {"error", "injected"}
           THEN ReturnFrom(Append(events, "error"))
           ELSE IF line = "done"
                  THEN ReturnFrom(Finalized)
                  ELSE UNCHANGED relay /\ \E read \in Parsed(line) : Write(Converted(read))
      /\ UNCHANGED <<vars, left>>

\* Mutant: what the scanner still holds when the stream ends is dropped.
UpstreamEndsAtOnce ==
  /\ relay = "reading" /\ copy = "done"
  /\ ReturnFrom(IF failed \/ gone THEN events ELSE Finalized)
  /\ UNCHANGED <<vars, left, nscan>>

\* Mutant: the stream is not closed when it ends without a terminal event.
UpstreamEndsOpen ==
  /\ relay = "reading" /\ copy = "done" /\ Unscanned = <<>>
  /\ ReturnFrom(events)
  /\ UNCHANGED <<vars, left, nscan>>

\* The self stream ended; if it broke, the scanner says so.
UpstreamEnds ==
  /\ relay = "reading" /\ copy = "done" /\ Unscanned = <<>>
  /\ ReturnFrom(IF failed \/ gone THEN events ELSE Finalized)
  /\ UNCHANGED <<vars, left, nscan>>

\* A write to a client that left fails, and so does a read for it.
RelayAborts ==
  /\ relay = "reading" /\ left
  /\ ReturnFrom(events)
  /\ UNCHANGED <<vars, left, nscan>>

ServeStream == (\E end \in LineEnds : RelayLine(end)) \/ UpstreamEnds \/ RelayAborts

\* Mutant: the handler returns without closing the body of its request.
InnerCancelledOnLeave ==
  /\ left
  /\ ClientGone
  /\ UNCHANGED relayVars

\* The self request is bound to the client's context, and its body is closed
\* when the handler returns: the pipeline sees its client leave.
InnerCancelled ==
  /\ left \/ relay = "done"
  /\ ClientGone
  /\ UNCHANGED relayVars

\* The client of the completion or of the message leaves.
ClientLeaves ==
  \/ relay = "none" /\ ClientGone /\ UNCHANGED relayVars
  \/ /\ relay = "reading" /\ ~left
     /\ left' = TRUE
     /\ UNCHANGED <<vars, relay, nscan, events, behind>>

NextMessage ==
  /\ relay # "reading"
  /\ NextResponse
  /\ left' = FALSE /\ nscan' = 0 /\ events' = <<>> /\ behind' = FALSE
  /\ relay' \in {"reading", "none"}
  /\ relay' = "reading" => kind' = "local"

-----------------------------------------------------------------------------
Pipeline == (Backend \/ CopyLoop \/ Watch) /\ UNCHANGED relayVars

RelayNext == Pipeline \/ ServeStream \/ InnerCancelled \/ ClientLeaves \/ NextMessage

RelayFairness ==
  /\ WF_allVars(UNCHANGED relayVars /\ CopyLoop)
  /\ WF_allVars(UNCHANGED relayVars /\ Watch)
  /\ WF_allVars(ServeStream)
  /\ WF_allVars(InnerCancelled)

RelaySpec == RelayInit /\ [][RelayNext]_allVars /\ RelayFairness

-----------------------------------------------------------------------------
(* Properties.                                                             *)

\* The handler returned to a client that is still there.
Served == relay = "done" /\ ~left

\* The client is never left without a terminal event ("close the stream so the
\* client never hangs", stream.go:82-83), and an error is the last event.
MessageTerminated ==
  /\ Served => events # <<>> /\ Last(events) \in {"stop", "error"}
  /\ \A i \in DOMAIN events : events[i] = "error" => i = Len(events) /\ relay = "done"

\* A stream that broke is not presented as a message that ended: a stop is only
\* made up when the backend closed the stream itself.  A message that ended
\* carries all of the content, and the line in which the backend forgot the
\* newline too.
StopIsEarned ==
  /\ Stopped => ending = "eof" \/ {"usage", "done"} \intersect Range(sent) # {}
  /\ Served /\ Last(events) = "stop" => Count("delta", events) = Count("content", sent)

\* A backend that ends, however it does, lets the handler return ("so the
\* client never hangs"); and whoever gives up first, client or handler, the
\* stream from the backend is released, even if the backend goes silent.
MessageEnds ==
  /\ ending # "open" ~> relay # "reading"
  /\ left \/ relay = "done" ~> ~tracked

\* An event reaches the client without waiting for the next one ("writes it to
\* the client as it arrives", stream.go:25-26).
EventsArrive == behind ~> ~behind
===============================================================================
