------------------------- MODULE AnthropicRelay_proofs -------------------------
(***************************************************************************)
(* Theorems about StreamPipeline and about its composition AnthropicRelay, *)
(* for responses of any length: the client of a response sees what the     *)
(* backend sent and never takes an interruption for a normal end; what the *)
(* pipeline promises holds with every reader of it; and a client of        *)
(* /v1/messages that stays always gets a terminal event.  The last rests   *)
(* on the first: the handler may only return in silence when the stream    *)
(* broke, and then the error event is in front of it, at the start of a    *)
(* line that it cannot have passed.  Step by step the pipeline implements  *)
(* Delivery.                                                               *)
(***************************************************************************)
EXTENDS AnthropicRelay, RecursionTheorems, SequenceTheorems, FiniteSetTheorems, TLAPS

-----------------------------------------------------------------------------
(* Sequences that are handed on piece by piece.                            *)

\* What was read of the response.
Copied == SubSeq(sent, 1, nread)

LEMMA CopiedGrows ==
  ASSUME NEW S, NEW s \in Seq(S), NEW k \in 0..Len(s), NEW x \in S
  PROVE  SubSeq(Append(s, x), 1, k) = SubSeq(s, 1, k)
<1>1. Append(s, x) \in Seq(S) /\ Len(Append(s, x)) = Len(s) + 1
      /\ \A i \in 1..Len(s) : Append(s, x)[i] = s[i]
  BY AppendProperties
<1> DEFINE a == SubSeq(Append(s, x), 1, k)
           b == SubSeq(s, 1, k)
<1>2. \A i \in 1..k : s[i] \in S /\ Append(s, x)[i] \in S
  BY <1>1, ElementOfSeq
<1>3. a \in Seq(S) /\ Len(a) = k /\ \A i \in 1..k : a[i] = Append(s, x)[i]
  BY <1>2, SubSeqProperties, LenProperties
<1>4. b \in Seq(S) /\ Len(b) = k /\ \A i \in 1..k : b[i] = s[i]
  BY <1>2, SubSeqProperties, LenProperties
<1>5. Len(a) = Len(b) /\ \A i \in 1..Len(a) : a[i] = b[i]
  BY <1>1, <1>3, <1>4, LenProperties
<1> HIDE DEF a, b
<1>6. a = b
  BY <1>3, <1>4, <1>5, SeqEqual
<1>7. QED
  BY <1>6 DEF a, b

LEMMA CopiedReads ==
  ASSUME NEW S, NEW s \in Seq(S), NEW k \in 0..Len(s), NEW n \in 0..Len(s) - k
  PROVE  LET rest == SubSeq(s, k + 1, Len(s))
         IN  /\ rest \in Seq(S) /\ Len(rest) = Len(s) - k
             /\ SubSeq(rest, 1, n) \in Seq(S)
             /\ Len(SubSeq(rest, 1, n)) = n
             /\ SubSeq(s, 1, k) \o SubSeq(rest, 1, n) = SubSeq(s, 1, k + n)
<1> DEFINE rest == SubSeq(s, k + 1, Len(s))
           part == SubSeq(rest, 1, n)
           head == SubSeq(s, 1, k)
           more == SubSeq(s, 1, k + n)
<1>0. Len(s) \in Nat
  BY LenProperties
<1>1. \A i \in 1..Len(s) : s[i] \in S
  BY ElementOfSeq
<1>2. /\ rest \in Seq(S) /\ Len(rest) = Len(s) - k
      /\ \A i \in 1..Len(s) - k : rest[i] = s[k + i]
  <2>1. \A i \in k + 1..Len(s) : s[i] \in S
    BY <1>0, <1>1
  <2>2. /\ rest \in Seq(S)
        /\ Len(rest) = IF k + 1 <= Len(s) THEN Len(s) - (k + 1) + 1 ELSE 0
        /\ \A i \in 1..Len(s) - (k + 1) + 1 : rest[i] = s[(k + 1) + i - 1]
    BY <1>0, <2>1, SubSeqProperties
  <2> HIDE DEF rest
  <2>3. QED
    BY <1>0, <2>2
<1>3. /\ part \in Seq(S) /\ Len(part) = n
      /\ \A i \in 1..n : part[i] = s[k + i]
  <2> HIDE DEF rest
  <2>1. \A i \in 1..n : rest[i] \in S
    BY <1>0, <1>1, <1>2
  <2>2. /\ part \in Seq(S)
        /\ Len(part) = IF 1 <= n THEN n - 1 + 1 ELSE 0
        /\ \A i \in 1..n - 1 + 1 : part[i] = rest[1 + i - 1]
    BY <1>0, <2>1, SubSeqProperties
  <2> HIDE DEF part
  <2>3. QED
    BY <1>0, <1>2, <2>2
<1>4. /\ head \in Seq(S) /\ Len(head) = k
      /\ \A i \in 1..k : head[i] = s[i]
  <2>1. /\ head \in Seq(S)
        /\ Len(head) = IF 1 <= k THEN k - 1 + 1 ELSE 0
        /\ \A i \in 1..k - 1 + 1 : head[i] = s[1 + i - 1]
    BY <1>0, <1>1, SubSeqProperties
  <2> HIDE DEF head
  <2>2. QED
    BY <1>0, <2>1
<1>5. /\ more \in Seq(S) /\ Len(more) = k + n
      /\ \A i \in 1..k + n : more[i] = s[i]
  <2>1. /\ more \in Seq(S)
        /\ Len(more) = IF 1 <= k + n THEN (k + n) - 1 + 1 ELSE 0
        /\ \A i \in 1..(k + n) - 1 + 1 : more[i] = s[1 + i - 1]
    BY <1>0, <1>1, SubSeqProperties
  <2> HIDE DEF more
  <2>2. QED
    BY <1>0, <2>1
<1> HIDE DEF rest, part, head, more
<1>6. /\ head \o part \in Seq(S) /\ Len(head \o part) = k + n
      /\ \A i \in 1..k + n : (head \o part)[i] = IF i <= k THEN head[i] ELSE part[i - k]
  BY <1>3, <1>4, ConcatProperties
<1>7. \A i \in 1..k + n : (head \o part)[i] = more[i]
  <2> TAKE i \in 1..k + n
  <2>1. CASE i <= k
    BY <2>1, <1>0, <1>4, <1>5, <1>6
  <2>2. CASE i > k
    <3>1. i - k \in 1..n /\ k + (i - k) = i
      BY <2>2, <1>0
    <3>2. QED
      BY <3>1, <2>2, <1>3, <1>5, <1>6
  <2>3. i <= k \/ i > k
    BY <1>0
  <2>4. QED
    BY <2>1, <2>2, <2>3
<1>8. head \o part = more
  BY <1>5, <1>6, <1>7, SeqEqual
<1>9. QED
  BY <1>2, <1>3, <1>8 DEF rest, part, head, more

LEMMA ErrorEventIs ==
  /\ ErrorEvent \in Seq(Tokens) /\ Len(ErrorEvent) = 5
  /\ ErrorEvent[3] = "injected"
  /\ \A i \in {1, 2, 4, 5} : ErrorEvent[i] = "nl"
BY DEF ErrorEvent, Tokens

-----------------------------------------------------------------------------
(* The inductive invariant.                                                *)

Types ==
  /\ kind \in Kinds
  /\ sent \in Seq(Tokens) /\ nread \in 0..Len(sent) /\ toClient \in Seq(Tokens)
  /\ ending \in {"open", "eof", "reset"}
  /\ gone \in BOOLEAN /\ closed \in BOOLEAN /\ pending \in BOOLEAN /\ failed \in BOOLEAN
  /\ copy \in {"call", "blocked", "done"}

\* The client has what was read, and nothing else.
Clean == toClient = Copied

\* The client has all of a broken stream and the error event.
Told ==
  /\ toClient = Copied \o ErrorEvent
  /\ ending = "reset" /\ nread = Len(sent)
  /\ failed /\ ~pending

\* Which error can be on its way where.
Failures ==
  /\ closed => gone \/ copy = "done"
  /\ copy = "blocked" => ~failed
  /\ pending => failed /\ Clean /\ ending = "reset" /\ nread = Len(sent)
  /\ failed => ending = "reset" \/ gone
  /\ failed /\ copy # "done" => IsStream
  /\ failed /\ IsStream /\ ~pending /\ ~gone => Told

\* How a copy may end with its client there.
Endings ==
  copy = "done" /\ ~gone =>
    /\ ending # "open"
    /\ ending = "reset" => failed /\ ~pending
    /\ ending = "eof" => toClient = sent

PipelineInv == Types /\ (Clean \/ Told) /\ Failures /\ Endings

LEMMA PipelineInit == Init => PipelineInv
<1> SUFFICES ASSUME Init PROVE PipelineInv
  OBVIOUS
<1>1. Types
  <2>1. sent = <<>> /\ toClient = <<>> /\ nread = 0
    BY DEF Init, Wrapped
  <2>2. sent \in Seq(Tokens) /\ toClient \in Seq(Tokens) /\ Len(sent) = 0
    BY <2>1, EmptySeq
  <2>3. nread \in 0..Len(sent)
    BY <2>1, <2>2
  <2>4. /\ kind \in Kinds /\ ending = "open" /\ copy = "call"
        /\ gone = FALSE /\ closed = FALSE /\ pending = FALSE /\ failed = FALSE
    BY DEF Init, Wrapped
  <2>5. QED
    BY <2>2, <2>3, <2>4 DEF Types
<1>2. Clean
  BY DEF Init, Wrapped, Clean, Copied
<1>3. QED
  BY <1>1, <1>2 DEF Init, Wrapped, PipelineInv, Failures, Endings

\* The backend changes nothing that was read.
LEMMA BackendKeeps == PipelineInv /\ Backend => PipelineInv'
<1> SUFFICES ASSUME PipelineInv, Backend PROVE PipelineInv'
  OBVIOUS
<1> DEFINE Sends == /\ ending = "open" /\ ending' \in {"open", "eof", "reset"}
                    /\ sent' = sent \/ \E x \in Tokens : sent' = Append(sent, x)
                    /\ kind' = kind /\ nread' = nread /\ gone' = gone /\ closed' = closed
                    /\ copy' = copy /\ pending' = pending /\ failed' = failed
                    /\ toClient' = toClient
<1>1. Sends
  <2>1. ASSUME NEW x \in Payloads, SendPayload(x) PROVE Sends
    BY <2>1 DEF SendPayload, Tokens, guardVars
  <2>2. CASE SendNewline
    BY <2>2 DEF SendNewline, Tokens, guardVars
  <2>3. ASSUME NEW how \in {"eof", "reset"}, NEW cut \in BOOLEAN, BackendEnds(how, cut) PROVE Sends
    BY <2>3 DEF BackendEnds, Tokens, guardVars
  <2>4. QED
    BY <2>1, <2>2, <2>3 DEF Backend
<1>2. Types'
  BY <1>1, AppendProperties DEF PipelineInv, Types
<1>3. Copied' = Copied
  BY <1>1, CopiedGrows DEF PipelineInv, Types, Copied
<1>4. ~Told /\ ~pending /\ (failed => gone) /\ ~(copy = "done" /\ ~gone)
  BY <1>1 DEF PipelineInv, Told, Failures, Endings
<1>5. Clean'
  BY <1>1, <1>3, <1>4 DEF PipelineInv, Clean
<1>6. Failures' /\ Endings'
  BY <1>1, <1>4 DEF PipelineInv, Failures, Endings, IsStream
<1>7. QED
  BY <1>2, <1>5, <1>6 DEF PipelineInv

\* What a read with n tokens does to the copy.
LEMMA ReadCopies ==
  ASSUME Types, Clean, NEW n \in 0..Len(Unread)
  PROVE  /\ Len(Unread) = Len(sent) - nread
         /\ SubSeq(Unread, 1, n) \in Seq(Tokens) /\ Len(SubSeq(Unread, 1, n)) = n
         /\ nread + n \in 0..Len(sent)
         /\ toClient \o SubSeq(Unread, 1, n) \in Seq(Tokens)
         /\ toClient \o SubSeq(Unread, 1, n) = SubSeq(sent, 1, nread + n)
<1>0. Len(sent) \in Nat /\ sent \in Seq(Tokens) /\ nread \in 0..Len(sent)
  BY LenProperties DEF Types
<1>1. Len(Unread) = Len(sent) - nread
  BY <1>0, CopiedReads, 0 \in 0..Len(sent) - nread DEF Unread
<1>2. n \in 0..Len(sent) - nread
  BY <1>1
<1>3. /\ SubSeq(Unread, 1, n) \in Seq(Tokens) /\ Len(SubSeq(Unread, 1, n)) = n
      /\ SubSeq(sent, 1, nread) \o SubSeq(Unread, 1, n) = SubSeq(sent, 1, nread + n)
  BY <1>0, <1>2, CopiedReads DEF Unread
<1>4. QED
  BY <1>0, <1>1, <1>2, <1>3, ConcatProperties DEF Clean, Copied, Types

\* The same for all there is.
LEMMA ReadCopiesAll ==
  ASSUME Types, Clean
  PROVE  /\ Unread \in Seq(Tokens)
         /\ nread + Len(Unread) = Len(sent)
         /\ toClient \o Unread = SubSeq(sent, 1, Len(sent))
         /\ toClient \o Unread = sent
<1>0. Len(sent) \in Nat /\ sent \in Seq(Tokens) /\ nread \in 0..Len(sent)
  BY LenProperties DEF Types
<1>1. Unread \in Seq(Tokens) /\ Len(Unread) = Len(sent) - nread
  BY <1>0, CopiedReads, 0 \in 0..Len(sent) - nread DEF Unread
<1>2. SubSeq(Unread, 1, Len(Unread)) = Unread
  BY <1>1, SubSeqFull
<1>3. Len(Unread) \in 0..Len(Unread)
  BY <1>0, <1>1
<1>4. toClient \o Unread = SubSeq(sent, 1, nread + Len(Unread))
  BY <1>2, <1>3, ReadCopies
<1>5. nread + Len(Unread) = Len(sent)
  BY <1>0, <1>1
<1>6. QED
  BY <1>0, <1>1, <1>4, <1>5, SubSeqFull

\* The parts that only look at the phase of the copy.
LEMMA CopyLoopKeeps == PipelineInv /\ CopyLoop => PipelineInv'
<1> SUFFICES ASSUME PipelineInv, CopyLoop PROVE PipelineInv'
  OBVIOUS
<1> USE DEF guardVars, backendVars
<1>0. Types /\ (Clean \/ Told) /\ Failures /\ Endings
  BY DEF PipelineInv
<1>1. CASE ServePending
  <2>1. Clean /\ ending = "reset" /\ nread = Len(sent) /\ failed
    BY <1>0, <1>1 DEF ServePending, Failures
  <2>2. /\ toClient' = Copied' \o ErrorEvent
        /\ failed' /\ ~pending' /\ ending' = "reset" /\ nread' = Len(sent')
    BY <1>1, <2>1 DEF ServePending, Clean, Copied
  <2>3. Told'
    BY <2>2 DEF Told
  <2>4. toClient' \in Seq(Tokens)
    BY <1>0, <1>1, ErrorEventIs, ConcatProperties DEF ServePending, Types
  <2>5. Types'
    BY <1>0, <1>1, <2>4 DEF ServePending, Types
  <2>6. Failures'
    BY <1>0, <1>1, <2>1, <2>3 DEF ServePending, Failures, IsStream
  <2>7. Endings'
    BY <1>1 DEF ServePending, Endings
  <2>8. QED
    BY <2>3, <2>5, <2>6, <2>7 DEF PipelineInv
<1>2. CASE ReturnFailed \/ AbortCopy
  <2>1. /\ copy = "call" /\ copy' = "done" /\ closed' = TRUE
        /\ UNCHANGED <<kind, sent, ending, nread, gone, pending, failed, toClient>>
        /\ (~pending /\ failed) \/ gone
    BY <1>2 DEF ReturnFailed, AbortCopy, Finish
  <2>2. Types'
    BY <1>0, <2>1 DEF Types
  <2>3. Clean' \/ Told'
    BY <1>0, <2>1 DEF Clean, Told, Copied
  <2>4. Failures'
    BY <1>0, <2>1 DEF Failures, Clean, Told, Copied, IsStream
  <2>5. Endings'
    BY <1>0, <2>1 DEF Failures, Endings, Told
  <2>6. QED
    BY <2>2, <2>3, <2>4, <2>5 DEF PipelineInv
<1>3. CASE CallInner
  <2>1. /\ copy' = "blocked" /\ ~pending /\ ~failed
        /\ UNCHANGED <<kind, sent, ending, nread, gone, closed, pending, failed, toClient>>
    BY <1>3 DEF CallInner
  <2>2. Types'
    BY <1>0, <2>1 DEF Types
  <2>3. Clean' /\ Endings'
    BY <1>0, <2>1 DEF Clean, Told, Copied, Endings
  <2>4. Failures'
    BY <1>0, <1>3, <2>1 DEF CallInner, Failures
  <2>5. QED
    BY <2>2, <2>3, <2>4 DEF PipelineInv
<1>4. ASSUME NEW n \in 1..Len(Unread), ReadData(n) PROVE PipelineInv'
  <2>1. ~failed /\ ~pending /\ Clean /\ ~closed
    BY <1>0, <1>4 DEF ReadData, Failures, Told
  <2>2. n \in 0..Len(Unread)
    OBVIOUS
  <2>3. /\ nread' = nread + n /\ toClient' = toClient \o SubSeq(Unread, 1, n)
        /\ copy' = "call"
        /\ UNCHANGED <<kind, sent, ending, gone, closed, pending, failed>>
    BY <1>4 DEF ReadData
  <2>4. /\ nread' \in 0..Len(sent') /\ toClient' \in Seq(Tokens)
        /\ toClient' = SubSeq(sent', 1, nread')
    BY <1>0, <2>1, <2>2, <2>3, ReadCopies
  <2>5. Types' /\ Clean'
    BY <1>0, <2>3, <2>4 DEF Types, Clean, Copied
  <2>6. Failures' /\ Endings'
    BY <1>0, <2>1, <2>3 DEF Failures, Endings
  <2>7. QED
    BY <2>5, <2>6 DEF PipelineInv
<1>5. CASE ReadEOF
  <2>1. ~failed /\ ~pending /\ Clean
    BY <1>0, <1>5 DEF ReadEOF, Failures, Told
  <2>2. /\ nread' = Len(sent) /\ toClient' = toClient \o Unread
        /\ copy' = "done" /\ closed' = TRUE /\ ending = "eof"
        /\ UNCHANGED <<kind, sent, ending, gone, pending, failed>>
    BY <1>5 DEF ReadEOF, Finish
  <2>3. toClient' = sent /\ toClient' = SubSeq(sent, 1, Len(sent))
    BY <1>0, <2>1, <2>2, ReadCopiesAll
  <2>4. nread' \in 0..Len(sent')
    BY <1>0, <2>2, LenProperties DEF Types
  <2>5. Types' /\ Clean'
    BY <1>0, <2>2, <2>3, <2>4 DEF Types, Clean, Copied
  <2>6. Failures' /\ Endings'
    BY <1>0, <2>1, <2>2, <2>3 DEF Failures, Endings
  <2>7. QED
    BY <2>5, <2>6 DEF PipelineInv
<1>6. CASE ReadFails \/ BodyFails
  <2>1. ~failed /\ ~pending /\ Clean /\ copy = "blocked"
    BY <1>0, <1>6 DEF ReadFails, BodyFails, Failures, Told
  <2>2. /\ failed' = TRUE
        /\ closed \/ ending = "reset"
        /\ UNCHANGED <<kind, sent, ending, gone>>
        /\ closed => (nread' = nread + Len(<<>>) /\ toClient' = toClient \o <<>>)
        /\ ~closed => (nread' = nread + Len(Unread) /\ toClient' = toClient \o Unread)
    BY <1>6 DEF ReadFails, BodyFails
  <2>3. closed => gone
    BY <1>0, <2>1 DEF Failures
  <2>4. /\ toClient' \in Seq(Tokens) /\ nread' \in 0..Len(sent)
        /\ toClient' = SubSeq(sent, 1, nread')
        /\ ~closed => (nread' = Len(sent) /\ toClient' = sent)
    <3>1. CASE closed
      <4>1. Len(<<>>) = 0 /\ toClient \o <<>> = toClient
        BY <1>0, ConcatEmptySeq DEF Types
      <4>2. QED
        BY <1>0, <2>1, <2>2, <3>1, <4>1 DEF Types, Clean, Copied
    <3>2. CASE ~closed
      <4>1. Len(sent) \in Nat
        BY <1>0, LenProperties DEF Types
      <4>2. nread' = Len(sent) /\ toClient' = sent /\ toClient' = SubSeq(sent, 1, Len(sent))
        BY <1>0, <2>1, <2>2, <3>2, ReadCopiesAll
      <4>3. QED
        BY <1>0, <3>2, <4>1, <4>2 DEF Types
    <3>3. QED
      BY <3>1, <3>2
  <2>5. Clean'
    BY <2>2, <2>4 DEF Clean, Copied
  <2>6. CASE ReadFails
    <3>1. /\ IsStream /\ copy' = "call" /\ pending' = ~gone
          /\ UNCHANGED closed
      BY <2>6 DEF ReadFails
    <3>2. Types'
      <4>1. nread' \in 0..Len(sent') /\ toClient' \in Seq(Tokens)
        BY <2>2, <2>4
      <4>2. pending' \in BOOLEAN /\ failed' \in BOOLEAN /\ closed' \in BOOLEAN
        BY <1>0, <2>2, <3>1 DEF Types
      <4>3. QED
        BY <1>0, <2>2, <3>1, <4>1, <4>2 DEF Types
    <3>3. Failures'
      <4>1. pending' => ~gone /\ ~closed /\ ending' = "reset" /\ nread' = Len(sent')
        BY <2>2, <2>3, <2>4, <3>1
      <4>2. ~pending' => gone'
        BY <2>2, <3>1
      <4>3. failed' => ending' = "reset" \/ gone'
        BY <2>2, <2>3
      <4>4. closed' => gone'
        BY <2>2, <2>3, <3>1
      <4>5. IsStream'
        BY <2>2, <3>1 DEF IsStream
      <4>6. QED
        BY <2>2, <2>5, <3>1, <4>1, <4>2, <4>3, <4>4, <4>5 DEF Failures
    <3>4. Endings'
      BY <3>1 DEF Endings
    <3>5. QED
      BY <2>5, <3>2, <3>3, <3>4 DEF PipelineInv
  <2>7. CASE BodyFails
    <3>1. /\ ~IsStream /\ copy' = "done" /\ closed' = TRUE /\ UNCHANGED pending
      BY <2>7 DEF BodyFails, Finish
    <3>2. Types'
      <4>1. nread' \in 0..Len(sent') /\ toClient' \in Seq(Tokens)
        BY <2>2, <2>4
      <4>2. QED
        BY <1>0, <2>2, <3>1, <4>1 DEF Types
    <3>3. Failures'
      BY <1>0, <2>1, <2>2, <2>3, <3>1 DEF Failures, IsStream
    <3>4. Endings'
      <4>1. ~gone' => ending' = "reset"
        BY <2>2, <2>3
      <4>2. failed' /\ ~pending'
        BY <2>1, <2>2, <3>1
      <4>3. QED
        BY <4>1, <4>2 DEF Endings
    <3>5. QED
      BY <2>5, <3>2, <3>3, <3>4 DEF PipelineInv
  <2>8. QED
    BY <1>6, <2>6, <2>7
<1>7. QED
  BY <1>1, <1>2, <1>3, <1>4, <1>5, <1>6 DEF CopyLoop

\* The client that leaves, and what the watcher does about it.
LEMMA LeavingKeeps == PipelineInv /\ (Watch \/ ClientGone) => PipelineInv'
<1> SUFFICES ASSUME PipelineInv, Watch \/ ClientGone PROVE PipelineInv'
  OBVIOUS
<1>1. /\ UNCHANGED <<kind, sent, ending, nread, copy, pending, failed, toClient>>
      /\ gone' = TRUE /\ closed' \in BOOLEAN
  BY DEF Watch, ClientGone, backendVars, guardVars, PipelineInv, Types
<1>2. Types' /\ (Clean' \/ Told') /\ Failures' /\ Endings'
  BY <1>1 DEF PipelineInv, Types, Clean, Told, Copied, Failures, Endings, IsStream
<1>3. QED
  BY <1>2 DEF PipelineInv

LEMMA NextResponseKeeps == PipelineInv /\ NextResponse => PipelineInv'
<1> SUFFICES ASSUME NextResponse PROVE PipelineInv'
  OBVIOUS
<1>1. Init'
  BY DEF NextResponse, Init, Wrapped
<1>2. QED
  BY <1>1, PipelineInit, PTL

LEMMA PipelineStep == PipelineInv /\ [Next]_vars => PipelineInv'
<1> SUFFICES ASSUME PipelineInv, [Next]_vars PROVE PipelineInv'
  OBVIOUS
<1>1. CASE UNCHANGED vars
  BY <1>1 DEF vars, backendVars, guardVars, PipelineInv, Types, Clean, Told, Copied, Failures,
              Endings, IsStream
<1>2. QED
  BY <1>1, BackendKeeps, CopyLoopKeeps, LeavingKeeps, NextResponseKeeps DEF Next

LEMMA PipelineInvariant == Spec => []PipelineInv
<1>1. QED
  BY PipelineInit, PipelineStep, PTL DEF Spec

-----------------------------------------------------------------------------
(* The theorems.                                                           *)

LEMMA FaithfulInv == PipelineInv => ClientStreamFaithful
BY DEF PipelineInv, Clean, Told, Copied, ClientStreamFaithful

LEMMA ToldInv == PipelineInv => InterruptionIsTold
<1> SUFFICES ASSUME PipelineInv, Delivered, ending = "reset", IsStream
             PROVE  "injected" \in Range(toClient)
  <2>1. PipelineInv /\ Delivered => ending \in {"eof", "reset"}
    BY DEF PipelineInv, Types, Endings, Delivered
  <2>2. QED
    BY <2>1 DEF PipelineInv, Endings, Delivered, InterruptionIsTold
<1>1. toClient = Copied \o ErrorEvent
  BY DEF PipelineInv, Endings, Failures, Told, Delivered
<1>2. Copied \in Seq(Tokens) /\ Len(Copied) \in Nat
  <2>1. Len(sent) \in Nat /\ sent \in Seq(Tokens) /\ nread \in 0..Len(sent)
    BY LenProperties DEF PipelineInv, Types
  <2>2. nread = Len(sent)
    BY <1>1 DEF PipelineInv, Endings, Failures, Told, Delivered
  <2>3. Copied = sent
    BY <2>1, <2>2, SubSeqFull DEF Copied
  <2>4. QED
    BY <2>1, <2>3
<1>3. Len(toClient) = Len(Copied) + 5 /\ toClient[Len(Copied) + 3] = "injected"
  <2> DEFINE c == Copied
             e == ErrorEvent
  <2>1. c \in Seq(Tokens) /\ Len(c) \in Nat /\ toClient = c \o e
    BY <1>1, <1>2
  <2>2. e \in Seq(Tokens) /\ Len(e) = 5 /\ e[3] = "injected"
    BY ErrorEventIs
  <2> HIDE DEF c, e
  <2>3. /\ Len(c \o e) = Len(c) + Len(e)
        /\ \A i \in 1..Len(c) + Len(e) : (c \o e)[i] = IF i <= Len(c) THEN c[i] ELSE e[i - Len(c)]
    BY <2>1, <2>2, ConcatProperties
  <2>4. Len(c) + 3 \in 1..Len(c) + Len(e) /\ ~(Len(c) + 3 <= Len(c)) /\ Len(c) + 3 - Len(c) = 3
    BY <2>1, <2>2
  <2>5. QED
    BY <2>1, <2>2, <2>3, <2>4 DEF c
<1>4. Len(Copied) + 3 \in 1..Len(toClient) /\ DOMAIN toClient = 1..Len(toClient)
  BY <1>2, <1>3, LenProperties DEF PipelineInv, Types
<1>5. QED
  BY <1>3, <1>4 DEF Range

\* What reaches the client is what the backend sent, in order and without a
\* gap, and at most one error event after all of a broken stream (guardBody of
\* streamerror.go), for responses of any length.
THEOREM StreamFaithful == Spec => []ClientStreamFaithful
<1>1. QED
  BY PipelineInvariant, FaithfulInv, PTL

\* A stream that breaks is never taken for one that ended: a client that is
\* still there has the error event when the copy ends, and of a stream that did
\* not break all of it (guardBody.Read, ctxBody.Read).
THEOREM InterruptionsTold == Spec => []InterruptionIsTold
<1>1. QED
  BY PipelineInvariant, ToldInv, PTL

-----------------------------------------------------------------------------
(* The pipeline under its readers.                                         *)

\* Every step of the composition is one of the pipeline or leaves it alone.
LEMMA RelayIsPipeline == [RelayNext]_allVars => [Next]_vars
BY DEF RelayNext, Pipeline, ServeStream, RelayLine, UpstreamEnds, RelayAborts, InnerCancelled,
       ClientLeaves, NextMessage, Next, allVars

LEMMA PipelineUnderRelay == RelaySpec => []PipelineInv
<1>1. RelayInit => PipelineInv
  BY PipelineInit DEF RelayInit
<1>2. PipelineInv /\ [RelayNext]_allVars => PipelineInv'
  BY RelayIsPipeline, PipelineStep
<1>3. QED
  BY <1>1, <1>2, PTL DEF RelaySpec

\* A client sees what the backend sent and at most one error event behind it,
\* whoever reads the stream and whenever they leave.
THEOREM RelayFaithful == RelaySpec => []ClientStreamFaithful
<1>1. QED
  BY PipelineUnderRelay, FaithfulInv, PTL

\* An interruption is told to every reader that stays.
THEOREM RelayTold == RelaySpec => []InterruptionIsTold
<1>1. QED
  BY PipelineUnderRelay, ToldInv, PTL

-----------------------------------------------------------------------------
(* The inductive invariant of the handler.                                 *)

RelayTypes ==
  /\ left \in BOOLEAN /\ relay \in {"reading", "done", "none"}
  /\ nscan \in 0..Len(toClient)
  /\ events \in Seq({"delta", "stop", "error"})

\* A reader has no error yet, nothing behind a stop, and is not past the error
\* event; the pipeline loses its client only after the handler did.
Reading ==
  relay = "reading" =>
    /\ kind = "local" /\ (gone => left)
    /\ nscan <= nread + 2
    /\ \A i \in 1..Len(events) : events[i] # "error" /\ (events[i] = "stop" => i = Len(events))

\* What a handler that returned has written.
Returned ==
  relay # "reading" =>
    /\ relay = "done" /\ ~left => Len(events) > 0 /\ events[Len(events)] \in {"stop", "error"}
    /\ \A i \in 1..Len(events) : events[i] = "error" => i = Len(events) /\ relay = "done"

RelayInv == RelayTypes /\ Reading /\ Returned

\* How much the client's copy has.
LEMMA CopyLength ==
  PipelineInv => /\ Len(toClient) \in Nat /\ nread \in Nat
                 /\ Clean \/ (Told /\ ~Clean)
                 /\ Clean => Len(toClient) = nread
                 /\ Told => /\ Len(toClient) = nread + 5
                            /\ toClient[nread + 2] = "nl" /\ toClient[nread + 3] = "injected"
<1> SUFFICES ASSUME PipelineInv
             PROVE  /\ Len(toClient) \in Nat /\ nread \in Nat
                    /\ Clean \/ (Told /\ ~Clean)
                    /\ Clean => Len(toClient) = nread
                    /\ Told => /\ Len(toClient) = nread + 5
                               /\ toClient[nread + 2] = "nl" /\ toClient[nread + 3] = "injected"
  OBVIOUS
<1>1. /\ sent \in Seq(Tokens) /\ toClient \in Seq(Tokens) /\ Len(sent) \in Nat
      /\ Len(toClient) \in Nat /\ nread \in 0..Len(sent)
  BY LenProperties DEF PipelineInv, Types
<1>2. Copied \in Seq(Tokens) /\ Len(Copied) = nread
  <2>1. \A i \in 1..nread : sent[i] \in Tokens
    BY <1>1, ElementOfSeq
  <2>2. QED
    BY <1>1, <2>1, SubSeqProperties DEF Copied
<1>3. ASSUME Told
      PROVE  /\ Len(toClient) = nread + 5
             /\ toClient[nread + 2] = "nl" /\ toClient[nread + 3] = "injected"
  <2> DEFINE c == Copied
             e == ErrorEvent
  <2>1. c \in Seq(Tokens) /\ Len(c) = nread /\ nread \in Nat /\ toClient = c \o e
    BY <1>1, <1>2, <1>3 DEF Told
  <2>2. e \in Seq(Tokens) /\ Len(e) = 5 /\ e[2] = "nl" /\ e[3] = "injected"
    BY ErrorEventIs
  <2> HIDE DEF c, e
  <2>3. /\ Len(c \o e) = Len(c) + Len(e)
        /\ \A i \in 1..Len(c) + Len(e) : (c \o e)[i] = IF i <= Len(c) THEN c[i] ELSE e[i - Len(c)]
    BY <2>1, <2>2, ConcatProperties
  <2>4. QED
    BY <2>1, <2>2, <2>3
<1>4. QED
  BY <1>1, <1>2, <1>3 DEF PipelineInv, Clean

\* A step of the pipeline takes nothing back.
LEMMA CopyGrows ==
  PipelineInv /\ (Backend \/ CopyLoop \/ Watch \/ ClientGone) =>
    /\ kind' = kind /\ Len(toClient) <= Len(toClient') /\ nread <= nread'
    /\ \A i \in 1..Len(toClient) : toClient'[i] = toClient[i]
<1> DEFINE Grows == /\ kind' = kind /\ Len(toClient) <= Len(toClient') /\ nread <= nread'
                    /\ \A i \in 1..Len(toClient) : toClient'[i] = toClient[i]
<1> SUFFICES ASSUME PipelineInv, Backend \/ CopyLoop \/ Watch \/ ClientGone
             PROVE  Grows
  OBVIOUS
<1> USE DEF backendVars
<1>0. /\ toClient \in Seq(Tokens) /\ Len(toClient) \in Nat /\ nread \in Nat
      /\ (Clean \/ Told) /\ Failures /\ Types
  BY CopyLength DEF PipelineInv, Types
<1>1. ASSUME NEW c \in Seq(Tokens), kind' = kind, toClient' = toClient \o c,
             nread' = nread \/ nread' = nread + Len(c)
      PROVE  Grows
  BY <1>0, <1>1, ConcatProperties, LenProperties
<1>2. CASE UNCHANGED <<kind, toClient, nread>>
  BY <1>0, <1>2
<1>3. CASE ServePending
  BY <1>1, <1>3, ErrorEventIs DEF ServePending
<1>4. ASSUME NEW n \in 1..Len(Unread), ReadData(n)
      PROVE  Grows
  <2>1. Clean /\ n \in 0..Len(Unread)
    BY <1>0, <1>4 DEF ReadData, Failures, Told
  <2>2. SubSeq(Unread, 1, n) \in Seq(Tokens) /\ Len(SubSeq(Unread, 1, n)) = n
    BY <1>0, <2>1, ReadCopies
  <2>3. QED
    BY <1>1, <1>4, <2>2 DEF ReadData
<1>5. CASE ReadEOF \/ ReadFails \/ BodyFails
  <2>1. Clean
    BY <1>0, <1>5 DEF ReadEOF, ReadFails, BodyFails, Failures, Told
  <2>2. Unread \in Seq(Tokens) /\ nread + Len(Unread) = Len(sent)
    BY <1>0, <2>1, ReadCopiesAll
  <2>3. /\ kind' = kind
        /\ \/ toClient' = toClient \o Unread /\ (nread' = nread + Len(Unread) \/ nread' = Len(sent))
           \/ toClient' = toClient \o <<>> /\ nread' = nread + Len(<<>>)
    BY <1>5 DEF ReadEOF, ReadFails, BodyFails
  <2>4. <<>> \in Seq(Tokens)
    BY EmptySeq
  <2>5. QED
    BY <1>1, <2>2, <2>3, <2>4
<1>6. Backend \/ Watch \/ ClientGone \/ ReturnFailed \/ CallInner \/ AbortCopy =>
        UNCHANGED <<kind, toClient, nread>>
  BY DEF Backend, SendPayload, SendNewline, BackendEnds, Watch, ClientGone, ReturnFailed,
         CallInner, AbortCopy
<1>7. QED
  BY <1>2, <1>3, <1>4, <1>5, <1>6 DEF CopyLoop

LEMMA RelayStarts == RelayInit => RelayInv
<1> SUFFICES ASSUME RelayInit PROVE RelayInv
  OBVIOUS
<1>1. toClient = <<>> /\ nread = 0 /\ gone = FALSE
  BY DEF RelayInit, Init, Wrapped
<1>2. Len(toClient) = 0 /\ events \in Seq({"delta", "stop", "error"}) /\ Len(events) = 0
  BY <1>1, EmptySeq DEF RelayInit, Asked
<1>3. /\ nscan = 0 /\ left = FALSE /\ relay \in {"reading", "none"}
      /\ relay = "reading" => kind = "local"
  BY DEF RelayInit, Asked
<1>4. RelayTypes
  <2>1. left \in BOOLEAN /\ relay \in {"reading", "done", "none"}
    BY <1>3
  <2>2. nscan \in 0..Len(toClient)
    BY <1>2, <1>3
  <2>3. QED
    BY <1>2, <2>1, <2>2 DEF RelayTypes
<1>5. Reading /\ Returned
  BY <1>1, <1>2, <1>3 DEF Reading, Returned
<1>6. QED
  BY <1>4, <1>5 DEF RelayInv

\* The pipeline runs beside the handler.
LEMMA PipelineKeepsRelay ==
  PipelineInv /\ RelayInv /\ (Pipeline \/ InnerCancelled \/ ClientLeaves) => RelayInv'
<1> SUFFICES ASSUME PipelineInv, RelayInv, Pipeline \/ InnerCancelled \/ ClientLeaves
             PROVE  RelayInv'
  OBVIOUS
<1>0. PipelineInv'
  BY PipelineStep DEF Pipeline, InnerCancelled, ClientLeaves, Next
<1>1. /\ Len(toClient) \in Nat /\ Len(toClient') \in Nat /\ nread \in Nat /\ nread' \in Nat
  BY <1>0, LenProperties DEF PipelineInv, Types
<1>2. UNCHANGED <<relay, nscan, events>>
  BY DEF Pipeline, InnerCancelled, ClientLeaves, relayVars
<1>3. kind' = kind /\ Len(toClient) <= Len(toClient') /\ nread <= nread'
  <2>1. CASE Backend \/ CopyLoop \/ Watch \/ ClientGone
    BY <2>1, CopyGrows
  <2>2. CASE UNCHANGED vars
    BY <1>1, <2>2 DEF vars, backendVars
  <2>3. QED
    BY <2>1, <2>2 DEF Pipeline, InnerCancelled, ClientLeaves
<1>4. left' \in BOOLEAN /\ (left => left')
  <2>1. left' = left \/ left' = TRUE
    BY DEF Pipeline, InnerCancelled, ClientLeaves, relayVars
  <2>2. left \in BOOLEAN
    BY DEF RelayInv, RelayTypes
  <2>3. left' \in BOOLEAN
    BY <2>1, <2>2
  <2>4. left => left'
    BY <2>1
  <2>5. QED
    BY <2>3, <2>4
<1>5. relay = "reading" /\ gone' => gone \/ left'
  <2>1. CASE Pipeline
    <3>1. gone' = gone
      BY <2>1 DEF Pipeline, Backend, SendPayload, SendNewline, BackendEnds, CopyLoop, ServePending,
            ReturnFailed, CallInner, AbortCopy, ReadData, ReadEOF, ReadFails, BodyFails, Finish, Watch
    <3>2. QED
      BY <3>1
  <2>2. CASE InnerCancelled
    BY <1>4, <2>2 DEF InnerCancelled
  <2>3. CASE ClientLeaves
    <3>1. relay = "none" \/ gone' = gone
      BY <2>3 DEF ClientLeaves, vars
    <3>2. QED
      BY <3>1
  <2>4. QED
    BY <2>1, <2>2, <2>3
<1>6. RelayTypes'
  <2>1. relay' \in {"reading", "done", "none"}
    BY <1>2 DEF RelayInv, RelayTypes
  <2>2. nscan' \in 0..Len(toClient') /\ events' \in Seq({"delta", "stop", "error"})
    BY <1>1, <1>2, <1>3 DEF RelayInv, RelayTypes
  <2>3. QED
    BY <1>4, <2>1, <2>2 DEF RelayTypes
<1>7. Reading'
  <2>1. relay = "reading" => nscan \in Nat /\ nscan <= nread + 2 /\ (gone => left)
    BY <1>1 DEF RelayInv, RelayTypes, Reading
  <2>2. relay = "reading" => nscan' <= nread' + 2
    BY <1>1, <1>2, <1>3, <2>1
  <2>3. relay = "reading" /\ gone' => left'
    BY <1>4, <1>5, <2>1
  <2>4. QED
    BY <1>2, <1>3, <2>2, <2>3 DEF RelayInv, Reading
<1>8. Returned'
  BY <1>2, <1>4 DEF RelayInv, Returned
<1>9. QED
  BY <1>6, <1>7, <1>8 DEF RelayInv

\* The lines of the handler's scanner.
LEMMA UnscannedIs ==
  ASSUME PipelineInv, RelayTypes
  PROVE  /\ Unscanned \in Seq(Tokens)
         /\ Len(Unscanned) = Len(toClient) - nscan
         /\ \A i \in 1..Len(Unscanned) : Unscanned[i] = toClient[nscan + i]
<1>1. toClient \in Seq(Tokens) /\ Len(toClient) \in Nat /\ nscan \in 0..Len(toClient)
  BY CopyLength DEF PipelineInv, Types, RelayTypes
<1>2. \A i \in nscan + 1..Len(toClient) : toClient[i] \in Tokens
  BY <1>1, ElementOfSeq
<1>3. /\ Unscanned \in Seq(Tokens)
      /\ Len(Unscanned) = IF nscan + 1 <= Len(toClient) THEN Len(toClient) - (nscan + 1) + 1 ELSE 0
      /\ \A i \in 1..Len(toClient) - (nscan + 1) + 1 : Unscanned[i] = toClient[(nscan + 1) + i - 1]
  BY <1>1, <1>2, SubSeqProperties DEF Unscanned
<1> HIDE DEF Unscanned
<1>4. Len(Unscanned) = Len(toClient) - nscan
  BY <1>1, <1>3
<1>5. ASSUME NEW i \in 1..Len(Unscanned) PROVE Unscanned[i] = toClient[nscan + i]
  <2>1. i \in 1..Len(toClient) - (nscan + 1) + 1 /\ (nscan + 1) + i - 1 = nscan + i
    BY <1>1, <1>4
  <2>2. Unscanned[i] = toClient[(nscan + 1) + i - 1]
    BY <1>3, <2>1
  <2>3. QED
    BY <2>1, <2>2
<1>6. QED
  BY <1>3, <1>4, <1>5

\* A line ends at its first newline, inside the copy.
LEMMA EndInLine ==
  ASSUME PipelineInv, RelayTypes, NEW end \in LineEnds
  PROVE  end \in 1..Len(Unscanned) /\ \A i \in 1..Len(Unscanned) : Unscanned[i] = "nl" => end <= i
<1>1. Len(Unscanned) \in Nat /\ DOMAIN Unscanned = 1..Len(Unscanned)
  BY UnscannedIs, LenProperties
<1> DEFINE ends == {i \in DOMAIN Unscanned : Unscanned[i] = "nl"}
<1>2. CASE ends = {}
  <2>1. end = Len(Unscanned) /\ end # 0
    BY <1>2 DEF LineEnds
  <2>2. QED
    BY <1>1, <1>2, <2>1
<1>3. CASE ends # {}
  <2>1. end \in ends /\ \A j \in ends : end <= j
    BY <1>3 DEF LineEnds
  <2>2. QED
    BY <1>1, <2>1
<1>4. QED
  BY <1>2, <1>3

\* No line contains the error event behind its first token: the event brings
\* its own newlines.
LEMMA LineStopsBefore ==
  ASSUME PipelineInv, RelayTypes, nscan <= nread + 2, NEW end \in LineEnds, Unscanned[1] # "injected"
  PROVE  nscan + end <= nread + 2
<1>1. /\ Len(toClient) \in Nat /\ nread \in Nat /\ nscan \in 0..Len(toClient)
      /\ Len(Unscanned) = Len(toClient) - nscan
      /\ \A i \in 1..Len(Unscanned) : Unscanned[i] = toClient[nscan + i]
  BY CopyLength, UnscannedIs DEF RelayTypes
<1>2. end \in 1..Len(Unscanned) /\ \A i \in 1..Len(Unscanned) : Unscanned[i] = "nl" => end <= i
  BY EndInLine
<1>3. CASE Clean
  BY <1>1, <1>2, <1>3, CopyLength
<1>4. CASE Told
  <2>1. /\ Len(toClient) = nread + 5
        /\ toClient[nread + 2] = "nl" /\ toClient[nread + 3] = "injected"
    BY <1>4, CopyLength
  <2>2. nscan # nread + 2
    BY <1>1, <2>1
  <2>3. nread + 2 - nscan \in 1..Len(Unscanned) /\ nscan + (nread + 2 - nscan) = nread + 2
    BY <1>1, <2>1, <2>2
  <2>4. end <= nread + 2 - nscan
    BY <1>1, <1>2, <2>1, <2>3
  <2>5. QED
    BY <1>1, <1>2, <2>4
<1>5. QED
  BY <1>3, <1>4 DEF PipelineInv

\* What the handler may have written while it reads.
OpenEvents(es) ==
  /\ es \in Seq({"delta", "stop", "error"})
  /\ \A i \in 1..Len(es) : es[i] # "error" /\ (es[i] = "stop" => i = Len(es))

\* What it may leave behind.
ClosedEvents(es) ==
  /\ es \in Seq({"delta", "stop", "error"})
  /\ \A i \in 1..Len(es) : es[i] = "error" => i = Len(es)

EndsWell(es) == Len(es) > 0 /\ es[Len(es)] \in {"stop", "error"}

LEMMA EventsGrow ==
  ASSUME NEW es, OpenEvents(es), "stop" \notin Range(es), NEW x \in {"delta", "stop", "error"}
  PROVE  /\ x # "error" => OpenEvents(Append(es, x))
         /\ ClosedEvents(Append(es, x))
         /\ x # "delta" => EndsWell(Append(es, x))
<1>1. /\ es \in Seq({"delta", "stop", "error"}) /\ Len(es) \in Nat /\ DOMAIN es = 1..Len(es)
      /\ \A i \in 1..Len(es) : es[i] # "error" /\ es[i] # "stop"
  BY LenProperties DEF OpenEvents, Range
<1>2. /\ Append(es, x) \in Seq({"delta", "stop", "error"})
      /\ Len(Append(es, x)) = Len(es) + 1
      /\ \A i \in 1..Len(es) : Append(es, x)[i] = es[i]
      /\ Append(es, x)[Len(es) + 1] = x
  BY <1>1, AppendProperties
<1> DEFINE new == Append(es, x)
<1> HIDE DEF new
<1>3. \A i \in 1..Len(new) : i = Len(new) \/ (new[i] # "error" /\ new[i] # "stop")
  BY <1>1, <1>2 DEF new
<1>4. new \in Seq({"delta", "stop", "error"}) /\ Len(new) > 0 /\ new[Len(new)] = x
  BY <1>1, <1>2 DEF new
<1>5. (x # "error" => OpenEvents(new)) /\ ClosedEvents(new)
  BY <1>3, <1>4 DEF OpenEvents, ClosedEvents
<1>6. x # "delta" => EndsWell(new)
  BY <1>4 DEF EndsWell
<1>7. QED
  BY <1>5, <1>6 DEF new

\* An error event is only written while nothing is stopped, or as the very last
\* event behind a stop.
LEMMA ErrorEnds ==
  ASSUME NEW es, OpenEvents(es)
  PROVE  ClosedEvents(Append(es, "error")) /\ EndsWell(Append(es, "error"))
<1>1. /\ es \in Seq({"delta", "stop", "error"}) /\ Len(es) \in Nat
      /\ \A i \in 1..Len(es) : es[i] # "error"
  BY LenProperties DEF OpenEvents
<1>2. /\ Append(es, "error") \in Seq({"delta", "stop", "error"})
      /\ Len(Append(es, "error")) = Len(es) + 1
      /\ \A i \in 1..Len(es) : Append(es, "error")[i] = es[i]
      /\ Append(es, "error")[Len(es) + 1] = "error"
  BY <1>1, AppendProperties
<1>3. QED
  BY <1>1, <1>2 DEF ClosedEvents, EndsWell

LEMMA FinalizedEnds ==
  OpenEvents(events) => /\ OpenEvents(Finalized) /\ ClosedEvents(Finalized)
                        /\ EndsWell(Finalized)
<1> SUFFICES ASSUME OpenEvents(events)
             PROVE  /\ OpenEvents(Finalized) /\ ClosedEvents(Finalized)
                    /\ EndsWell(Finalized)
  OBVIOUS
<1>1. CASE Stopped
  <2>1. Len(events) \in Nat /\ DOMAIN events = 1..Len(events)
    BY LenProperties DEF OpenEvents
  <2>2. PICK i \in 1..Len(events) : events[i] = "stop"
    BY <1>1, <2>1 DEF Stopped, Range
  <2>3. Len(events) > 0 /\ events[Len(events)] = "stop"
    <3>1. i = Len(events)
      BY <2>2 DEF OpenEvents
    <3>2. QED
      BY <2>1, <2>2, <3>1
  <2>4. QED
    BY <1>1, <2>3 DEF Finalized, OpenEvents, ClosedEvents, EndsWell
<1>2. CASE ~Stopped
  BY <1>2, EventsGrow DEF Finalized, Stopped
<1>3. QED
  BY <1>1, <1>2

LEMMA ConvertedStaysOpen == ASSUME NEW line, OpenEvents(events) PROVE OpenEvents(Converted(line))
<1>1. CASE line = "content" /\ ~Stopped
  BY <1>1, EventsGrow DEF Converted, Stopped
<1>2. CASE line = "usage"
  BY <1>2, FinalizedEnds DEF Converted
<1>3. CASE ~(line = "content" /\ ~Stopped) /\ line # "usage"
  BY <1>3 DEF Converted
<1>4. QED
  BY <1>1, <1>2, <1>3

LEMMA HandlerKeepsRelay == PipelineInv /\ RelayInv /\ ServeStream => RelayInv'
<1> SUFFICES ASSUME PipelineInv, RelayInv, ServeStream PROVE RelayInv'
  OBVIOUS
<1>1. /\ relay = "reading" /\ RelayTypes /\ OpenEvents(events)
      /\ nscan <= nread + 2 /\ (gone => left) /\ kind = "local"
  BY DEF RelayInv, RelayTypes, Reading, OpenEvents, ServeStream, RelayLine, UpstreamEnds, RelayAborts
<1>2. /\ Len(toClient) \in Nat /\ nscan \in 0..Len(toClient) /\ nread \in Nat
      /\ Len(Unscanned) = Len(toClient) - nscan
  BY <1>1, CopyLength, UnscannedIs DEF RelayTypes
<1>3. UNCHANGED <<kind, nread, gone, toClient>> /\ left' = left
  BY DEF ServeStream, RelayLine, UpstreamEnds, RelayAborts, vars, backendVars
<1>4. ASSUME NEW es, ReturnFrom(es), ClosedEvents(es), ~left => EndsWell(es),
             nscan' \in 0..Len(toClient)
      PROVE  RelayInv'
  <2>1. relay' = "done" /\ events' = es
    BY <1>4 DEF ReturnFrom
  <2>2. RelayTypes'
    BY <1>1, <1>3, <1>4, <2>1 DEF RelayTypes, ClosedEvents
  <2>3. Reading'
    BY <2>1 DEF Reading
  <2>4. ~left' => ~left
    BY <1>3
  <2>5. Returned'
    BY <1>4, <2>1, <2>4 DEF Returned, ClosedEvents, EndsWell
  <2>6. QED
    BY <2>2, <2>3, <2>5 DEF RelayInv
<1>5. ASSUME NEW end \in LineEnds, RelayLine(end) PROVE RelayInv'
  <2>1. end \in 1..Len(Unscanned)
    BY <1>1, EndInLine
  <2>2. nscan' = nscan + end /\ nscan' \in 0..Len(toClient)
    BY <1>2, <1>5, <2>1 DEF RelayLine
  <2>3. CASE Unscanned[1] \in {"error", "injected"}
    <3>1. ReturnFrom(Append(events, "error"))
      BY <1>5, <2>3 DEF RelayLine
    <3>2. QED
      BY <1>1, <1>4, <2>2, <3>1, ErrorEnds
  <2>4. CASE Unscanned[1] = "done"
    <3>1. ReturnFrom(Finalized)
      BY <1>5, <2>4 DEF RelayLine
    <3>2. QED
      BY <1>1, <1>4, <2>2, <3>1, FinalizedEnds
  <2>5. CASE Unscanned[1] \notin {"error", "injected", "done"}
    <3>1. /\ relay' = relay
          /\ \E line \in Parsed(Unscanned[1]) : events' = Converted(line)
      BY <1>5, <2>5 DEF RelayLine, Write
    <3>2. nscan' <= nread' + 2
      BY <1>1, <1>3, <2>2, <2>5, LineStopsBefore
    <3>3. OpenEvents(events')
      BY <1>1, <3>1, ConvertedStaysOpen
    <3>4. RelayTypes'
      BY <1>1, <1>3, <2>2, <3>1, <3>3 DEF RelayTypes, OpenEvents
    <3>5. Reading'
      BY <1>1, <1>3, <3>1, <3>2, <3>3 DEF Reading, OpenEvents
    <3>6. Returned'
      BY <1>1, <3>1 DEF Returned
    <3>7. QED
      BY <3>4, <3>5, <3>6 DEF RelayInv
  <2>6. QED
    BY <2>3, <2>4, <2>5
<1>6. CASE UpstreamEnds
  <2>1. nscan' = nscan /\ Unscanned = <<>> /\ copy = "done"
        /\ ReturnFrom(IF failed \/ gone THEN events ELSE Finalized)
    BY <1>6 DEF UpstreamEnds
  <2>2. CASE ~(failed \/ gone)
    BY <1>1, <1>2, <1>4, <2>1, <2>2, FinalizedEnds
  <2>3. CASE failed \/ gone
    <3>1. ClosedEvents(events)
      BY <1>1 DEF OpenEvents, ClosedEvents
    <3>2. left
      <4>1. SUFFICES ASSUME ~left PROVE FALSE
        BY DEF RelayInv, RelayTypes
      <4>2. failed /\ ~gone
        BY <1>1, <2>3, <4>1
      <4>3. Told
        BY <1>1, <2>1, <4>2 DEF PipelineInv, Failures, Endings, IsStream
      <4>4. Len(toClient) = nread + 5
        BY <4>3, CopyLength
      <4>5. Len(Unscanned) = 0
        BY <2>1, EmptySeq
      <4>6. QED
        BY <1>1, <1>2, <4>4, <4>5
    <3>3. QED
      BY <1>2, <1>4, <2>1, <2>3, <3>1, <3>2
  <2>4. QED
    BY <2>2, <2>3
<1>7. CASE RelayAborts
  <2>1. left /\ ReturnFrom(events) /\ nscan' = nscan
    BY <1>7 DEF RelayAborts
  <2>2. ClosedEvents(events)
    BY <1>1 DEF OpenEvents, ClosedEvents
  <2>3. QED
    BY <1>2, <1>4, <2>1, <2>2
<1>8. QED
  BY <1>5, <1>6, <1>7 DEF ServeStream

\* A fresh message, and the whole composition.
LEMMA RelayStep == PipelineInv /\ RelayInv /\ [RelayNext]_allVars => RelayInv'
<1> SUFFICES ASSUME PipelineInv, RelayInv, [RelayNext]_allVars PROVE RelayInv'
  OBVIOUS
<1>1. CASE NextMessage
  <2>1. RelayInit'
    BY <1>1 DEF NextMessage, NextResponse, RelayInit, Init, Wrapped, Asked
  <2>2. QED
    BY <2>1, RelayStarts, PTL
<1>2. CASE UNCHANGED allVars
  BY <1>2 DEF allVars, vars, backendVars, relayVars, RelayInv, RelayTypes, Reading, Returned
<1>3. QED
  BY <1>1, <1>2, PipelineKeepsRelay, HandlerKeepsRelay DEF RelayNext

\* A client of /v1/messages that stays gets a terminal event, whatever the
\* backend sends and however it ends, and nothing behind an error (serveStream,
\* stream.go:38-95).
THEOREM MessagesTerminated == RelaySpec => []MessageTerminated
<1>1. RelayInv => MessageTerminated
  <2> SUFFICES ASSUME RelayInv PROVE MessageTerminated
    OBVIOUS
  <2>1. events \in Seq({"delta", "stop", "error"}) /\ Len(events) \in Nat /\ DOMAIN events = 1..Len(events)
    BY LenProperties DEF RelayInv, RelayTypes
  <2>2. Len(events) > 0 => events # <<>> /\ Last(events) = events[Len(events)]
    BY <2>1, EmptySeq DEF Last
  <2>3. Served => Len(events) > 0 /\ events[Len(events)] \in {"stop", "error"}
    BY DEF Served, RelayInv, Returned
  <2>4. \A i \in DOMAIN events : events[i] = "error" => i = Len(events) /\ relay = "done"
    BY <2>1 DEF RelayInv, Reading, Returned
  <2>5. QED
    BY <2>2, <2>3, <2>4 DEF MessageTerminated
<1>2. RelaySpec => []RelayInv
  BY RelayStarts, RelayStep, PipelineUnderRelay, PTL DEF RelaySpec
<1>3. QED
  BY <1>1, <1>2, PTL

-----------------------------------------------------------------------------
(* Tokens of a text that are counted, line by line.                        *)

\* How often x is among the first k tokens of T.
CountTo(x, T, k) == Cardinality({i \in 1..k : T[i] = x})

LEMMA CountNext ==
  ASSUME NEW x, NEW T, NEW k \in Nat
  PROVE  /\ CountTo(x, T, k) \in Nat
         /\ CountTo(x, T, 0) = 0 /\ CountTo(x, T, 0 - 1) = 0
         /\ CountTo(x, T, k + 1) = CountTo(x, T, k) + (IF T[k + 1] = x THEN 1 ELSE 0)
<1> DEFINE C(j) == {i \in 1..j : T[i] = x}
<1>1. IsFiniteSet(1..k) /\ C(k) \subseteq 1..k
  BY FS_Interval
<1>2. IsFiniteSet(C(k))
  BY <1>1, FS_Subset
<1>3. CountTo(x, T, k) \in Nat
  BY <1>2, FS_CardinalityType DEF CountTo
<1>4. C(0) = {} /\ C(0 - 1) = {}
  OBVIOUS
<1>5. CountTo(x, T, 0) = 0 /\ CountTo(x, T, 0 - 1) = 0
  BY <1>4, FS_EmptySet DEF CountTo
<1>6. CASE T[k + 1] = x
  <2>1. C(k + 1) = C(k) \union {k + 1} /\ k + 1 \notin C(k)
    BY <1>6
  <2>2. Cardinality(C(k) \union {k + 1}) = Cardinality(C(k)) + 1
    BY <1>2, <2>1, FS_AddElement
  <2>3. CountTo(x, T, k + 1) = CountTo(x, T, k) + 1
    BY <2>1, <2>2 DEF CountTo
  <2> QED
    BY <1>3, <1>5, <1>6, <2>3
<1>7. CASE T[k + 1] # x
  <2>1. C(k + 1) = C(k)
    BY <1>7
  <2>2. CountTo(x, T, k + 1) = CountTo(x, T, k)
    BY <2>1 DEF CountTo
  <2> QED
    BY <1>3, <1>5, <1>7, <2>2
<1> QED
  BY <1>6, <1>7

\* The same, seen from the last token.
LEMMA CountLast ==
  ASSUME NEW T, NEW k \in Nat, k # 0
  PROVE  \A x : CountTo(x, T, k) = CountTo(x, T, k - 1) + (IF T[k] = x THEN 1 ELSE 0)
<1> DEFINE j == k - 1
<1>1. j \in Nat /\ j + 1 = k
  OBVIOUS
<1> HIDE DEF j
<1>2. ASSUME NEW x PROVE CountTo(x, T, k) = CountTo(x, T, j) + (IF T[k] = x THEN 1 ELSE 0)
  <2>1. CountTo(x, T, j + 1) = CountTo(x, T, j) + (IF T[j + 1] = x THEN 1 ELSE 0)
    BY <1>1, CountNext
  <2> QED
    BY <1>1, <2>1
<1> QED
  BY <1>2 DEF j

\* Only the tokens counted matter.
LEMMA CountSame ==
  ASSUME NEW x, NEW T, NEW U, NEW k, \A i \in 1..k : T[i] = U[i]
  PROVE  CountTo(x, T, k) = CountTo(x, U, k)
<1>1. {i \in 1..k : T[i] = x} = {i \in 1..k : U[i] = x}
  OBVIOUS
<1> QED
  BY <1>1 DEF CountTo

\* What comes without an x does not count, and what comes later takes nothing back.
LEMMA CountMore ==
  ASSUME NEW x, NEW T, NEW k \in Nat, NEW m \in Nat, k <= m
  PROVE  /\ CountTo(x, T, k) <= CountTo(x, T, m)
         /\ (\A i \in (k + 1)..m : T[i] # x) => CountTo(x, T, m) = CountTo(x, T, k)
<1> DEFINE C(j) == {i \in 1..j : T[i] = x}
<1>1. C(k) \subseteq C(m)
  OBVIOUS
<1>2. IsFiniteSet(1..m) /\ C(m) \subseteq 1..m
  BY FS_Interval
<1>3. IsFiniteSet(C(m))
  BY <1>2, FS_Subset
<1>4. Cardinality(C(k)) <= Cardinality(C(m))
  BY <1>1, <1>3, FS_Subset
<1>5. ASSUME \A i \in (k + 1)..m : T[i] # x PROVE C(m) = C(k)
  BY <1>5
<1> QED
  BY <1>4, <1>5 DEF CountTo

LEMMA CountZero ==
  ASSUME NEW x, NEW T, NEW k \in Nat
  PROVE  CountTo(x, T, k) > 0 <=> \E i \in 1..k : T[i] = x
<1> DEFINE C == {i \in 1..k : T[i] = x}
<1>1. IsFiniteSet(1..k) /\ C \subseteq 1..k
  BY FS_Interval
<1>2. IsFiniteSet(C)
  BY <1>1, FS_Subset
<1>3. Cardinality(C) = 0 <=> C = {}
  BY <1>2, FS_EmptySet
<1>4. Cardinality(C) \in Nat
  BY <1>2, FS_CardinalityType
<1>5. C # {} <=> \E i \in 1..k : T[i] = x
  OBVIOUS
<1> HIDE DEF C
<1>6. Cardinality(C) > 0 <=> C # {}
  BY <1>3, <1>4
<1> QED
  BY <1>5, <1>6 DEF CountTo, C

-----------------------------------------------------------------------------
(* What the scanner makes of the first k tokens of a text.                 *)

\* A payload is followed by its newline.
Shaped(T, n) == \A i \in 1..(n - 1) : T[i] = "nl" \/ T[i + 1] = "nl"

\* Generation, then the usage, then the end of the stream.
Ordered(T, n) ==
  /\ \A i, j \in 1..n : i < j => /\ T[i] = "usage" => T[j] \notin {"content", "timings", "usage"}
                                 /\ T[i] = "done" => T[j] \notin Payloads
  /\ ~EarlyTimings => \A i \in 1..n : T[i] # "timings"

Taps ==
  [partial : {"none"} \union (Tokens \ {"nl"}), done : BOOLEAN,
   notified : Seq({"timings", "usage"}), contents : Nat, reports : Nat]

\* The line that is not complete.
OpenLine(T, k) == IF k > 0 /\ T[k] # "nl" THEN T[k] ELSE "none"

\* The consumers know the payloads of the first k tokens.
Accounted(t, T, k) ==
  /\ t.contents <= CountTo("content", T, k)
  /\ kind = "cloud" => t.contents = 0
  /\ kind # "cloud" /\ (Guard \/ ~EarlyTimings) => t.contents = CountTo("content", T, k)
  /\ t.reports = IF Guarded THEN CountTo("error", T, k) ELSE 0
  /\ ~EarlyTimings => /\ t.done <=> (CountTo("usage", T, k) > 0)
                      /\ t.notified = IF CountTo("usage", T, k) > 0 THEN <<"usage">> ELSE <<>>

\* The consumers know all but the open line, which the tap holds.
Fed(t, T, k) ==
  /\ t \in Taps
  /\ Accounted(t, T, k - 1)
  /\ t.partial = IF t.done /\ ~Guarded THEN "none" ELSE OpenLine(T, k)

Closed(t) == HandleLine([t EXCEPT !.partial = "none"], t.partial)

LEMMA HandledTap ==
  ASSUME NEW t \in Taps, NEW line \in {"none"} \union Tokens
  PROVE  HandleLine(t, line) \in Taps
<1> DEFINE publishes == ~t.done /\ line \in {"timings", "usage"}
           c == t.contents + (IF line = "content" /\ tracked THEN 1 ELSE 0)
           r == t.reports + (IF Guarded /\ line = "error" THEN 1 ELSE 0)
           n == IF publishes THEN Append(t.notified, line) ELSE t.notified
           d == t.done \/ publishes
<1>1. c \in Nat /\ r \in Nat
  BY DEF Taps
<1>2. d \in BOOLEAN
  BY DEF Taps
<1>3. n \in Seq({"timings", "usage"})
  <2>1. t.notified \in Seq({"timings", "usage"})
    BY DEF Taps
  <2>2. CASE publishes
    BY <2>1, <2>2, AppendProperties
  <2> QED
    BY <2>1, <2>2
<1>4. HandleLine(t, line) = [t EXCEPT !.reports = r, !.contents = c, !.notified = n, !.done = d]
  BY DEF HandleLine
<1> HIDE DEF publishes, c, r, n, d
<1> QED
  BY <1>1, <1>2, <1>3, <1>4 DEF Taps

LEMMA LineHandled ==
  ASSUME NEW m \in Nat, NEW T \in [1..m -> Tokens], Ordered(T, m), NEW k \in 0..m, NEW t,
         Fed(t, T, k), tracked = (kind # "cloud"), kind \in Kinds
  PROVE  Closed(t) \in Taps /\ Accounted(Closed(t), T, k) /\ Closed(t).partial = "none"
<1> DEFINE line == t.partial
           z == Closed(t)
           u0 == CountTo("usage", T, k - 1)
           u1 == CountTo("usage", T, k)
           c0 == CountTo("content", T, k - 1)
           c1 == CountTo("content", T, k)
           e0 == CountTo("error", T, k - 1)
           e1 == CountTo("error", T, k)
<1>1. /\ u0 \in Nat /\ c0 \in Nat /\ e0 \in Nat /\ u1 \in Nat /\ c1 \in Nat /\ e1 \in Nat
      /\ k = 0 => u0 = 0 /\ u1 = 0 /\ c0 = 0 /\ c1 = 0 /\ e0 = 0 /\ e1 = 0
      /\ k > 0 => /\ u1 = u0 + (IF T[k] = "usage" THEN 1 ELSE 0)
                  /\ c1 = c0 + (IF T[k] = "content" THEN 1 ELSE 0)
                  /\ e1 = e0 + (IF T[k] = "error" THEN 1 ELSE 0)
  <2>1. CASE k = 0
    <3>0. \A x : CountTo(x, T, 0) = 0 /\ CountTo(x, T, 0 - 1) = 0
      BY CountNext, 0 \in Nat
    <3>1. u1 = 0 /\ c1 = 0 /\ e1 = 0 /\ u0 = 0 /\ c0 = 0 /\ e0 = 0
      BY <2>1, <3>0
    <3> HIDE DEF u0, u1, c0, c1, e0, e1
    <3> QED
      BY <2>1, <3>1
  <2>2. CASE k # 0
    <3>1. k - 1 \in Nat /\ k \in Nat /\ (k - 1) + 1 = k
      BY <2>2
    <3>2. /\ u0 \in Nat /\ c0 \in Nat /\ e0 \in Nat /\ u1 \in Nat /\ c1 \in Nat /\ e1 \in Nat
      BY <3>1, CountNext
    <3>3. \A x : CountTo(x, T, k) = CountTo(x, T, k - 1) + (IF T[k] = x THEN 1 ELSE 0)
      BY <3>1, CountLast
    <3> QED
      BY <2>2, <3>2, <3>3
  <2> QED
    BY <2>1, <2>2
<1>2. /\ t \in Taps /\ t.done \in BOOLEAN /\ tracked \in BOOLEAN
      /\ Accounted(t, T, k - 1)
      /\ line = IF t.done /\ ~Guarded THEN "none" ELSE OpenLine(T, k)
  BY DEF Fed, Taps
<1>3. line \in {"none"} \union (Tokens \ {"nl"})
  BY <1>2 DEF Taps
<1>4. k > 0 => T[k] \in Tokens
  OBVIOUS
<1>5. /\ z.partial = "none"
      /\ z.contents = t.contents + (IF line = "content" /\ kind # "cloud" THEN 1 ELSE 0)
      /\ z.reports = t.reports + (IF Guarded /\ line = "error" THEN 1 ELSE 0)
      /\ z.done = (t.done \/ (~t.done /\ line \in {"timings", "usage"}))
      /\ z.notified = IF ~t.done /\ line \in {"timings", "usage"} THEN Append(t.notified, line) ELSE t.notified
  <2>1. /\ z.partial = "none"
        /\ z.contents = t.contents + (IF line = "content" /\ tracked THEN 1 ELSE 0)
        /\ z.reports = t.reports + (IF Guarded /\ line = "error" THEN 1 ELSE 0)
        /\ z.done = (t.done \/ (~t.done /\ line \in {"timings", "usage"}))
        /\ z.notified = IF ~t.done /\ line \in {"timings", "usage"} THEN Append(t.notified, line) ELSE t.notified
    BY <1>2 DEF Closed, HandleLine, Taps
  <2>2. tracked <=> kind # "cloud"
    OBVIOUS
  <2> HIDE DEF z, line
  <2> QED
    BY <2>1, <2>2
<1>6. z \in Taps
  <2>1. [t EXCEPT !.partial = "none"] \in Taps
    BY <1>2 DEF Taps
  <2> QED
    BY <1>3, <2>1, HandledTap DEF Closed
<1>7. ~EarlyTimings => line # "timings"
  BY <1>2, <1>4 DEF Ordered, OpenLine
<1>8. CASE t.done /\ ~Guarded
  <2>1. line = "none"
    BY <1>2, <1>8
  <2>2. /\ z.contents = t.contents /\ z.reports = t.reports
        /\ z.done = t.done /\ z.notified = t.notified
    <3>1. t.contents \in Nat /\ t.reports \in Nat
      BY <1>2 DEF Taps
    <3> HIDE DEF z, line
    <3> QED
      BY <1>2, <1>5, <2>1, <3>1
  <2>3. ~EarlyTimings => u0 > 0
    BY <1>2, <1>8 DEF Accounted
  <2>4. ~EarlyTimings => c1 = c0
    <3> SUFFICES ASSUME ~EarlyTimings PROVE c1 = c0
      OBVIOUS
    <3>1. k - 1 \in Nat
      BY <1>1, <2>3
    <3>2. PICK i \in 1..(k - 1) : T[i] = "usage"
      BY <2>3, <3>1, CountZero
    <3>3. i < k /\ i \in 1..m /\ k \in 1..m /\ k > 0
      BY <3>1
    <3>4. T[k] # "content"
      BY <3>2, <3>3 DEF Ordered
    <3> HIDE DEF c0, c1
    <3> QED
      BY <1>1, <3>3, <3>4
  <2>5. c0 <= c1 /\ u0 <= u1
    <3> HIDE DEF c0, c1, u0, u1
    <3> QED
      BY <1>1
  <2>6. /\ z.contents <= c1
        /\ kind = "cloud" => z.contents = 0
        /\ kind # "cloud" /\ (Guard \/ ~EarlyTimings) => z.contents = c1
    <3>1. /\ t.contents <= c0 /\ t.contents \in Nat
          /\ kind = "cloud" => t.contents = 0
          /\ kind # "cloud" /\ (Guard \/ ~EarlyTimings) => t.contents = c0
      BY <1>2 DEF Accounted, Taps
    <3>2. kind # "cloud" /\ Guard => Guarded
      BY DEF Guarded
    <3> HIDE DEF c0, c1, z
    <3> QED
      BY <1>1, <1>8, <2>2, <2>4, <2>5, <3>1, <3>2
  <2>7. z.reports = IF Guarded THEN e1 ELSE 0
    BY <1>2, <1>8, <2>2 DEF Accounted
  <2>8. ~EarlyTimings => u1 > 0
    <3> HIDE DEF u0, u1
    <3> QED
      BY <1>1, <2>3, <2>5
  <2>9. ~EarlyTimings => /\ z.done <=> (u1 > 0)
                         /\ z.notified = IF u1 > 0 THEN <<"usage">> ELSE <<>>
    <3>1. ~EarlyTimings => t.notified = <<"usage">>
      BY <1>2, <2>3 DEF Accounted
    <3> HIDE DEF u1, u0, z
    <3> QED
      BY <1>8, <2>2, <2>8, <3>1
  <2>10. Accounted(z, T, k)
    <3> HIDE DEF z
    <3> QED
      BY <2>6, <2>7, <2>9 DEF Accounted
  <2> QED
    BY <1>5, <1>6, <2>10
<1>9. CASE ~(t.done /\ ~Guarded)
  <2>1. line = OpenLine(T, k)
    BY <1>2, <1>9
  <2>2. \A x \in Payloads : line = x <=> k > 0 /\ T[k] = x
    BY <2>1 DEF OpenLine, Payloads
  <2>3. /\ u1 = u0 + (IF line = "usage" THEN 1 ELSE 0)
        /\ c1 = c0 + (IF line = "content" THEN 1 ELSE 0)
        /\ e1 = e0 + (IF line = "error" THEN 1 ELSE 0)
    <3>1. (line = "usage" <=> k > 0 /\ T[k] = "usage") /\ (line = "content" <=> k > 0 /\ T[k] = "content")
          /\ (line = "error" <=> k > 0 /\ T[k] = "error")
      BY <2>2 DEF Payloads
    <3> HIDE DEF u0, u1, c0, c1, e0, e1, line
    <3>2. CASE k = 0
      BY <1>1, <3>1, <3>2
    <3>3. CASE k # 0
      BY <1>1, <3>1, <3>3
    <3> QED
      BY <3>2, <3>3
  <2>4. /\ t.contents <= c0 /\ t.contents \in Nat
        /\ kind = "cloud" => t.contents = 0
        /\ kind # "cloud" /\ (Guard \/ ~EarlyTimings) => t.contents = c0
        /\ t.reports = (IF Guarded THEN e0 ELSE 0)
    BY <1>2 DEF Accounted, Taps
  <2>5. ~EarlyTimings => /\ t.done <=> (u0 > 0)
                         /\ t.notified = IF u0 > 0 THEN <<"usage">> ELSE <<>>
    BY <1>2 DEF Accounted
  <2>6. /\ z.contents <= c1
        /\ kind = "cloud" => z.contents = 0
        /\ kind # "cloud" /\ (Guard \/ ~EarlyTimings) => z.contents = c1
        /\ z.reports = (IF Guarded THEN e1 ELSE 0)
    <3> HIDE DEF u0, u1, c0, c1, e0, e1, line, z
    <3> QED
      BY <1>1, <1>5, <2>3, <2>4
  <2>7. ASSUME ~EarlyTimings
        PROVE  /\ z.done <=> (u1 > 0)
               /\ z.notified = IF u1 > 0 THEN <<"usage">> ELSE <<>>
    <3>1. line # "timings"
      BY <1>7, <2>7
    <3>2. CASE u0 > 0
      <4>1. t.done = TRUE /\ t.notified = <<"usage">>
        BY <1>2, <2>5, <2>7, <3>2
      <4>2. u1 > 0
        <5> HIDE DEF u0, u1, line
        <5> QED
          BY <1>1, <2>3, <3>2
      <4> HIDE DEF u0, u1, line, z
      <4> QED
        BY <1>5, <4>1, <4>2
    <3>3. CASE ~(u0 > 0) /\ line = "usage"
      <4>1. t.done = FALSE /\ t.notified = <<>>
        BY <1>2, <2>5, <2>7, <3>3
      <4>2. u1 > 0
        <5> HIDE DEF u0, u1, line
        <5> QED
          BY <1>1, <2>3, <3>3
      <4>3. Append(<<>>, "usage") = <<"usage">>
        OBVIOUS
      <4> HIDE DEF u0, u1, line, z
      <4> QED
        BY <1>5, <3>3, <4>1, <4>2, <4>3
    <3>4. CASE ~(u0 > 0) /\ line # "usage"
      <4>1. t.done = FALSE /\ t.notified = <<>>
        BY <1>2, <2>5, <2>7, <3>4
      <4>2. ~(u1 > 0)
        <5> HIDE DEF u0, u1, line
        <5> QED
          BY <1>1, <2>3, <3>4
      <4> HIDE DEF u0, u1, line, z
      <4> QED
        BY <1>5, <3>1, <3>4, <4>1, <4>2
    <3> QED
      BY <3>2, <3>3, <3>4
  <2>8. Accounted(z, T, k)
    <3> HIDE DEF z
    <3> QED
      BY <2>6, <2>7 DEF Accounted
  <2> QED
    BY <1>5, <1>6, <2>8
<1> QED
  BY <1>8, <1>9

\* One token more.
LEMMA FeedStep ==
  ASSUME NEW m \in Nat, NEW T \in [1..m -> Tokens], Ordered(T, m), Shaped(T, m),
         NEW k \in 0..(m - 1), NEW t, Fed(t, T, k), tracked = (kind # "cloud"), kind \in Kinds
  PROVE  Fed(Feed(t, T[k + 1]), T, k + 1)
<1> DEFINE x == T[k + 1]
           z == Feed(t, x)
<1>1. Closed(t) \in Taps /\ Accounted(Closed(t), T, k) /\ Closed(t).partial = "none"
  <2>1. k \in 0..m
    OBVIOUS
  <2> QED
    BY <2>1, LineHandled
<1>2. /\ t \in Taps /\ x \in Tokens /\ (k + 1) - 1 = k /\ k + 1 > 0
      /\ t.partial = IF t.done /\ ~Guarded THEN "none" ELSE OpenLine(T, k)
  BY DEF Fed
<1>3. /\ Closed(t).contents = t.contents + (IF t.partial = "content" /\ tracked THEN 1 ELSE 0)
      /\ Closed(t).reports = t.reports + (IF Guarded /\ t.partial = "error" THEN 1 ELSE 0)
      /\ Closed(t).done = (t.done \/ (~t.done /\ t.partial \in {"timings", "usage"}))
      /\ Closed(t).notified = IF ~t.done /\ t.partial \in {"timings", "usage"}
                                THEN Append(t.notified, t.partial) ELSE t.notified
  BY <1>2 DEF Closed, HandleLine, Taps
<1>4. ASSUME t.partial = "none"
      PROVE  /\ Closed(t).contents = t.contents /\ Closed(t).reports = t.reports
             /\ Closed(t).done = t.done /\ Closed(t).notified = t.notified
  BY <1>2, <1>3, <1>4 DEF Taps
<1>5. ASSUME NEW u \in Taps, u.contents = Closed(t).contents, u.reports = Closed(t).reports,
             u.done = Closed(t).done, u.notified = Closed(t).notified
      PROVE  Accounted(u, T, k)
  BY <1>1, <1>5 DEF Accounted
<1>6. CASE t.done /\ ~Guarded
  <2>1. z = t /\ t.partial = "none"
    BY <1>2, <1>6 DEF Feed
  <2>2. Accounted(t, T, k)
    BY <1>2, <1>4, <1>5, <2>1
  <2> QED
    BY <1>2, <1>6, <2>1, <2>2 DEF Fed
<1>7. CASE ~(t.done /\ ~Guarded) /\ x = "nl"
  <2>1. z = Closed(t)
    BY <1>7 DEF Feed, Closed
  <2>2. OpenLine(T, k + 1) = "none"
    BY <1>7 DEF OpenLine
  <2> QED
    BY <1>1, <1>2, <2>1, <2>2 DEF Fed
<1>8. CASE ~(t.done /\ ~Guarded) /\ x # "nl"
  <2>1. z = [t EXCEPT !.partial = x]
    BY <1>8 DEF Feed
  <2>2. OpenLine(T, k) = "none"
    <3>1. k = 0 \/ (k \in 1..(m - 1) /\ (T[k] = "nl" \/ T[k + 1] = "nl"))
      BY DEF Shaped
    <3> QED
      BY <1>8, <3>1 DEF OpenLine
  <2>3. t.partial = "none"
    BY <1>2, <2>2
  <2>4. /\ z \in Taps /\ z.partial = x /\ z.contents = t.contents /\ z.reports = t.reports
        /\ z.done = t.done /\ z.notified = t.notified
    BY <1>2, <1>8, <2>1 DEF Taps
  <2>5. Accounted(z, T, k)
    <3> HIDE DEF z
    <3> QED
      BY <1>4, <1>5, <2>3, <2>4
  <2>6. OpenLine(T, k + 1) = x
    BY <1>2, <1>8 DEF OpenLine
  <2> HIDE DEF z
  <2>7. Fed(z, T, k + 1)
    BY <1>2, <1>8, <2>4, <2>5, <2>6 DEF Fed
  <2> QED
    BY <2>7 DEF z
<1> QED
  BY <1>6, <1>7, <1>8

\* The loop of scan over n tokens.
LEMMA ScannedLoop ==
  ASSUME NEW n \in Nat, NEW piece \in [1..n -> Tokens], NEW t \in Taps
  PROVE  \E after \in [0..n -> Taps] :
           /\ after[0] = t
           /\ \A i \in 1..n : after[i] = Feed(after[i - 1], piece[i])
           /\ after[n] = Scanned(t, piece, n)
<1> DEFINE Unfolds(f) == f = [i \in 0..n |-> IF i = 0 THEN t ELSE Feed(f[i - 1], piece[i])]
           step == [i \in 1..n |-> [x \in Taps |-> Feed(x, piece[i])]]
           after == CHOOSE f : Unfolds(f)
<1>1. ASSUME NEW x \in Taps, NEW token \in Tokens PROVE Feed(x, token) \in Taps
  <2>1. [x EXCEPT !.partial = "none"] \in Taps /\ x.partial \in {"none"} \union Tokens
    BY DEF Taps
  <2>2. HandleLine([x EXCEPT !.partial = "none"], x.partial) \in Taps
    BY <2>1, HandledTap
  <2>3. token # "nl" => [x EXCEPT !.partial = token] \in Taps
    BY DEF Taps
  <2> QED
    BY <2>2, <2>3 DEF Feed
<1> HIDE DEF Taps
<1>2. step \in Loops(n, Taps)
  BY <1>1 DEF Loops
<1>3. PICK g \in [0..n -> Taps] : RunsThrough(g, t, step, n)
  <2> HIDE DEF step
  <2> QED
    BY <1>2, RecursionExists
<1>4. ASSUME NEW i \in 1..n PROVE g[i] = Feed(g[i - 1], piece[i])
  <2>1. g[i - 1] \in Taps
    OBVIOUS
  <2> QED
    BY <1>3, <2>1 DEF RunsThrough
<1>5. ASSUME NEW i \in 0..n
      PROVE  g[i] = IF i = 0 THEN t ELSE Feed(g[i - 1], piece[i])
  BY <1>3, <1>4 DEF RunsThrough
<1>6. Unfolds(g)
  BY <1>5
<1>7. ASSUME NEW f, Unfolds(f)
      PROVE  /\ f[0] = t
             /\ \A i \in 1..n : f[i] = Feed(f[i - 1], piece[i])
  BY <1>7
<1>8. ASSUME NEW f, Unfolds(f) PROVE f \in [0..n -> Taps]
  <2>1. f[0] \in Taps
    BY <1>8, <1>7
  <2> DEFINE T == {i \in 0..n : f[i] \in Taps}
  <2>2. 0 \in T
    BY <2>1
  <2>3. ASSUME NEW i \in 1..n, i - 1 \in T PROVE i \in T
    BY <1>1, <1>7, <1>8, <2>3
  <2>4. \A i \in 0..n : i \in T
    <3> HIDE DEF T
    <3> QED
      BY <2>2, <2>3, Induction
  <2> QED
    BY <1>8, <2>4
<1>9. Unfolds(after)
  <2> HIDE DEF Unfolds
  <2> QED
    BY <1>6, Zenon
<1>10. after[n] = Scanned(t, piece, n)
  BY DEF Scanned
<1> HIDE DEF after
<1> QED
  BY <1>7, <1>8, <1>9, <1>10

\* A piece of n tokens at the end of the k before it.
LEMMA PieceFed ==
  ASSUME NEW k \in Nat, NEW n \in Nat, NEW T \in [1..(k + n) -> Tokens],
         NEW piece \in [1..n -> Tokens], \A i \in 1..n : T[k + i] = piece[i],
         Shaped(T, k + n), Ordered(T, k + n),
         NEW t, Fed(t, T, k), tracked = (kind # "cloud"), kind \in Kinds
  PROVE  Fed(Scanned(t, piece, n), T, k + n)
<1>1. t \in Taps
  BY DEF Fed
<1>2. PICK after \in [0..n -> Taps] :
           /\ after[0] = t
           /\ \A i \in 1..n : after[i] = Feed(after[i - 1], piece[i])
           /\ after[n] = Scanned(t, piece, n)
  BY <1>1, ScannedLoop
<1> DEFINE F == {i \in 0..n : Fed(after[i], T, k + i)}
<1>3. 0 \in F
  BY <1>2
<1>4. ASSUME NEW i \in 1..n, i - 1 \in F PROVE i \in F
  <2> DEFINE j == k + (i - 1)
             m == k + n
             u == after[i - 1]
  <2>1. j \in 0..(m - 1) /\ j + 1 = k + i /\ m \in Nat
    OBVIOUS
  <2>2. Fed(u, T, j)
    BY <1>4
  <2>3. T[j + 1] = piece[i] /\ after[i] = Feed(u, piece[i])
    BY <1>2, <2>1
  <2> HIDE DEF u, j, F
  <2>4. Fed(Feed(u, T[j + 1]), T, j + 1)
    <3> HIDE DEF m
    <3>1. /\ T \in [1..m -> Tokens] /\ Shaped(T, m) /\ Ordered(T, m)
      BY DEF m
    <3> QED
      BY <2>1, <2>2, <3>1, FeedStep
  <2>5. Fed(after[i], T, k + i)
    BY <2>1, <2>3, <2>4
  <2> QED
    BY <2>5 DEF F
<1>5. \A i \in 0..n : i \in F
  <2> HIDE DEF F
  <2> QED
    BY <1>3, <1>4, Induction
<1> QED
  BY <1>2, <1>5

\* What was fed of a text does not depend on what follows.
LEMMA FedSame ==
  ASSUME NEW T, NEW U, NEW k \in Nat, \A i \in 1..k : T[i] = U[i], NEW t, Fed(t, T, k)
  PROVE  Fed(t, U, k)
<1>1. \A x : CountTo(x, T, k - 1) = CountTo(x, U, k - 1)
  <2> DEFINE j == k - 1
  <2>1. \A i \in 1..j : T[i] = U[i]
    OBVIOUS
  <2> HIDE DEF j
  <2>2. \A x : CountTo(x, T, j) = CountTo(x, U, j)
    BY <2>1, CountSame
  <2> QED
    BY <2>2 DEF j
<1>2. OpenLine(T, k) = OpenLine(U, k)
  BY DEF OpenLine
<1>3. Accounted(t, U, k - 1)
  BY <1>1 DEF Fed, Accounted
<1> QED
  BY <1>2, <1>3 DEF Fed

-----------------------------------------------------------------------------
(* The text of a response.                                                 *)

TextFits ==
  /\ sent \in Seq(Tokens \ {"injected"}) /\ Len(sent) <= 2 * MaxEvents
  /\ \A i \in 1..Len(sent) : sent[i] = "nl" <=> i % 2 = 0
  /\ Ordered(sent, Len(sent))
  /\ kind = "json" => Len(sent) <= 1

LEMMA TextShaped == TextFits => Shaped(sent, Len(sent))
<1> SUFFICES ASSUME TextFits, NEW i \in 1..(Len(sent) - 1)
             PROVE  sent[i] = "nl" \/ sent[i + 1] = "nl"
  BY DEF Shaped
<1>1. Len(sent) \in Nat
  BY LenProperties DEF TextFits
<1>2. i \in 1..Len(sent) /\ i + 1 \in 1..Len(sent)
  BY <1>1
<1>3. i % 2 = 0 \/ (i + 1) % 2 = 0
  OBVIOUS
<1> QED
  BY <1>2, <1>3 DEF TextFits

\* One token more, in its place.
LEMMA TextGrows ==
  ASSUME TextFits, kind' = kind, NEW x \in Tokens \ {"injected"}, sent' = Append(sent, x),
         Len(sent) + 1 <= 2 * MaxEvents, x = "nl" <=> (Len(sent) + 1) % 2 = 0,
         kind = "json" => Len(sent) = 0,
         x = "timings" => EarlyTimings,
         "usage" \in Range(sent) => x \notin {"content", "timings", "usage"},
         "done" \in Range(sent) => x \notin Payloads
  PROVE  TextFits'
<1> DEFINE n == Len(sent)
<1>1. n \in Nat /\ sent \in Seq(Tokens \ {"injected"}) /\ DOMAIN sent = 1..n
  BY LenProperties DEF TextFits
<1>2. /\ sent' \in Seq(Tokens \ {"injected"}) /\ Len(sent') = n + 1
      /\ \A i \in 1..n : sent'[i] = sent[i]
      /\ sent'[n + 1] = x
  BY <1>1, AppendProperties
<1>3. \A i \in 1..n : sent[i] \in Range(sent)
  BY <1>1 DEF Range
<1>4. /\ n + 1 <= 2 * MaxEvents /\ (x = "nl" <=> (n + 1) % 2 = 0)
      /\ \A i \in 1..n : sent[i] = "nl" <=> i % 2 = 0
      /\ Ordered(sent, n)
  BY DEF TextFits
<1>5. kind' = "json" => n + 1 <= 1
  BY <1>1
<1> HIDE DEF n
<1>6. ASSUME NEW i \in 1..(n + 1) PROVE sent'[i] = "nl" <=> i % 2 = 0
  <2>1. i = n + 1 \/ i \in 1..n
    BY <1>1
  <2> QED
    BY <1>2, <1>4, <2>1
<1>7. Ordered(sent', n + 1)
  <2>1. ASSUME NEW i \in 1..(n + 1), NEW j \in 1..(n + 1), i < j
        PROVE  /\ sent'[i] = "usage" => sent'[j] \notin {"content", "timings", "usage"}
               /\ sent'[i] = "done" => sent'[j] \notin Payloads
    <3>1. i \in 1..n /\ (j \in 1..n \/ j = n + 1)
      BY <1>1, <2>1
    <3>2. CASE j \in 1..n
      BY <1>2, <1>4, <2>1, <3>1, <3>2 DEF Ordered
    <3>3. CASE j = n + 1
      BY <1>2, <1>3, <3>1, <3>3
    <3> QED
      BY <3>1, <3>2, <3>3
  <2>2. ASSUME ~EarlyTimings, NEW i \in 1..(n + 1) PROVE sent'[i] # "timings"
    <3>1. i = n + 1 \/ i \in 1..n
      BY <1>1
    <3> QED
      BY <1>2, <1>4, <2>2, <3>1 DEF Ordered
  <2> QED
    BY <2>1, <2>2 DEF Ordered
<1>8. /\ sent' \in Seq(Tokens \ {"injected"}) /\ Len(sent') <= 2 * MaxEvents
      /\ \A i \in 1..Len(sent') : sent'[i] = "nl" <=> i % 2 = 0
      /\ Ordered(sent', Len(sent'))
      /\ kind' = "json" => Len(sent') <= 1
  BY <1>2, <1>4, <1>5, <1>6, <1>7
<1> QED
  BY <1>8 DEF TextFits, Ordered

LEMMA TextStep == TextFits /\ kind \in Kinds /\ Backend => TextFits' /\ kind' = kind
<1> SUFFICES ASSUME TextFits, kind \in Kinds, Backend PROVE TextFits' /\ kind' = kind
  OBVIOUS
<1> DEFINE n == Len(sent)
<1>1. n \in Nat /\ sent \in Seq(Tokens \ {"injected"}) /\ DOMAIN sent = 1..n /\ MaxEvents \in Nat
  BY LenProperties, BoundAssumption DEF TextFits
<1>2. /\ n <= 2 * MaxEvents
      /\ \A i \in 1..n : sent[i] = "nl" <=> i % 2 = 0
      /\ kind = "json" => n <= 1
  BY DEF TextFits
<1>3. n = 0 <=> sent = <<>>
  BY <1>1, EmptySeq
<1>4. Terminated <=> n % 2 = 0
  <2>1. CASE n = 0
    BY <1>3, <2>1 DEF Terminated
  <2>2. CASE n # 0
    <3>1. n \in 1..n
      BY <1>1, <2>2
    <3>2. Last(sent) = sent[n]
      BY DEF Last
    <3>3. Terminated <=> sent[n] = "nl"
      BY <1>3, <2>2, <3>2 DEF Terminated
    <3> HIDE DEF n
    <3> QED
      BY <1>2, <3>1, <3>3
  <2> QED
    BY <2>1, <2>2
<1>5. ASSUME NEW x \in Payloads, SendPayload(x) PROVE TextFits' /\ kind' = kind
  <2>1. /\ kind' = kind /\ sent' = Append(sent, x) /\ Terminated /\ n < 2 * MaxEvents
        /\ kind = "json" => sent = <<>>
        /\ x = "timings" => EarlyTimings
        /\ "usage" \in Range(sent) => x \in {"error", "done"}
        /\ "done" \notin Range(sent)
    BY <1>5 DEF SendPayload
  <2>2. n + 1 <= 2 * MaxEvents /\ x # "nl" /\ (n + 1) % 2 # 0 /\ x \in Tokens \ {"injected"}
    <3>1. n % 2 = 0
      BY <1>4, <2>1
    <3>2. n + 1 <= 2 * MaxEvents /\ (n + 1) % 2 # 0
      <4> HIDE DEF n
      <4> QED
        BY <1>1, <2>1, <3>1
    <3> QED
      BY <3>2 DEF Payloads, Tokens
  <2>3. kind = "json" => n = 0
    BY <1>3, <2>1
  <2> QED
    BY <2>1, <2>2, <2>3, TextGrows
<1>6. CASE SendNewline
  <2>1. kind' = kind /\ sent' = Append(sent, "nl") /\ ~Terminated /\ kind # "json"
    BY <1>6 DEF SendNewline
  <2>2. n + 1 <= 2 * MaxEvents /\ (n + 1) % 2 = 0
    <3>1. n % 2 # 0
      BY <1>4, <2>1
    <3> HIDE DEF n
    <3> QED
      BY <1>1, <1>2, <3>1
  <2>3. "nl" \in Tokens \ {"injected"} /\ "nl" \notin Payloads /\ "nl" # "timings"
    BY DEF Payloads, Tokens
  <2> QED
    BY <2>1, <2>2, <2>3, TextGrows
<1>7. ASSUME NEW how \in {"eof", "reset"}, NEW cut \in BOOLEAN, BackendEnds(how, cut)
      PROVE  TextFits' /\ kind' = kind
  <2>1. CASE ~cut
    <3>1. sent' = sent /\ kind' = kind
      BY <1>7, <2>1 DEF BackendEnds
    <3> QED
      BY <3>1 DEF TextFits, Ordered
  <2>2. CASE cut
    <3>1. /\ kind' = kind /\ sent' = Append(sent, "cut") /\ n < 2 * MaxEvents
          /\ IF kind = "json" THEN sent = <<>> ELSE Terminated
      BY <1>7, <2>2 DEF BackendEnds
    <3>2. n % 2 = 0
      BY <1>3, <1>4, <3>1
    <3>3. n + 1 <= 2 * MaxEvents /\ (n + 1) % 2 # 0
      <4> HIDE DEF n
      <4> QED
        BY <1>1, <3>1, <3>2
    <3>4. "cut" \in Tokens \ {"injected"} /\ "cut" \notin Payloads /\ "cut" # "nl"
          /\ "cut" \notin {"content", "timings", "usage"}
      BY DEF Payloads, Tokens
    <3>5. kind = "json" => n = 0
      BY <1>3, <3>1
    <3> QED
      BY <3>1, <3>3, <3>4, <3>5, TextGrows
  <2> QED
    BY <2>1, <2>2
<1> QED
  BY <1>5, <1>6, <1>7 DEF Backend

\* What was read is a text of its own.
LEMMA PrefixText ==
  ASSUME TextFits, NEW n \in 0..Len(sent)
  PROVE  LET c == SubSeq(sent, 1, n)
         IN  /\ c \in Seq(Tokens) /\ Len(c) = n /\ \A i \in 1..n : c[i] = sent[i]
             /\ Shaped(c, n) /\ Ordered(c, n)
<1> DEFINE c == SubSeq(sent, 1, n)
<1>1. Len(sent) \in Nat /\ \A i \in 1..Len(sent) : sent[i] \in Tokens
  <2>1. sent \in Seq(Tokens \ {"injected"})
    BY DEF TextFits
  <2> QED
    BY <2>1, LenProperties, ElementOfSeq
<1>2. /\ c \in Seq(Tokens) /\ Len(c) = n
      /\ \A i \in 1..n : c[i] = sent[i]
  <2>1. \A i \in 1..n : sent[i] \in Tokens
    BY <1>1
  <2>2. /\ c \in Seq(Tokens)
        /\ Len(c) = IF 1 <= n THEN n - 1 + 1 ELSE 0
        /\ \A i \in 1..n - 1 + 1 : c[i] = sent[1 + i - 1]
    BY <1>1, <2>1, SubSeqProperties
  <2> HIDE DEF c
  <2> QED
    BY <1>1, <2>2
<1>3. Shaped(sent, Len(sent)) /\ Ordered(sent, Len(sent))
  BY TextShaped DEF TextFits
<1> HIDE DEF c
<1>4. Shaped(c, n)
  <2> SUFFICES ASSUME NEW i \in 1..(n - 1) PROVE c[i] = "nl" \/ c[i + 1] = "nl"
    BY DEF Shaped
  <2>1. i \in 1..n /\ i + 1 \in 1..n /\ i \in 1..(Len(sent) - 1)
    BY <1>1
  <2> QED
    BY <1>2, <1>3, <2>1 DEF Shaped
<1>5. Ordered(c, n)
  <2>1. ASSUME NEW i \in 1..n PROVE i \in 1..Len(sent) /\ c[i] = sent[i]
    BY <1>1, <1>2
  <2> QED
    BY <1>3, <2>1 DEF Ordered
<1> QED
  BY <1>2, <1>4, <1>5 DEF c

\* A text and the error event behind it.
LEMMA ErrorText ==
  ASSUME TextFits
  PROVE  LET e == sent \o ErrorEvent
             n == Len(sent)
         IN  /\ e \in Seq(Tokens) /\ Len(e) = n + 5
             /\ \A i \in 1..n : e[i] = sent[i]
             /\ \A i \in {n + 1, n + 2, n + 4, n + 5} : e[i] = "nl"
             /\ e[n + 3] = "injected"
             /\ Shaped(e, n + 5) /\ Ordered(e, n + 5)
<1> DEFINE e == sent \o ErrorEvent
           n == Len(sent)
<1>1. /\ sent \in Seq(Tokens) /\ n \in Nat
      /\ Shaped(sent, n) /\ Ordered(sent, n)
  <2>1. sent \in Seq(Tokens \ {"injected"})
    BY DEF TextFits
  <2> QED
    BY <2>1, TextShaped, LenProperties DEF TextFits
<1>2. /\ e \in Seq(Tokens) /\ Len(e) = n + 5
      /\ \A i \in 1..n + 5 : e[i] = IF i <= n THEN sent[i] ELSE ErrorEvent[i - n]
  <2> DEFINE s == sent
             v == ErrorEvent
  <2>1. s \in Seq(Tokens) /\ v \in Seq(Tokens) /\ Len(v) = 5
    BY <1>1, ErrorEventIs
  <2> HIDE DEF s, v
  <2>2. /\ s \o v \in Seq(Tokens) /\ Len(s \o v) = Len(s) + Len(v)
        /\ \A i \in 1..Len(s) + Len(v) : (s \o v)[i] = IF i <= Len(s) THEN s[i] ELSE v[i - Len(s)]
    BY <2>1, ConcatProperties
  <2> QED
    BY <2>1, <2>2 DEF s, v
<1> HIDE DEF e, n
<1>3. /\ \A i \in 1..n : e[i] = sent[i]
      /\ e[n + 1] = ErrorEvent[1] /\ e[n + 2] = ErrorEvent[2] /\ e[n + 3] = ErrorEvent[3]
      /\ e[n + 4] = ErrorEvent[4] /\ e[n + 5] = ErrorEvent[5]
  <2>1. \A i \in 1..n : e[i] = sent[i]
    BY <1>1, <1>2
  <2>2. ASSUME NEW j \in 1..5 PROVE e[n + j] = ErrorEvent[j]
    <3>1. n + j \in 1..n + 5 /\ ~(n + j <= n) /\ (n + j) - n = j
      BY <1>1
    <3> QED
      BY <1>2, <3>1
  <2> QED
    BY <2>1, <2>2
<1>4. /\ e[n + 1] = "nl" /\ e[n + 2] = "nl" /\ e[n + 3] = "injected"
      /\ e[n + 4] = "nl" /\ e[n + 5] = "nl"
  BY <1>3, ErrorEventIs
<1>5. Shaped(e, n + 5)
  <2> DEFINE m == n + 5
  <2> SUFFICES ASSUME NEW i \in 1..(m - 1) PROVE e[i] = "nl" \/ e[i + 1] = "nl"
    <3> HIDE DEF m
    <3>1. (\A i \in 1..(m - 1) : e[i] = "nl" \/ e[i + 1] = "nl") => Shaped(e, m)
      BY DEF Shaped
    <3> QED
      BY <3>1 DEF m
  <2>1. i \in 1..(n - 1) \/ i = n \/ i = n + 1 \/ i = n + 2 \/ i = n + 3 \/ i = n + 4
    BY <1>1
  <2>2. CASE i \in 1..(n - 1)
    <3>1. i \in 1..n /\ i + 1 \in 1..n
      BY <1>1, <2>2
    <3> QED
      BY <1>1, <1>3, <2>2, <3>1 DEF Shaped
  <2>3. CASE i = n \/ i = n + 1 \/ i = n + 2 \/ i = n + 3 \/ i = n + 4
    <3>1. i + 1 = n + 1 \/ i = n + 1 \/ i = n + 2 \/ i + 1 = n + 4 \/ i = n + 4
      BY <1>1, <2>3
    <3> QED
      BY <1>4, <3>1
  <2> QED
    BY <2>1, <2>2, <2>3
<1>6. Ordered(e, n + 5)
  <2>1. ASSUME NEW i \in 1..(n + 5), i \notin 1..n PROVE e[i] \in {"nl", "injected"}
    <3>1. i = n + 1 \/ i = n + 2 \/ i = n + 3 \/ i = n + 4 \/ i = n + 5
      BY <1>1, <2>1
    <3> QED
      BY <1>4, <3>1
  <2>2. ASSUME NEW i \in 1..(n + 5), NEW j \in 1..(n + 5), i < j
        PROVE  /\ e[i] = "usage" => e[j] \notin {"content", "timings", "usage"}
               /\ e[i] = "done" => e[j] \notin Payloads
    <3>1. CASE j \in 1..n
      <4>1. i \in 1..n
        BY <1>1, <2>2, <3>1
      <4> QED
        BY <1>1, <1>3, <2>2, <3>1, <4>1 DEF Ordered
    <3>2. CASE j \notin 1..n
      BY <2>1, <3>2 DEF Payloads
    <3> QED
      BY <3>1, <3>2
  <2>3. ASSUME ~EarlyTimings, NEW i \in 1..(n + 5) PROVE e[i] # "timings"
    <3>1. CASE i \in 1..n
      BY <1>1, <1>3, <2>3, <3>1 DEF Ordered
    <3>2. CASE i \notin 1..n
      BY <2>1, <3>2
    <3> QED
      BY <3>1, <3>2
  <2> QED
    BY <2>2, <2>3 DEF Ordered
<1>7. \A i \in {n + 1, n + 2, n + 4, n + 5} : e[i] = "nl"
  BY <1>4
<1> QED
  BY <1>2, <1>3, <1>4, <1>5, <1>6, <1>7 DEF e, n

\* The event completes the open line and adds nothing of its own.
LEMMA ErrorCounts ==
  ASSUME TextFits, NEW x \in Payloads
  PROVE  CountTo(x, sent \o ErrorEvent, Len(sent) + 4) = CountTo(x, sent, Len(sent))
<1> DEFINE e == sent \o ErrorEvent
           n == Len(sent)
<1>1. /\ n \in Nat
      /\ \A i \in 1..n : e[i] = sent[i]
      /\ \A i \in {n + 1, n + 2, n + 4, n + 5} : e[i] = "nl"
      /\ e[n + 3] = "injected"
  BY ErrorText, LenProperties DEF TextFits
<1> HIDE DEF e, n
<1>2. ASSUME NEW i \in (n + 1)..(n + 4) PROVE e[i] # x
  <2>1. i = n + 1 \/ i = n + 2 \/ i = n + 3 \/ i = n + 4
    BY <1>1
  <2>2. e[i] = "nl" \/ e[i] = "injected"
    BY <1>1, <2>1
  <2> QED
    BY <2>2 DEF Payloads
<1>3. n + 4 \in Nat /\ n <= n + 4
  BY <1>1
<1>4. CountTo(x, e, n + 4) = CountTo(x, e, n)
  <2> DEFINE m == n + 4
  <2>1. m \in Nat /\ n <= m /\ \A i \in (n + 1)..m : e[i] # x
    BY <1>2, <1>3
  <2> HIDE DEF m
  <2>2. CountTo(x, e, m) = CountTo(x, e, n)
    BY <1>1, <2>1, CountMore
  <2> QED
    BY <2>2 DEF m
<1>5. CountTo(x, e, n) = CountTo(x, sent, n)
  BY <1>1, CountSame
<1> QED
  BY <1>4, <1>5 DEF e, n

\* The scanner takes a chunk of the copy.
LEMMA ChunkFed ==
  ASSUME NEW c \in Seq(Tokens), NEW chunk \in Seq(Tokens),
         Shaped(c \o chunk, Len(c \o chunk)), Ordered(c \o chunk, Len(c \o chunk)),
         Fed(tap, c, Len(c)), tracked = (kind # "cloud"), kind \in Kinds
  PROVE  Fed(Scan(chunk), c \o chunk, Len(c \o chunk))
<1> DEFINE k == Len(c)
           n == Len(chunk)
           T == c \o chunk
<1>1. /\ k \in Nat /\ n \in Nat /\ chunk \in [1..n -> Tokens]
  BY LenProperties
<1>2. /\ T \in Seq(Tokens) /\ Len(T) = k + n
      /\ \A i \in 1..k + n : T[i] = IF i <= k THEN c[i] ELSE chunk[i - k]
  BY ConcatProperties
<1>3. T \in [1..(k + n) -> Tokens]
  BY <1>2, LenProperties
<1> HIDE DEF T, k, n
<1>4. \A i \in 1..k : c[i] = T[i]
  BY <1>1, <1>2
<1>5. ASSUME NEW i \in 1..n PROVE T[k + i] = chunk[i]
  <2>1. k + i \in 1..k + n /\ ~(k + i <= k) /\ (k + i) - k = i
    BY <1>1
  <2> QED
    BY <1>2, <2>1
<1>6. Fed(tap, T, k)
  <2>1. Fed(tap, c, k)
    BY DEF k
  <2> QED
    BY <1>1, <1>4, <2>1, FedSame
<1>7. Shaped(T, k + n) /\ Ordered(T, k + n)
  BY <1>2 DEF T
<1>8. Fed(Scanned(tap, chunk, n), T, k + n)
  BY <1>1, <1>3, <1>5, <1>6, <1>7, PieceFed
<1>9. Fed(Scan(chunk), T, Len(T))
  BY <1>2, <1>8 DEF Scan, n
<1> QED
  BY <1>9 DEF T

-----------------------------------------------------------------------------
(* The tap beside the copy.                                                *)

\* What a body that is parsed as a whole gives.
BodyHeard(t, T) ==
  /\ ~EarlyTimings /\ (\E i \in 1..Len(T) : T[i] = "usage") => t.notified = <<"usage">>
  /\ Guard /\ kind = "json" => t.reports = CountTo("error", T, Len(T))

AllHeard(t, T) == IF IsStream THEN Accounted(t, T, Len(T)) ELSE BodyHeard(t, T)

TapFits ==
  /\ tap \in Taps
  /\ copy # "done" => tracked = (kind # "cloud")
  /\ IsStream /\ (copy = "done" => ending # "eof") => Fed(tap, toClient, Len(toClient))
  /\ ~IsStream /\ copy # "done" => tap = FreshTap
  /\ copy = "done" /\ ~gone /\ ending = "eof" => AllHeard(tap, sent)

\* The consumers know of nothing that was not sent.
TapBounds ==
  /\ tap.contents <= CountTo("content", sent, Len(sent))
  /\ tap.reports <= CountTo("error", sent, Len(sent))

LEMMA BodyParsed ==
  ASSUME TextFits, kind \in Kinds, ~IsStream, tap = FreshTap
  PROVE  LET t == PublishFromBody(sent)
         IN  /\ t \in Taps /\ BodyHeard(t, sent)
             /\ t.contents = 0 /\ t.reports <= CountTo("error", sent, Len(sent))
<1> DEFINE n == Len(sent)
           data == {i \in DOMAIN sent : sent[i] \in {"timings", "usage"}}
           first == {i \in data : \A j \in data : i <= j}
           d == IF data = {} THEN <<>> ELSE <<sent[CHOOSE i \in first : TRUE]>>
           r == IF Guarded /\ data = {} /\ sent # <<>> /\ sent[1] = "error" THEN 1 ELSE 0
           t == PublishFromBody(sent)
<1>1. n \in Nat /\ sent \in Seq(Tokens \ {"injected"}) /\ DOMAIN sent = 1..n
  BY LenProperties DEF TextFits
<1>2. t = [FreshTap EXCEPT !.notified = d, !.done = (data # {}), !.reports = r]
  <2> HIDE DEF data, d
  <2>1. t = [FreshTap EXCEPT !.notified = IF data = {} THEN <<>> ELSE <<sent[CHOOSE i \in first : TRUE]>>,
                             !.done = (data # {}),
                             !.reports = IF Guarded /\ (data = {} /\ sent # <<>> /\ sent[1] = "error") THEN 1 ELSE 0]
    BY DEF PublishFromBody, data
  <2> QED
    BY <2>1 DEF d
<1>3. ASSUME data # {}
      PROVE  \E i \in data : d = <<sent[i]>>
  <2>1. data \subseteq Nat
    BY <1>1
  <2>2. first # {}
    <3> HIDE DEF data
    <3>1. PICK i \in data : \A j \in data : i <= j
      BY <1>3, <2>1, LeastNatural
    <3> QED
      BY <3>1
  <2>3. (CHOOSE i \in first : TRUE) \in first
    BY <2>2
  <2>4. (CHOOSE i \in first : TRUE) \in data
    BY <2>3
  <2> QED
    BY <1>3, <2>4
<1>4. \A i \in data : sent[i] \in {"timings", "usage"} /\ i \in 1..n
  BY <1>1
<1>5. d \in Seq({"timings", "usage"})
  <2>1. CASE data = {}
    BY <2>1
  <2>2. CASE data # {}
    <3>1. PICK i \in data : d = <<sent[i]>>
      BY <1>3, <2>2
    <3>2. sent[i] \in {"timings", "usage"}
      BY <1>4
    <3> DEFINE x == sent[i]
    <3> HIDE DEF x, d
    <3>3. x \in {"timings", "usage"} /\ d = <<x>>
      BY <3>1, <3>2 DEF x
    <3> QED
      BY <3>3
  <2> QED
    BY <2>1, <2>2
<1>6. ASSUME ~EarlyTimings, NEW u \in 1..n, sent[u] = "usage" PROVE d = <<"usage">>
  <2>1. data # {}
    BY <1>1, <1>6
  <2>2. PICK i \in data : d = <<sent[i]>>
    BY <1>3, <2>1
  <2>3. sent[i] = "usage"
    BY <1>4, <1>6 DEF TextFits, Ordered
  <2> QED
    BY <2>2, <2>3
<1>7. r \in {0, 1} /\ (r = 1 => n > 0 /\ sent[1] = "error")
  <2>1. sent # <<>> => n > 0
    BY <1>1, EmptySeq
  <2> QED
    BY <2>1
<1>8. r <= CountTo("error", sent, n)
  <2>1. CountTo("error", sent, n) \in Nat
    BY <1>1, CountNext
  <2>2. r = 1 => CountTo("error", sent, n) > 0
    <3>1. r = 1 => 1 \in 1..n /\ sent[1] = "error"
      BY <1>1, <1>7
    <3> QED
      BY <1>1, <3>1, CountZero
  <2> HIDE DEF r
  <2> QED
    BY <1>7, <2>1, <2>2
<1>9. ASSUME Guard, kind = "json" PROVE r = CountTo("error", sent, n)
  <2>1. Guarded /\ n <= 1
    BY <1>9 DEF Guarded, TextFits
  <2>2. CountTo("error", sent, 0) = 0
    BY CountNext, 0 \in Nat
  <2>3. CountTo("error", sent, 1) = IF sent[1] = "error" THEN 1 ELSE 0
    <3>1. CountTo("error", sent, 0 + 1) = CountTo("error", sent, 0) + (IF sent[0 + 1] = "error" THEN 1 ELSE 0)
      BY CountNext, 0 \in Nat
    <3> QED
      BY <2>2, <3>1
  <2>4. CASE n = 0
    <3>1. r = 0
      BY <1>7, <2>4
    <3> QED
      BY <2>2, <2>4, <3>1
  <2>5. CASE n = 1
    <3>1. sent # <<>>
      BY <2>5, EmptySeq
    <3>2. sent[1] = "error" => data = {}
      BY <1>1, <2>5
    <3>3. r = IF sent[1] = "error" THEN 1 ELSE 0
      <4> HIDE DEF data
      <4> QED
        BY <2>1, <3>1, <3>2
    <3> QED
      BY <2>3, <2>5, <3>3
  <2> QED
    BY <1>1, <2>1, <2>4, <2>5
<1> HIDE DEF data, d, r, t
<1>10. /\ t \in Taps /\ t.notified = d /\ t.reports = r /\ t.contents = 0
  <2>1. FreshTap \in Taps /\ FreshTap.contents = 0
    BY DEF FreshTap, Taps
  <2>2. r \in Nat /\ (data # {}) \in BOOLEAN
    BY <1>7
  <2> QED
    BY <1>2, <1>5, <2>1, <2>2 DEF Taps
<1>11. BodyHeard(t, sent)
  BY <1>6, <1>9, <1>10 DEF BodyHeard, n
<1> QED
  BY <1>8, <1>10, <1>11 DEF t, n

\* What is fed of a prefix, or of the whole text and its error event, was sent.
LEMMA FedBounds ==
  ASSUME TextFits, NEW T,
         \/ \E n \in 0..Len(sent) : T = SubSeq(sent, 1, n)
         \/ T = sent \o ErrorEvent,
         NEW t, Fed(t, T, Len(T))
  PROVE  /\ t.contents <= CountTo("content", sent, Len(sent))
         /\ t.reports <= CountTo("error", sent, Len(sent))
<1> DEFINE k == Len(T)
<1>1. Len(sent) \in Nat
  BY LenProperties DEF TextFits
<1>2. ASSUME NEW x \in Payloads
      PROVE  /\ CountTo(x, T, k - 1) <= CountTo(x, sent, Len(sent))
             /\ CountTo(x, sent, Len(sent)) \in Nat
  <2>0. CountTo(x, sent, Len(sent)) \in Nat
    BY <1>1, CountNext
  <2>1. ASSUME NEW n \in 0..Len(sent), T = SubSeq(sent, 1, n)
        PROVE  CountTo(x, T, k - 1) <= CountTo(x, sent, Len(sent))
    <3>1. k = n /\ \A i \in 1..n : T[i] = sent[i]
      BY <2>1, PrefixText
    <3>2. CASE n = 0
      <4>1. CountTo(x, T, 0 - 1) = 0
        BY CountNext, 0 \in Nat
      <4> HIDE DEF k
      <4> QED
        BY <2>0, <3>1, <3>2, <4>1
    <3>3. CASE n # 0
      <4> DEFINE j == n - 1
      <4>1. j \in Nat /\ j <= Len(sent) /\ \A i \in 1..j : T[i] = sent[i]
        BY <1>1, <3>1, <3>3
      <4> HIDE DEF j, k
      <4>2. CountTo(x, T, j) = CountTo(x, sent, j)
        BY <4>1, CountSame
      <4>3. CountTo(x, sent, j) <= CountTo(x, sent, Len(sent))
        BY <1>1, <4>1, CountMore
      <4> QED
        BY <3>1, <4>2, <4>3 DEF j
    <3> QED
      BY <3>2, <3>3
  <2>2. ASSUME T = sent \o ErrorEvent
        PROVE  CountTo(x, T, k - 1) <= CountTo(x, sent, Len(sent))
    <3>1. k - 1 = Len(sent) + 4
      BY <1>1, <2>2, ErrorText
    <3>2. CountTo(x, T, Len(sent) + 4) = CountTo(x, sent, Len(sent))
      BY <2>2, ErrorCounts
    <3> HIDE DEF k
    <3> QED
      BY <2>0, <3>1, <3>2
  <2> QED
    BY <2>0, <2>1, <2>2
<1>3. /\ t.contents <= CountTo("content", T, k - 1)
      /\ t.reports = IF Guarded THEN CountTo("error", T, k - 1) ELSE 0
      /\ t.contents \in Nat
  BY DEF Fed, Accounted, Taps
<1>4. CountTo("content", T, k - 1) \in Nat
  <2>1. k \in Nat
    BY <1>1, PrefixText, ErrorText
  <2>2. CASE k = 0
    <3>1. CountTo("content", T, 0 - 1) = 0
      BY CountNext, 0 \in Nat
    <3> HIDE DEF k
    <3> QED
      BY <2>2, <3>1
  <2>3. CASE k # 0
    <3> DEFINE j == k - 1
    <3>1. j \in Nat
      BY <2>1, <2>3
    <3> HIDE DEF j
    <3>2. CountTo("content", T, j) \in Nat
      BY <3>1, CountNext
    <3> QED
      BY <3>2 DEF j
  <2> QED
    BY <2>2, <2>3
<1>5. "content" \in Payloads /\ "error" \in Payloads
  BY DEF Payloads
<1> HIDE DEF k
<1>6. /\ CountTo("content", T, k - 1) <= CountTo("content", sent, Len(sent))
      /\ CountTo("content", sent, Len(sent)) \in Nat
      /\ CountTo("error", T, k - 1) <= CountTo("error", sent, Len(sent))
      /\ CountTo("error", sent, Len(sent)) \in Nat
  BY <1>2, <1>5
<1> QED
  BY <1>3, <1>4, <1>6

TapInv == PipelineInv /\ TextFits /\ TapFits /\ TapBounds

LEMMA TapStarts == Init => TapInv
<1> SUFFICES ASSUME Init PROVE TapInv
  OBVIOUS
<1>1. /\ sent = <<>> /\ toClient = <<>> /\ tap = FreshTap /\ kind \in Kinds
      /\ copy = "call" /\ tracked = (kind # "cloud")
  BY DEF Init, Wrapped
<1>2. Len(sent) = 0 /\ Len(toClient) = 0 /\ sent \in Seq(Tokens \ {"injected"})
  BY <1>1, EmptySeq
<1>3. 0 <= 2 * MaxEvents
  BY BoundAssumption
<1>4. TextFits
  BY <1>2, <1>3 DEF TextFits, Ordered
<1>5. FreshTap \in Taps /\ FreshTap.contents = 0 /\ FreshTap.reports = 0
      /\ FreshTap.notified = <<>> /\ FreshTap.done = FALSE /\ FreshTap.partial = "none"
  BY DEF FreshTap, Taps
<1>6. \A x, T : CountTo(x, T, 0) = 0 /\ CountTo(x, T, 0 - 1) = 0
  BY CountNext, 0 \in Nat
<1>7. Accounted(FreshTap, toClient, 0 - 1)
  <2> DEFINE j == 0 - 1
  <2>1. \A x, T : CountTo(x, T, j) = 0
    BY <1>6
  <2> HIDE DEF j
  <2>2. CountTo("content", toClient, j) = 0 /\ CountTo("error", toClient, j) = 0
        /\ CountTo("usage", toClient, j) = 0
    BY <2>1
  <2>3. /\ FreshTap.contents <= CountTo("content", toClient, j)
        /\ FreshTap.contents = CountTo("content", toClient, j)
        /\ FreshTap.reports = IF Guarded THEN CountTo("error", toClient, j) ELSE 0
    BY <1>5, <2>2
  <2>4. FreshTap.done <=> (CountTo("usage", toClient, j) > 0)
    <3>1. ~(CountTo("usage", toClient, j) > 0)
      BY <2>2
    <3>2. FreshTap.done = FALSE
      BY <1>5
    <3> QED
      BY <3>1, <3>2
  <2>5. FreshTap.notified = IF CountTo("usage", toClient, j) > 0 THEN <<"usage">> ELSE <<>>
    BY <1>5, <2>2
  <2>6. Accounted(FreshTap, toClient, j)
    BY <1>5, <2>3, <2>4, <2>5, Zenon DEF Accounted
  <2> QED
    BY <2>6 DEF j
<1>8. Fed(tap, toClient, Len(toClient))
  <2>1. OpenLine(toClient, 0) = "none"
    BY DEF OpenLine
  <2>2. Fed(FreshTap, toClient, 0)
    BY <1>5, <1>7, <2>1 DEF Fed
  <2> QED
    BY <1>1, <1>2, <2>2
<1>9. TapFits
  BY <1>1, <1>5, <1>8 DEF TapFits
<1>10. TapBounds
  BY <1>1, <1>2, <1>5, <1>6 DEF TapBounds
<1> QED
  BY <1>4, <1>9, <1>10, PipelineInit DEF TapInv

\* The copy that goes on, with the tap or without it.
LEMMA TapCopies ==
  ASSUME TapInv, CopyLoop
  PROVE  TapFits' /\ TapBounds'
<1> USE DEF backendVars, guardVars
<1>1. /\ Types /\ (Clean \/ Told) /\ Failures /\ Endings /\ TextFits /\ TapFits /\ TapBounds
      /\ kind \in Kinds
  BY DEF TapInv, PipelineInv, Types
<1>2. /\ Len(sent) \in Nat /\ sent \in Seq(Tokens) /\ toClient \in Seq(Tokens)
  BY <1>1, LenProperties DEF Types
<1>3. kind' = kind /\ sent' = sent /\ ending' = ending /\ gone' = gone
  BY DEF CopyLoop, ServePending, ReturnFailed, CallInner, AbortCopy, ReadData, ReadEOF, ReadFails, BodyFails
<1>4. ASSUME Fed(tap', toClient', Len(toClient'))
      PROVE  Fed(tap, toClient, Len(toClient))'
  BY <1>3, <1>4 DEF Fed, Accounted, Guarded
<1>5. ASSUME tap'.contents <= CountTo("content", sent, Len(sent)),
             tap'.reports <= CountTo("error", sent, Len(sent))
      PROVE  TapBounds'
  BY <1>3, <1>5 DEF TapBounds
<1>6. ASSUME NEW chunk \in Seq(Tokens), IsStream, copy # "done", copy' = "call", tracked' = tracked,
             tap' = Scan(chunk), toClient' = toClient \o chunk,
             \/ \E n \in 0..Len(sent) : toClient' = SubSeq(sent, 1, n)
             \/ toClient' = sent \o ErrorEvent
      PROVE  TapFits' /\ TapBounds'
  <2>1. Shaped(toClient', Len(toClient')) /\ Ordered(toClient', Len(toClient'))
    <3>1. ASSUME NEW n \in 0..Len(sent), toClient' = SubSeq(sent, 1, n)
          PROVE  Shaped(toClient', Len(toClient')) /\ Ordered(toClient', Len(toClient'))
      BY <1>1, <3>1, PrefixText
    <3>2. ASSUME toClient' = sent \o ErrorEvent
          PROVE  Shaped(toClient', Len(toClient')) /\ Ordered(toClient', Len(toClient'))
      BY <1>1, <3>2, ErrorText
    <3> QED
      BY <1>6, <3>1, <3>2
  <2>2. Fed(tap, toClient, Len(toClient)) /\ tracked = (kind # "cloud")
    BY <1>1, <1>6 DEF TapFits
  <2>3. Fed(tap', toClient', Len(toClient'))
    BY <1>1, <1>2, <1>6, <2>1, <2>2, ChunkFed
  <2>4. TapBounds'
    BY <1>1, <1>5, <1>6, <2>3, FedBounds
  <2>5. tap' \in Taps
    BY <2>3 DEF Fed
  <2>6. IsStream'
    BY <1>3, <1>6 DEF IsStream
  <2>7. TapFits'
    BY <1>3, <1>4, <1>6, <2>2, <2>3, <2>5, <2>6 DEF TapFits
  <2> QED
    BY <2>4, <2>7
<1>7. CASE ServePending
  <2>1. Clean /\ nread = Len(sent) /\ IsStream
    BY <1>1, <1>7 DEF ServePending, Failures
  <2>2. toClient = sent
    BY <1>2, <2>1, SubSeqFull DEF Clean, Copied
  <2>3. ErrorEvent \in Seq(Tokens)
    BY ErrorEventIs
  <2>4. /\ copy # "done" /\ copy' = "call" /\ tracked' = tracked /\ tap' = Scan(ErrorEvent)
        /\ toClient' = toClient \o ErrorEvent
    BY <1>7 DEF ServePending
  <2> QED
    BY <1>6, <2>1, <2>2, <2>3, <2>4
<1>8. ASSUME tap' = tap, toClient' = toClient, copy # "done",
             copy' = "done" => gone \/ ending # "eof",
             copy' # "done" => tracked' = tracked
      PROVE  TapFits' /\ TapBounds'
  <2>1. TapBounds'
    BY <1>1, <1>5, <1>8 DEF TapBounds
  <2>2. /\ tap \in Taps /\ tracked = (kind # "cloud")
        /\ IsStream => Fed(tap, toClient, Len(toClient))
        /\ ~IsStream => tap = FreshTap
    BY <1>1, <1>8 DEF TapFits
  <2>3. IsStream' = IsStream
    BY <1>3 DEF IsStream
  <2>4. IsStream' => Fed(tap, toClient, Len(toClient))'
    <3>1. ASSUME IsStream PROVE Fed(tap, toClient, Len(toClient))'
      <4>1. Fed(tap', toClient', Len(toClient'))
        BY <1>8, <2>2, <3>1
      <4> QED
        BY <1>4, <4>1
    <3> QED
      BY <2>3, <3>1
  <2>5. /\ tap' \in Taps
        /\ copy' # "done" => tracked' = (kind' # "cloud")
        /\ ~IsStream' => tap' = FreshTap
        /\ ~(copy' = "done" /\ ~gone' /\ ending' = "eof")
    BY <1>3, <1>8, <2>2, <2>3
  <2>6. FreshTap' = FreshTap
    BY DEF FreshTap
  <2>7. TapFits'
    BY <2>4, <2>5, <2>6 DEF TapFits
  <2> QED
    BY <2>1, <2>7
<1>9. CASE ReturnFailed \/ AbortCopy \/ CallInner
  <2>1. /\ tap' = tap /\ toClient' = toClient /\ copy # "done"
        /\ copy' = "done" => failed \/ gone
        /\ copy' # "done" => tracked' = tracked
    BY <1>9 DEF ReturnFailed, AbortCopy, CallInner, Finish
  <2>2. copy' = "done" => gone \/ ending # "eof"
    BY <1>1, <2>1 DEF Failures
  <2> QED
    BY <1>8, <2>1, <2>2
<1>10. ASSUME copy = "blocked" PROVE Clean
  BY <1>1, <1>10 DEF Failures, Told
<1>11. ASSUME NEW n \in 1..Len(Unread), ReadData(n) PROVE TapFits' /\ TapBounds'
  <2>1. /\ copy = "blocked" /\ copy' = "call" /\ tracked' = tracked
        /\ toClient' = toClient \o SubSeq(Unread, 1, n)
        /\ tap' = TapData(SubSeq(Unread, 1, n))
    BY <1>11 DEF ReadData
  <2>2. n \in 0..Len(Unread)
    OBVIOUS
  <2>3. /\ SubSeq(Unread, 1, n) \in Seq(Tokens)
        /\ nread + n \in 0..Len(sent)
        /\ toClient \o SubSeq(Unread, 1, n) = SubSeq(sent, 1, nread + n)
    BY <1>1, <1>10, <2>1, <2>2, ReadCopies
  <2>4. CASE IsStream
    <3>1. tap' = Scan(SubSeq(Unread, 1, n))
      BY <2>1, <2>4 DEF TapData
    <3>2. \E m \in 0..Len(sent) : toClient' = SubSeq(sent, 1, m)
      BY <2>1, <2>3
    <3> QED
      BY <1>6, <2>1, <2>3, <2>4, <3>1, <3>2
  <2>5. CASE ~IsStream
    <3>1. tap' = tap /\ tap = FreshTap /\ tracked = (kind # "cloud") /\ tap \in Taps
      BY <1>1, <2>1, <2>5 DEF TapData, TapFits
    <3>2. TapBounds'
      BY <1>1, <1>5, <3>1 DEF TapBounds
    <3>3. ~IsStream' /\ FreshTap' = FreshTap
      BY <1>3, <2>5 DEF IsStream, FreshTap
    <3>4. TapFits'
      BY <1>3, <2>1, <3>1, <3>3 DEF TapFits
    <3> QED
      BY <3>2, <3>4
  <2> QED
    BY <2>4, <2>5
<1>12. CASE ReadEOF
  <2>1. /\ copy = "blocked" /\ copy' = "done" /\ ending = "eof"
        /\ tap' = TapEOF(Unread)
    BY <1>12 DEF ReadEOF, Finish
  <2>2. Unread \in Seq(Tokens) /\ toClient \o Unread = sent
    BY <1>1, <1>10, <2>1, ReadCopiesAll
  <2>3. /\ tracked = (kind # "cloud")
        /\ IsStream => Fed(tap, toClient, Len(toClient))
        /\ ~IsStream => tap = FreshTap
    BY <1>1, <2>1 DEF TapFits
  <2>4. /\ tap' \in Taps /\ AllHeard(tap', sent)
        /\ tap'.contents <= CountTo("content", sent, Len(sent))
        /\ tap'.reports <= CountTo("error", sent, Len(sent))
    <3>1. CASE IsStream
      <4>1. tap' = Closed(Scan(Unread))
        BY <2>1, <3>1 DEF TapEOF, FlushTrailingLine, Closed
      <4>2. Shaped(sent, Len(sent)) /\ Ordered(sent, Len(sent))
        BY <1>1, TextShaped DEF TextFits
      <4>3. Fed(Scan(Unread), sent, Len(sent))
        BY <1>1, <1>2, <2>2, <2>3, <3>1, <4>2, ChunkFed
      <4>4. sent \in [1..Len(sent) -> Tokens] /\ Len(sent) \in 0..Len(sent)
        BY <1>2, LenProperties
      <4>5. tap' \in Taps /\ Accounted(tap', sent, Len(sent))
        BY <1>1, <1>2, <2>3, <4>1, <4>2, <4>3, <4>4, LineHandled
      <4>6. CountTo("error", sent, Len(sent)) \in Nat
        BY <1>2, CountNext
      <4> QED
        BY <3>1, <4>5, <4>6 DEF AllHeard, Accounted
    <3>2. CASE ~IsStream
      <4>1. tap' = PublishFromBody(sent)
        BY <2>1, <2>2, <3>2 DEF TapEOF
      <4>2. CountTo("content", sent, Len(sent)) \in Nat
        BY <1>2, CountNext
      <4>3. /\ tap' \in Taps /\ BodyHeard(tap', sent)
            /\ tap'.contents = 0 /\ tap'.reports <= CountTo("error", sent, Len(sent))
        BY <1>1, <2>3, <3>2, <4>1, BodyParsed
      <4> QED
        BY <3>2, <4>2, <4>3 DEF AllHeard
    <3> QED
      BY <3>1, <3>2
  <2>5. AllHeard(tap, sent)'
    BY <1>3, <2>4 DEF AllHeard, BodyHeard, Accounted, IsStream, Guarded
  <2>6. TapFits'
    BY <1>3, <2>1, <2>4, <2>5 DEF TapFits
  <2> QED
    BY <1>5, <2>4, <2>6
<1>13. CASE ReadFails
  <2> DEFINE chunk == IF closed THEN <<>> ELSE Unread
  <2>1. /\ copy = "blocked" /\ copy' = "call" /\ tracked' = tracked /\ IsStream
        /\ toClient' = toClient \o chunk /\ tap' = Scan(chunk)
    BY <1>13 DEF ReadFails
  <2>2. chunk \in Seq(Tokens) /\ \E n \in 0..Len(sent) : toClient \o chunk = SubSeq(sent, 1, n)
    <3>1. CASE closed
      <4>1. chunk = <<>> /\ chunk \in Seq(Tokens) /\ toClient \o <<>> = toClient
        BY <1>2, <3>1, EmptySeq, ConcatEmptySeq
      <4>2. toClient = SubSeq(sent, 1, nread) /\ nread \in 0..Len(sent)
        BY <1>1, <1>10, <2>1 DEF Clean, Copied, Types
      <4> QED
        BY <4>1, <4>2
    <3>2. CASE ~closed
      <4>1. chunk = Unread
        BY <3>2
      <4>2. Unread \in Seq(Tokens) /\ toClient \o Unread = SubSeq(sent, 1, Len(sent))
        BY <1>1, <1>10, <2>1, ReadCopiesAll
      <4>3. Len(sent) \in 0..Len(sent)
        BY <1>2
      <4> QED
        BY <4>1, <4>2, <4>3
    <3> QED
      BY <3>1, <3>2
  <2> HIDE DEF chunk
  <2> QED
    BY <1>6, <2>1, <2>2
<1>14. CASE BodyFails
  <2>1. /\ copy = "blocked" /\ copy' = "done" /\ ~IsStream /\ tap' = tap
        /\ closed \/ ending = "reset"
    BY <1>14 DEF BodyFails, Finish
  <2>2. gone \/ ending # "eof"
    BY <1>1, <2>1 DEF Failures
  <2>3. TapBounds'
    BY <1>1, <1>5, <2>1 DEF TapBounds
  <2>4. tap' \in Taps /\ ~IsStream'
    BY <1>1, <1>3, <2>1 DEF TapFits, IsStream
  <2>5. TapFits'
    BY <1>3, <2>1, <2>2, <2>4 DEF TapFits
  <2> QED
    BY <2>3, <2>5
<1> QED
  BY <1>7, <1>9, <1>11, <1>12, <1>13, <1>14 DEF CopyLoop

\* The backend sends on, the client leaves, a new response starts.
LEMMA TapStep == TapInv /\ [Next]_vars => TapInv'
<1> SUFFICES ASSUME TapInv, [Next]_vars PROVE TapInv'
  OBVIOUS
<1>1. PipelineInv' /\ PipelineInv /\ TextFits /\ TapFits /\ TapBounds /\ kind \in Kinds
  BY PipelineStep DEF TapInv, PipelineInv, Types
<1>2. Len(sent) \in Nat /\ sent \in Seq(Tokens) /\ (copy = "done" /\ ~gone => ending # "open")
  BY <1>1, LenProperties DEF PipelineInv, Types, Endings
<1>3. ASSUME kind' = kind, tap' = tap, toClient' = toClient, copy' = copy, tracked' = tracked,
             ending' = ending \/ ending = "open", gone' = gone \/ copy # "done",
             ending = "open" \/ sent' = sent
      PROVE  TapFits'
  <2>1. /\ tap \in Taps
        /\ copy # "done" => tracked = (kind # "cloud")
        /\ IsStream /\ (copy = "done" => ending # "eof") => Fed(tap, toClient, Len(toClient))
        /\ ~IsStream /\ copy # "done" => tap = FreshTap
        /\ copy = "done" /\ ~gone /\ ending = "eof" => AllHeard(tap, sent)
    BY <1>1 DEF TapFits
  <2>2. IsStream' = IsStream /\ FreshTap' = FreshTap
    BY <1>3 DEF IsStream, FreshTap
  <2>3. Fed(tap, toClient, Len(toClient)) => Fed(tap, toClient, Len(toClient))'
    BY <1>3 DEF Fed, Accounted, Guarded, Taps
  <2>4. ASSUME copy' = "done", ~gone', ending' = "eof" PROVE AllHeard(tap, sent)'
    <3>1. copy = "done" /\ ~gone /\ ending = "eof" /\ sent' = sent
      BY <1>2, <1>3, <2>4
    <3>2. AllHeard(tap, sent)
      BY <2>1, <3>1
    <3> QED
      BY <1>3, <3>1, <3>2 DEF AllHeard, BodyHeard, Accounted, IsStream, Guarded
  <2>5. IsStream' /\ (copy' = "done" => ending' # "eof") => Fed(tap, toClient, Len(toClient))'
    <3>1. (copy' = "done" => ending' # "eof") => (copy = "done" => ending # "eof")
      BY <1>3
    <3> QED
      BY <2>1, <2>2, <2>3, <3>1
  <2>6. /\ tap' \in Taps /\ (copy' # "done" => tracked' = (kind' # "cloud"))
        /\ ~IsStream' /\ copy' # "done" => tap' = FreshTap
    BY <1>3, <2>1, <2>2
  <2> QED
    BY <2>2, <2>4, <2>5, <2>6 DEF TapFits
<1>4. ASSUME Backend PROVE TapInv'
  <2>1. TextFits' /\ kind' = kind
    BY <1>1, <1>4, TextStep
  <2>2. /\ tap' = tap /\ toClient' = toClient /\ copy' = copy /\ tracked' = tracked
        /\ ending = "open" /\ gone' = gone
        /\ sent' = sent \/ \E x \in Tokens : sent' = Append(sent, x)
    BY <1>4 DEF Backend, SendPayload, SendNewline, BackendEnds, Tokens, guardVars
  <2>3. TapFits'
    BY <1>3, <2>1, <2>2
  <2>4. ASSUME NEW x \in Payloads
        PROVE  CountTo(x, sent, Len(sent)) <= CountTo(x, sent', Len(sent'))
               /\ CountTo(x, sent, Len(sent)) \in Nat /\ CountTo(x, sent', Len(sent')) \in Nat
    <3>1. CASE sent' = sent
      <4>1. CountTo(x, sent, Len(sent)) \in Nat
        BY <1>2, CountNext
      <4> QED
        BY <3>1, <4>1
    <3>2. ASSUME NEW y \in Tokens, sent' = Append(sent, y)
          PROVE  CountTo(x, sent, Len(sent)) <= CountTo(x, sent', Len(sent'))
                 /\ CountTo(x, sent, Len(sent)) \in Nat /\ CountTo(x, sent', Len(sent')) \in Nat
      <4> DEFINE n == Len(sent)
                 m == Len(sent')
      <4>1. m = n + 1 /\ \A i \in 1..n : sent[i] = sent'[i]
        BY <1>2, <3>2, AppendProperties
      <4> HIDE DEF n, m
      <4>2. n \in Nat /\ m \in Nat /\ n <= m
        BY <1>2, <4>1 DEF n
      <4>3. CountTo(x, sent, n) = CountTo(x, sent', n)
        BY <4>1, CountSame
      <4>4. CountTo(x, sent', n) <= CountTo(x, sent', m)
        BY <4>2, CountMore
      <4>5. CountTo(x, sent', n) \in Nat /\ CountTo(x, sent', m) \in Nat
        BY <4>2, CountNext
      <4> QED
        BY <4>3, <4>4, <4>5 DEF n, m
    <3> QED
      BY <2>2, <3>1, <3>2
  <2>5. TapBounds'
    <3>1. /\ CountTo("content", sent, Len(sent)) <= CountTo("content", sent', Len(sent'))
          /\ CountTo("error", sent, Len(sent)) <= CountTo("error", sent', Len(sent'))
          /\ CountTo("content", sent, Len(sent)) \in Nat /\ CountTo("content", sent', Len(sent')) \in Nat
          /\ CountTo("error", sent, Len(sent)) \in Nat /\ CountTo("error", sent', Len(sent')) \in Nat
      BY <2>4 DEF Payloads
    <3>2. tap.contents \in Nat /\ tap.reports \in Nat
      BY <1>1 DEF TapFits, Taps
    <3> QED
      BY <1>1, <2>2, <3>1, <3>2 DEF TapBounds
  <2> QED
    BY <1>1, <2>1, <2>3, <2>5 DEF TapInv
<1>5. ASSUME CopyLoop PROVE TapInv'
  <2>1. kind' = kind /\ sent' = sent
    BY <1>5 DEF CopyLoop, ServePending, ReturnFailed, CallInner, AbortCopy, ReadData, ReadEOF,
                ReadFails, BodyFails, backendVars
  <2>2. TextFits'
    BY <1>1, <2>1 DEF TextFits, Ordered
  <2> QED
    BY <1>1, <1>5, <2>2, TapCopies DEF TapInv
<1>6. ASSUME Watch \/ ClientGone \/ UNCHANGED vars PROVE TapInv'
  <2>1. /\ UNCHANGED <<kind, sent, ending, copy, tap, toClient, tracked>>
        /\ gone' = gone \/ copy # "done"
    BY <1>6 DEF Watch, ClientGone, vars, backendVars
  <2>2. TextFits' /\ TapBounds'
    BY <1>1, <2>1 DEF TextFits, Ordered, TapBounds
  <2>3. TapFits'
    BY <1>3, <2>1
  <2> QED
    BY <1>1, <2>2, <2>3 DEF TapInv
<1>7. ASSUME NextResponse PROVE TapInv'
  <2>1. Init'
    BY <1>7 DEF NextResponse, Init, Wrapped
  <2> QED
    BY <2>1, TapStarts, PTL
<1> QED
  BY <1>4, <1>5, <1>6, <1>7 DEF Next

LEMMA TapUnderRelay == RelaySpec => []TapInv
<1>1. RelayInit => TapInv
  BY TapStarts DEF RelayInit
<1>2. TapInv /\ [RelayNext]_allVars => TapInv'
  BY RelayIsPipeline, TapStep
<1> QED
  BY <1>1, <1>2, PTL DEF RelaySpec

LEMMA CountIs == ASSUME NEW x, sent \in Seq(Tokens) PROVE Count(x, sent) = CountTo(x, sent, Len(sent))
<1>1. DOMAIN sent = 1..Len(sent)
  BY LenProperties
<1> QED
  BY <1>1 DEF Count, CountTo

\* What the tap knows when the copy ended with its client there.
LEMMA AllDelivered ==
  ASSUME TapInv, Delivered
  PROVE  /\ ending = "eof" => AllHeard(tap, sent)
         /\ IsStream => Accounted(tap, sent, Len(sent))
         /\ sent \in Seq(Tokens) /\ ending \in {"eof", "reset"}
<1>1. /\ copy = "done" /\ ~gone /\ ending \in {"eof", "reset"} /\ sent \in Seq(Tokens)
      /\ ending = "reset" => failed /\ ~pending
      /\ TextFits /\ TapFits /\ Failures
  BY DEF TapInv, PipelineInv, Types, Endings, Delivered
<1>2. ending = "eof" => AllHeard(tap, sent)
  BY <1>1 DEF TapFits
<1>3. ASSUME ending = "reset", IsStream PROVE Accounted(tap, sent, Len(sent))
  <2>1. Told
    BY <1>1, <1>3 DEF Failures
  <2>2. Len(sent) \in Nat
    BY <1>1, LenProperties
  <2>3. toClient = sent \o ErrorEvent
    <3>1. Copied = sent
      BY <1>1, <2>1, SubSeqFull DEF Told, Copied
    <3> QED
      BY <2>1, <3>1 DEF Told
  <2>4. Len(toClient) - 1 = Len(sent) + 4
    BY <1>1, <2>2, <2>3, ErrorText
  <2>5. Accounted(tap, toClient, Len(sent) + 4)
    <3>1. Fed(tap, toClient, Len(toClient))
      BY <1>1, <1>3 DEF TapFits
    <3>2. Accounted(tap, toClient, Len(toClient) - 1)
      BY <3>1 DEF Fed
    <3> QED
      BY <2>4, <3>2
  <2>6. \A x \in Payloads : CountTo(x, toClient, Len(sent) + 4) = CountTo(x, sent, Len(sent))
    BY <1>1, <2>3, ErrorCounts
  <2>7. /\ CountTo("content", toClient, Len(sent) + 4) = CountTo("content", sent, Len(sent))
        /\ CountTo("error", toClient, Len(sent) + 4) = CountTo("error", sent, Len(sent))
        /\ CountTo("usage", toClient, Len(sent) + 4) = CountTo("usage", sent, Len(sent))
    BY <2>6 DEF Payloads
  <2> DEFINE j == Len(sent) + 4
             n == Len(sent)
  <2> HIDE DEF j, n
  <2>8. Accounted(tap, sent, n)
    BY <2>5, <2>7 DEF Accounted, j, n
  <2> QED
    BY <2>8 DEF n
<1> QED
  BY <1>1, <1>2, <1>3 DEF AllHeard

\* A completion whose usage arrived is accounted once and with the usage,
\* whatever the kind of the response, wherever reads cut it and with a last
\* line that lacks its newline (completionTap of completion.go): when the
\* backend sends no timings before the usage, which the code does not survive.
THEOREM UsageAccounted == ASSUME ~EarlyTimings PROVE RelaySpec => []UsageCounted
<1>1. TapInv => UsageCounted
  <2> SUFFICES ASSUME TapInv, Delivered, ending = "eof", "usage" \in Range(sent)
               PROVE  tap.notified = <<"usage">>
    BY DEF UsageCounted
  <2>1. AllHeard(tap, sent) /\ sent \in Seq(Tokens)
    BY AllDelivered
  <2>2. Len(sent) \in Nat /\ \E i \in 1..Len(sent) : sent[i] = "usage"
    BY <2>1, LenProperties DEF Range
  <2>3. CASE IsStream
    <3>1. CountTo("usage", sent, Len(sent)) > 0
      BY <2>2, CountZero
    <3> QED
      BY <2>1, <2>3, <3>1 DEF AllHeard, Accounted
  <2>4. CASE ~IsStream
    BY <2>1, <2>2, <2>4 DEF AllHeard, BodyHeard
  <2> QED
    BY <2>3, <2>4
<1> QED
  BY <1>1, TapUnderRelay, PTL

\* The watchdog judges all of the content a local stream brought, errguard hears
\* of every error event of the local backend once, and neither of the cloud
\* (handleLine of completion.go): with the error guard, or without early timings.
THEOREM ConsumersHear == ASSUME Guard \/ ~EarlyTimings PROVE RelaySpec => []ConsumersFed
<1>1. TapInv => ConsumersFed
  <2> SUFFICES ASSUME TapInv, Delivered PROVE ConsumersFed
    BY DEF ConsumersFed
  <2>1. /\ ending = "eof" => AllHeard(tap, sent)
        /\ IsStream => Accounted(tap, sent, Len(sent))
        /\ sent \in Seq(Tokens)
    BY AllDelivered
  <2>2. \A x : Count(x, sent) = CountTo(x, sent, Len(sent))
    BY <2>1, CountIs
  <2>3. kind = "local" => tap.contents = Count("content", sent)
    BY <2>1, <2>2 DEF IsStream, Accounted
  <2>4. Guard /\ kind = "local" => tap.reports = Count("error", sent)
    BY <2>1, <2>2 DEF IsStream, Accounted, Guarded
  <2>5. Guard /\ kind = "json" /\ ending = "eof" => tap.reports = Count("error", sent)
    BY <2>1, <2>2 DEF IsStream, AllHeard, BodyHeard
  <2>6. kind = "cloud" => tap.contents = 0 /\ tap.reports = 0
    BY <2>1 DEF IsStream, Accounted, Guarded
  <2> QED
    BY <2>3, <2>4, <2>5, <2>6 DEF ConsumersFed
<1> QED
  BY <1>1, TapUnderRelay, PTL

-----------------------------------------------------------------------------
(* What a message has of the stream behind it.                             *)

\* The copy: what was read, and the error event behind it.
LEMMA CopyIs ==
  ASSUME PipelineInv, TextFits
  PROVE  /\ toClient \in Seq(Tokens) /\ Len(toClient) \in Nat /\ nread \in 0..Len(sent)
         /\ Len(sent) \in Nat
         /\ Shaped(toClient, Len(toClient)) /\ Ordered(toClient, Len(toClient))
         /\ \A i \in 1..Len(toClient) :
              (i <= nread /\ toClient[i] = sent[i]) \/ toClient[i] \in {"nl", "injected"}
<1>1. /\ toClient \in Seq(Tokens) /\ Len(toClient) \in Nat /\ nread \in 0..Len(sent)
      /\ Len(sent) \in Nat /\ sent \in Seq(Tokens) /\ (Clean \/ Told)
  BY LenProperties DEF PipelineInv, Types
<1>2. CASE Clean
  <2>1. /\ Len(toClient) = nread /\ \A i \in 1..nread : toClient[i] = sent[i]
        /\ Shaped(toClient, nread) /\ Ordered(toClient, nread)
    BY <1>1, <1>2, PrefixText DEF Clean, Copied
  <2> QED
    BY <1>1, <2>1
<1>3. CASE Told
  <2>1. toClient = sent \o ErrorEvent /\ nread = Len(sent)
    <3>1. Copied = sent
      BY <1>1, <1>3, SubSeqFull DEF Told, Copied
    <3> QED
      BY <1>3, <3>1 DEF Told
  <2> DEFINE n == Len(sent)
             e == sent \o ErrorEvent
  <2>2. /\ Len(e) = n + 5
        /\ \A i \in 1..n : e[i] = sent[i]
        /\ \A i \in {n + 1, n + 2, n + 4, n + 5} : e[i] = "nl"
        /\ e[n + 3] = "injected"
        /\ Shaped(e, n + 5) /\ Ordered(e, n + 5)
    BY ErrorText
  <2>3. n \in Nat /\ toClient = e /\ nread = n
    BY <1>1, <2>1
  <2> HIDE DEF n, e
  <2>4. ASSUME NEW i \in 1..Len(e) PROVE (i <= n /\ e[i] = sent[i]) \/ e[i] \in {"nl", "injected"}
    <3>1. i \in 1..n \/ i = n + 1 \/ i = n + 2 \/ i = n + 3 \/ i = n + 4 \/ i = n + 5
      BY <2>2, <2>3
    <3> QED
      BY <2>2, <2>3, <3>1
  <2> QED
    BY <1>1, <2>2, <2>3, <2>4
<1> QED
  BY <1>1, <1>2, <1>3

\* No payload is scanned that was not sent.
LEMMA ScannedWasSent ==
  ASSUME PipelineInv, TextFits, NEW x \in Payloads, NEW k \in 0..Len(toClient)
  PROVE  /\ CountTo(x, toClient, k) <= CountTo(x, sent, Len(sent))
         /\ \A i \in 1..k : toClient[i] = x => i \in 1..Len(sent) /\ sent[i] = x /\ x \in Range(sent)
<1>1. /\ Len(toClient) \in Nat /\ nread \in 0..Len(sent) /\ Len(sent) \in Nat
      /\ \A i \in 1..Len(toClient) :
           (i <= nread /\ toClient[i] = sent[i]) \/ toClient[i] \in {"nl", "injected"}
      /\ DOMAIN sent = 1..Len(sent)
  BY CopyIs, LenProperties DEF TextFits
<1>2. x \notin {"nl", "injected"}
  BY DEF Payloads
<1>3. ASSUME NEW i \in 1..k, toClient[i] = x PROVE i \in 1..Len(sent) /\ sent[i] = x
  BY <1>1, <1>2, <1>3
<1>4. \A i \in 1..k : toClient[i] = x => x \in Range(sent)
  BY <1>1, <1>3 DEF Range
<1> DEFINE A == {i \in 1..k : toClient[i] = x}
           B == {i \in 1..Len(sent) : sent[i] = x}
<1>5. A \subseteq B
  BY <1>3
<1>6. IsFiniteSet(B)
  <2>1. IsFiniteSet(1..Len(sent)) /\ B \subseteq 1..Len(sent)
    BY <1>1, FS_Interval
  <2> QED
    BY <2>1, FS_Subset
<1>7. Cardinality(A) <= Cardinality(B)
  BY <1>5, <1>6, FS_Subset
<1> QED
  BY <1>3, <1>4, <1>7 DEF CountTo

\* Every other token is a payload.
LEMMA PayloadsFit ==
  ASSUME TextFits
  PROVE  /\ CountTo("content", sent, Len(sent)) + CountTo("usage", sent, Len(sent))
              + CountTo("error", sent, Len(sent)) <= MaxEvents
         /\ CountTo("content", sent, Len(sent)) \in Nat
         /\ CountTo("usage", sent, Len(sent)) \in Nat
         /\ CountTo("error", sent, Len(sent)) \in Nat
<1> DEFINE n == Len(sent)
           c(k) == CountTo("content", sent, k)
           u(k) == CountTo("usage", sent, k)
           e(k) == CountTo("error", sent, k)
           F == {k \in 0..n : 2 * (c(k) + u(k) + e(k)) <= k + (k % 2)}
<1>1. /\ n \in Nat /\ MaxEvents \in Nat /\ n <= 2 * MaxEvents
      /\ \A i \in 1..n : sent[i] = "nl" <=> i % 2 = 0
  BY LenProperties, BoundAssumption DEF TextFits
<1>2. \A k \in Nat : c(k) \in Nat /\ u(k) \in Nat /\ e(k) \in Nat
  BY CountNext
<1>3. 0 \in F
  <2>1. c(0) = 0 /\ u(0) = 0 /\ e(0) = 0
    BY CountNext, 0 \in Nat
  <2> HIDE DEF c, u, e
  <2> QED
    BY <1>1, <2>1
<1>4. ASSUME NEW k \in 1..n, k - 1 \in F PROVE k \in F
  <2>1. k \in Nat /\ k # 0 /\ k - 1 \in Nat
    BY <1>1
  <2>2. /\ c(k) = c(k - 1) + (IF sent[k] = "content" THEN 1 ELSE 0)
        /\ u(k) = u(k - 1) + (IF sent[k] = "usage" THEN 1 ELSE 0)
        /\ e(k) = e(k - 1) + (IF sent[k] = "error" THEN 1 ELSE 0)
    BY <2>1, CountLast
  <2>3. 2 * (c(k - 1) + u(k - 1) + e(k - 1)) <= (k - 1) + ((k - 1) % 2)
    BY <1>4
  <2>4. c(k - 1) \in Nat /\ u(k - 1) \in Nat /\ e(k - 1) \in Nat
    BY <1>2, <2>1
  <2>5. sent[k] = "nl" <=> k % 2 = 0
    BY <1>1
  <2> DEFINE cc == c(k - 1)
             uu == u(k - 1)
             ee == e(k - 1)
             cd == c(k)
             ud == u(k)
             ed == e(k)
  <2>6. 2 * (cd + ud + ed) <= k + (k % 2)
    <3> HIDE DEF cc, uu, ee, cd, ud, ed, n, F
    <3>1. /\ cc \in Nat /\ uu \in Nat /\ ee \in Nat
          /\ 2 * (cc + uu + ee) <= (k - 1) + ((k - 1) % 2)
          /\ cd = cc + (IF sent[k] = "content" THEN 1 ELSE 0)
          /\ ud = uu + (IF sent[k] = "usage" THEN 1 ELSE 0)
          /\ ed = ee + (IF sent[k] = "error" THEN 1 ELSE 0)
      BY <2>2, <2>3, <2>4 DEF cc, uu, ee, cd, ud, ed
    <3>2. CASE k % 2 = 0
      <4>1. cd = cc /\ ud = uu /\ ed = ee /\ (k - 1) % 2 = 1
        BY <2>1, <2>5, <3>1, <3>2
      <4> QED
        BY <2>1, <3>1, <3>2, <4>1
    <3>3. CASE k % 2 # 0
      <4>1. cd + ud + ed <= cc + uu + ee + 1 /\ cd \in Nat /\ ud \in Nat /\ ed \in Nat
        BY <3>1
      <4>2. (k - 1) % 2 = 0 /\ k % 2 = 1
        BY <2>1, <3>3
      <4> QED
        BY <2>1, <3>1, <4>1, <4>2
    <3> QED
      BY <3>2, <3>3
  <2> QED
    BY <2>6, <1>1
<1>5. n \in F
  <2>1. n \in 0..n
    BY <1>1
  <2> HIDE DEF F
  <2> QED
    BY <1>1, <1>3, <1>4, <2>1, Induction
<1>6. c(n) \in Nat /\ u(n) \in Nat /\ e(n) \in Nat
  BY <1>1, <1>2
<1> HIDE DEF c, u, e, n
<1>7. 2 * (c(n) + u(n) + e(n)) <= n + (n % 2)
  BY <1>5
<1>8. n % 2 = 0 \/ (n % 2 = 1 /\ n + 1 <= 2 * MaxEvents)
  BY <1>1
<1>9. c(n) + u(n) + e(n) <= MaxEvents
  BY <1>1, <1>6, <1>7, <1>8
<1> QED
  BY <1>6, <1>9 DEF c, u, e, n

\* A line is a payload and its newline, or what is left at the end.
LEMMA LineCounts ==
  ASSUME PipelineInv, TextFits, RelayTypes, NEW end \in LineEnds, NEW x \in Payloads
  PROVE  /\ nscan + 1 \in 1..Len(toClient) /\ Unscanned[1] = toClient[nscan + 1]
         /\ nscan + end \in 1..Len(toClient) /\ end > 0
         /\ CountTo(x, toClient, nscan + end)
              = CountTo(x, toClient, nscan) + (IF Unscanned[1] = x THEN 1 ELSE 0)
<1>1. /\ Len(toClient) \in Nat /\ nscan \in 0..Len(toClient)
      /\ Shaped(toClient, Len(toClient))
  BY CopyIs DEF RelayTypes
<1>2. /\ Len(Unscanned) = Len(toClient) - nscan
      /\ \A i \in 1..Len(Unscanned) : Unscanned[i] = toClient[nscan + i]
  BY UnscannedIs
<1>3. end \in 1..Len(Unscanned) /\ \A i \in 1..Len(Unscanned) : Unscanned[i] = "nl" => end <= i
  BY EndInLine
<1>4. \A i \in 1..(end - 1) : toClient[nscan + i] # "nl"
  BY <1>1, <1>2, <1>3
<1>5. end = 1 \/ (end = 2 /\ toClient[nscan + 2] = "nl")
  <2>1. CASE end >= 2
    <3>1. nscan + 1 \in 1..(Len(toClient) - 1) /\ 1 \in 1..(end - 1) /\ (nscan + 1) + 1 = nscan + 2
      BY <1>1, <1>2, <1>3, <2>1
    <3>2. toClient[nscan + 1] # "nl"
      BY <1>4, <3>1
    <3>3. toClient[nscan + 2] = "nl"
      BY <1>1, <3>1, <3>2 DEF Shaped
    <3>4. ~(end >= 3)
      <4>1. end >= 3 => 2 \in 1..(end - 1)
        BY <1>2, <1>3
      <4> QED
        BY <1>4, <3>3, <4>1
    <3> QED
      BY <1>1, <1>2, <1>3, <2>1, <3>3, <3>4
  <2> QED
    BY <1>1, <1>2, <1>3, <2>1
<1>6. nscan \in Nat /\ nscan + 1 \in Nat /\ (nscan + 1) + 1 = nscan + 2
  BY <1>1
<1>7. CountTo(x, toClient, nscan + 1)
        = CountTo(x, toClient, nscan) + (IF toClient[nscan + 1] = x THEN 1 ELSE 0)
  BY <1>6, CountNext
<1>8. toClient[nscan + 2] = "nl" => CountTo(x, toClient, nscan + 2) = CountTo(x, toClient, nscan + 1)
  <2> DEFINE j == nscan + 1
  <2>1. j \in Nat /\ j + 1 = nscan + 2
    BY <1>6
  <2> HIDE DEF j
  <2>2. /\ CountTo(x, toClient, j + 1) = CountTo(x, toClient, j) + (IF toClient[j + 1] = x THEN 1 ELSE 0)
        /\ CountTo(x, toClient, j) \in Nat
    BY <2>1, CountNext
  <2>3. "nl" # x
    BY DEF Payloads
  <2> QED
    BY <2>1, <2>2, <2>3 DEF j
<1>9. Unscanned[1] = toClient[nscan + 1]
  BY <1>2, <1>3
<1>10. nscan + 1 \in 1..Len(toClient) /\ nscan + end \in 1..Len(toClient) /\ end > 0
  BY <1>1, <1>2, <1>3
<1> QED
  BY <1>5, <1>7, <1>8, <1>9, <1>10

Deltas(es) == CountTo("delta", es, Len(es))

LEMMA DeltaNext ==
  ASSUME NEW T, NEW k \in Nat
  PROVE  CountTo("delta", T, k + 1) = CountTo("delta", T, k) + (IF T[k + 1] = "delta" THEN 1 ELSE 0)
<1>1. ASSUME NEW x PROVE CountTo(x, T, k + 1) = CountTo(x, T, k) + (IF T[k + 1] = x THEN 1 ELSE 0)
  BY CountNext
<1> QED
  BY <1>1

LEMMA EventCounts ==
  ASSUME NEW es \in Seq({"delta", "stop", "error"}), NEW x \in {"delta", "stop", "error"}
  PROVE  /\ Deltas(es) \in Nat
         /\ Deltas(Append(es, x)) = Deltas(es) + (IF x = "delta" THEN 1 ELSE 0)
         /\ Len(es) \in Nat /\ Len(Append(es, x)) = Len(es) + 1 /\ Append(es, x)[Len(es) + 1] = x
         /\ Append(es, x) \in Seq({"delta", "stop", "error"})
         /\ "stop" \in Range(Append(es, x)) <=> x = "stop" \/ "stop" \in Range(es)
<1> DEFINE new == Append(es, x)
           n == Len(es)
<1>1. /\ n \in Nat /\ DOMAIN es = 1..n
      /\ new \in Seq({"delta", "stop", "error"}) /\ Len(new) = n + 1 /\ DOMAIN new = 1..(n + 1)
      /\ \A i \in 1..n : new[i] = es[i]
      /\ new[n + 1] = x
  <2>1. /\ n \in Nat /\ DOMAIN es = 1..n
        /\ new \in Seq({"delta", "stop", "error"}) /\ Len(new) = n + 1
        /\ \A i \in 1..n : new[i] = es[i]
        /\ new[n + 1] = x
    BY AppendProperties, LenProperties
  <2>2. DOMAIN new = 1..Len(new)
    BY <2>1, LenProperties
  <2> QED
    BY <2>1, <2>2
<1> HIDE DEF new, n
<1>2. "stop" \in Range(new) <=> x = "stop" \/ "stop" \in Range(es)
  <2>1. Range(new) = {new[i] : i \in 1..(n + 1)} /\ Range(es) = {es[i] : i \in 1..n}
    BY <1>1 DEF Range
  <2>2. ASSUME NEW i \in 1..(n + 1), new[i] = "stop" PROVE x = "stop" \/ "stop" \in Range(es)
    <3>1. i \in 1..n \/ i = n + 1
      BY <1>1
    <3> QED
      BY <1>1, <2>1, <2>2, <3>1
  <2>3. ASSUME NEW i \in 1..n, es[i] = "stop" PROVE "stop" \in Range(new)
    <3>1. i \in 1..(n + 1) /\ new[i] = "stop"
      BY <1>1, <2>3
    <3> QED
      BY <2>1, <3>1
  <2>4. n + 1 \in 1..(n + 1)
    BY <1>1
  <2>5. ASSUME "stop" \in Range(new) PROVE x = "stop" \/ "stop" \in Range(es)
    BY <2>1, <2>2, <2>5
  <2>6. ASSUME "stop" \in Range(es) PROVE "stop" \in Range(new)
    BY <2>1, <2>3, <2>6
  <2>7. ASSUME x = "stop" PROVE "stop" \in Range(new)
    BY <1>1, <2>1, <2>4, <2>7
  <2> QED
    BY <2>5, <2>6, <2>7
<1>3. CountTo("delta", new, n + 1) = CountTo("delta", new, n) + (IF new[n + 1] = "delta" THEN 1 ELSE 0)
  <2>1. n \in Nat
    BY <1>1
  <2> QED
    BY <2>1, DeltaNext
<1>4. CountTo("delta", new, n) = CountTo("delta", es, n)
  BY <1>1, CountSame
<1>5. CountTo("delta", es, n) \in Nat
  BY <1>1, CountNext
<1>6. /\ Deltas(es) \in Nat
      /\ Deltas(new) = Deltas(es) + (IF x = "delta" THEN 1 ELSE 0)
  <2>1. Deltas(es) = CountTo("delta", es, n) /\ Deltas(new) = CountTo("delta", new, n + 1)
    BY <1>1 DEF Deltas, n
  <2> QED
    BY <1>1, <1>3, <1>4, <1>5, <2>1
<1> QED
  BY <1>1, <1>2, <1>6 DEF new, n

\* All of a stream that broke was scanned, what was cut too.
PastBreak == ending = "reset" /\ nscan >= Len(sent)

\* A message that is being written has all of the content scanned but for what
\* was cut, and an event for each payload at most; its stop is that of a usage
\* event.
Balanced ==
  relay = "reading" =>
    /\ Deltas(events) = CountTo("content", toClient, nscan) \/ PastBreak
    /\ Len(events) <= CountTo("content", toClient, nscan) + CountTo("usage", toClient, nscan)
    /\ Stopped => \E i \in 1..nscan : toClient[i] = "usage"

\* Of a stop the backend said that the response ended.
Ended == ending = "eof" \/ {"usage", "done"} \intersect Range(sent) # {}

\* A message that ended has all there was, and nothing can come after it.
Whole ==
  relay = "done" /\ ~left /\ events # <<>> /\ events[Len(events)] = "stop" =>
    /\ Deltas(events) = CountTo("content", sent, Len(sent))
    /\ ending = "eof" \/ "done" \in Range(sent)

MessageFits ==
  /\ relay = "none" => events = <<>>
  /\ Stopped => Ended
  /\ Balanced
  /\ Whole
  /\ Len(events) <= MaxEvents + 1

\* What was sent stays sent, and once the stream ended no content is added.
LEMMA SentStays ==
  ASSUME TapInv, Backend \/ CopyLoop \/ Watch \/ ClientGone
  PROVE  /\ Range(sent) \subseteq Range(sent')
         /\ ending = "eof" => ending' = "eof"
         /\ ending = "reset" => ending' = "reset" /\ sent' = sent
         /\ ending = "eof" \/ "done" \in Range(sent) =>
               CountTo("content", sent', Len(sent')) = CountTo("content", sent, Len(sent))
<1> DEFINE n == Len(sent)
<1>1. sent \in Seq(Tokens) /\ n \in Nat /\ DOMAIN sent = 1..n
  BY LenProperties DEF TapInv, PipelineInv, Types
<1>2. CASE CopyLoop \/ Watch \/ ClientGone
  <2>1. sent' = sent /\ ending' = ending
    BY <1>2 DEF CopyLoop, ServePending, ReturnFailed, CallInner, AbortCopy, ReadData, ReadEOF,
                ReadFails, BodyFails, Watch, ClientGone, backendVars
  <2> QED
    BY <2>1
<1>3. CASE Backend
  <2>1. ending = "open"
    BY <1>3 DEF Backend, SendPayload, SendNewline, BackendEnds
  <2>2. CASE sent' = sent
    BY <2>1, <2>2
  <2>3. ASSUME NEW x \in Tokens, sent' = Append(sent, x), "done" \in Range(sent) => x # "content"
        PROVE  /\ Range(sent) \subseteq Range(sent')
               /\ "done" \in Range(sent) =>
                    CountTo("content", sent', Len(sent')) = CountTo("content", sent, Len(sent))
    <3>1. /\ Len(sent') = n + 1 /\ sent'[n + 1] = x /\ \A i \in 1..n : sent'[i] = sent[i]
          /\ DOMAIN sent' = 1..(n + 1)
      <4>1. /\ Len(sent') = n + 1 /\ sent'[n + 1] = x /\ \A i \in 1..n : sent'[i] = sent[i]
            /\ sent' \in Seq(Tokens)
        BY <1>1, <2>3, AppendProperties
      <4>2. DOMAIN sent' = 1..Len(sent')
        BY <4>1, LenProperties
      <4> QED
        BY <4>1, <4>2
    <3> HIDE DEF n
    <3>2. Range(sent) \subseteq Range(sent')
      <4>1. ASSUME NEW i \in 1..n PROVE i \in 1..(n + 1) /\ sent'[i] = sent[i]
        BY <1>1, <3>1
      <4> QED
        BY <1>1, <3>1, <4>1 DEF Range
    <3>3. CountTo("content", sent', n + 1) = CountTo("content", sent', n)
                                             + (IF sent'[n + 1] = "content" THEN 1 ELSE 0)
          /\ CountTo("content", sent', n) \in Nat
      BY <1>1, CountNext
    <3>4. CountTo("content", sent', n) = CountTo("content", sent, n)
      BY <3>1, CountSame
    <3>5. "done" \in Range(sent) => CountTo("content", sent', n + 1) = CountTo("content", sent, n)
      BY <2>3, <3>1, <3>3, <3>4
    <3> QED
      BY <3>1, <3>2, <3>5 DEF n
  <2>4. sent' = sent \/ \E x \in Tokens : sent' = Append(sent, x) /\ ("done" \in Range(sent) => x # "content")
    BY <1>3 DEF Backend, SendPayload, SendNewline, BackendEnds, Tokens, Payloads
  <2> QED
    BY <2>1, <2>2, <2>3, <2>4
<1> QED
  BY <1>2, <1>3

\* The handler waits while the pipeline runs.
LEMMA PipelineKeepsMessage ==
  ASSUME TapInv, RelayInv, MessageFits, Pipeline \/ InnerCancelled \/ ClientLeaves
  PROVE  MessageFits'
<1>1. UNCHANGED <<relay, nscan, events>>
  BY DEF Pipeline, InnerCancelled, ClientLeaves, relayVars
<1>2. ~left' => ~left
  <2>1. left' = left \/ left' = TRUE
    BY DEF Pipeline, InnerCancelled, ClientLeaves, relayVars
  <2> QED
    BY <2>1
<1>3. /\ Range(sent) \subseteq Range(sent')
      /\ ending = "eof" => ending' = "eof"
      /\ ending = "reset" => ending' = "reset" /\ sent' = sent
      /\ ending = "eof" \/ "done" \in Range(sent) =>
            CountTo("content", sent', Len(sent')) = CountTo("content", sent, Len(sent))
      /\ \A i \in 1..Len(toClient) : toClient'[i] = toClient[i]
  <2>1. CASE Backend \/ CopyLoop \/ Watch \/ ClientGone
    BY <2>1, SentStays, CopyGrows DEF TapInv
  <2>2. CASE UNCHANGED vars
    BY <2>2 DEF vars, backendVars
  <2> QED
    BY <2>1, <2>2 DEF Pipeline, InnerCancelled, ClientLeaves
<1>4. nscan \in 0..Len(toClient) /\ Len(toClient) \in Nat
  BY CopyLength DEF TapInv, RelayInv, RelayTypes
<1>5. \A i \in 1..nscan : toClient[i] = toClient'[i]
  BY <1>3, <1>4
<1>6. /\ CountTo("content", toClient, nscan) = CountTo("content", toClient', nscan)
      /\ CountTo("usage", toClient, nscan) = CountTo("usage", toClient', nscan)
  BY <1>5, CountSame
<1>7. Stopped' = Stopped /\ Deltas(events)' = Deltas(events)
  BY <1>1 DEF Stopped, Deltas
<1>8. Stopped' => Ended'
  BY <1>3, <1>7 DEF MessageFits, Ended
<1>9. Balanced'
  <2>1. PastBreak => PastBreak'
    BY <1>1, <1>3 DEF PastBreak
  <2> QED
    BY <1>1, <1>5, <1>6, <1>7, <2>1 DEF MessageFits, Balanced
<1>10. Whole'
  <2> SUFFICES ASSUME relay' = "done", ~left', events' # <<>>, events'[Len(events')] = "stop"
               PROVE  /\ Deltas(events)' = CountTo("content", sent', Len(sent'))
                      /\ ending' = "eof" \/ "done" \in Range(sent')
    BY DEF Whole
  <2>1. /\ Deltas(events) = CountTo("content", sent, Len(sent))
        /\ ending = "eof" \/ "done" \in Range(sent)
    BY <1>1, <1>2 DEF MessageFits, Whole
  <2> QED
    BY <1>3, <1>7, <2>1
<1> QED
  BY <1>1, <1>8, <1>9, <1>10 DEF MessageFits

\* A handler that finds its stream broken was left itself: for one that stays
\* the error event is in front of the end.
LEMMA SilentOnlyWhenLeft ==
  ASSUME PipelineInv, RelayInv, UpstreamEnds, ~left
  PROVE  ~failed /\ ~gone /\ ending = "eof" /\ toClient = sent /\ nscan = Len(toClient)
<1>1. /\ relay = "reading" /\ copy = "done" /\ Unscanned = <<>> /\ kind = "local"
      /\ (gone => left) /\ nscan <= nread + 2 /\ RelayTypes
  BY DEF UpstreamEnds, RelayInv, Reading
<1>2. /\ Len(toClient) \in Nat /\ nscan \in 0..Len(toClient) /\ nread \in Nat
      /\ Len(Unscanned) = Len(toClient) - nscan
  BY <1>1, CopyLength, UnscannedIs DEF RelayTypes
<1>3. nscan = Len(toClient)
  <2>1. Len(Unscanned) = 0
    BY <1>1, EmptySeq
  <2> QED
    BY <1>2, <2>1
<1>4. ~gone
  BY <1>1
<1>5. ~failed
  <2>1. SUFFICES ASSUME failed PROVE FALSE
    OBVIOUS
  <2>2. Told
    BY <1>1, <1>4, <2>1 DEF PipelineInv, Failures, Endings, IsStream
  <2>3. Len(toClient) = nread + 5
    BY <2>2, CopyLength
  <2> QED
    BY <1>1, <1>2, <1>3, <2>3
<1>6. ending = "eof" /\ toClient = sent
  BY <1>1, <1>4, <1>5 DEF PipelineInv, Types, Endings
<1> QED
  BY <1>3, <1>4, <1>5, <1>6

\* The handler is at a [DONE] line: it has all of the content.
LEMMA AllBeforeDone ==
  ASSUME PipelineInv, TextFits, RelayTypes, nscan + 1 \in 1..Len(toClient),
         toClient[nscan + 1] = "done"
  PROVE  /\ CountTo("content", toClient, nscan) = CountTo("content", sent, Len(sent))
         /\ "done" \in Range(sent)
<1>1. /\ Len(toClient) \in Nat /\ nread \in 0..Len(sent) /\ Len(sent) \in Nat
      /\ \A i \in 1..Len(toClient) :
           (i <= nread /\ toClient[i] = sent[i]) \/ toClient[i] \in {"nl", "injected"}
      /\ nscan \in 0..Len(toClient)
  BY CopyIs DEF RelayTypes
<1>2. Ordered(sent, Len(sent)) /\ DOMAIN sent = 1..Len(sent)
  BY LenProperties DEF TextFits
<1> DEFINE p == nscan + 1
           n == Len(sent)
<1>3. p \in 1..n /\ p <= nread /\ sent[p] = "done"
  BY <1>1
<1>4. "done" \in Range(sent)
  BY <1>2, <1>3 DEF Range
<1>5. ASSUME NEW i \in (nscan + 1)..n PROVE sent[i] # "content"
  <2>1. i = p \/ (i \in 1..n /\ p < i)
    BY <1>1, <1>3
  <2>2. CASE i = p
    BY <1>3, <2>2
  <2>3. CASE i \in 1..n /\ p < i
    <3>1. sent[i] \notin Payloads
      <4> HIDE DEF p, n
      <4> QED
        BY <1>2, <1>3, <2>3 DEF Ordered, n
    <3> QED
      BY <3>1 DEF Payloads
  <2> QED
    BY <2>1, <2>2, <2>3
<1>6. nscan \in Nat /\ n \in Nat /\ nscan <= n
  BY <1>1, <1>3
<1>7. CountTo("content", sent, n) = CountTo("content", sent, nscan)
  <2> HIDE DEF n
  <2> QED
    BY <1>5, <1>6, CountMore
<1>8. ASSUME NEW i \in 1..nscan PROVE toClient[i] = sent[i] \/ toClient[i] \in {"nl", "injected"}
  <2>1. i \in 1..Len(toClient)
    BY <1>1
  <2> QED
    BY <1>1, <2>1
<1>9. \A i \in 1..nscan : i <= nread
  BY <1>1, <1>3
<1>10. CountTo("content", toClient, nscan) = CountTo("content", sent, nscan)
  <2>1. CASE Clean
    <3>1. \A i \in 1..nscan : toClient[i] = sent[i]
      <4>1. /\ Len(SubSeq(sent, 1, nread)) = nread
            /\ \A i \in 1..nread : SubSeq(sent, 1, nread)[i] = sent[i]
        BY <1>1, PrefixText
      <4> QED
        BY <1>1, <1>9, <2>1, <4>1 DEF Clean, Copied
    <3> QED
      BY <3>1, CountSame
  <2>2. CASE Told
    <3>1. toClient = sent \o ErrorEvent
      <4>1. sent \in Seq(Tokens)
        BY DEF PipelineInv, Types
      <4>2. Copied = sent
        BY <2>2, <4>1, SubSeqFull DEF Told, Copied
      <4> QED
        BY <2>2, <4>2 DEF Told
    <3>2. \A i \in 1..Len(sent) : (sent \o ErrorEvent)[i] = sent[i]
      BY ErrorText
    <3>3. \A i \in 1..nscan : toClient[i] = sent[i]
      BY <1>1, <1>6, <3>1, <3>2
    <3> QED
      BY <3>3, CountSame
  <2> QED
    BY <2>1, <2>2 DEF PipelineInv
<1> QED
  BY <1>4, <1>7, <1>10

LEMMA HandlerKeepsMessage ==
  ASSUME TapInv, RelayInv, MessageFits, ServeStream
  PROVE  MessageFits'
<1>0. PipelineInv /\ TextFits /\ RelayTypes /\ MaxEvents \in Nat
  BY BoundAssumption DEF TapInv, RelayInv
<1>1. /\ relay = "reading" /\ Balanced /\ (Stopped => Ended)
      /\ events \in Seq({"delta", "stop", "error"}) /\ nscan \in 0..Len(toClient)
  BY <1>0 DEF MessageFits, RelayTypes, ServeStream, RelayLine, UpstreamEnds, RelayAborts
<1>2. UNCHANGED <<kind, sent, ending, toClient>> /\ left' = left
  BY DEF ServeStream, RelayLine, UpstreamEnds, RelayAborts, vars, backendVars
<1>3. /\ Deltas(events) = CountTo("content", toClient, nscan) \/ PastBreak
      /\ Len(events) <= CountTo("content", toClient, nscan) + CountTo("usage", toClient, nscan)
      /\ Stopped => \E i \in 1..nscan : toClient[i] = "usage"
  BY <1>1 DEF Balanced
<1>4. "content" \in Payloads /\ "usage" \in Payloads /\ "done" \in Payloads
  BY DEF Payloads
<1>5. ASSUME NEW k \in 0..Len(toClient)
      PROVE  /\ CountTo("content", toClient, k) + CountTo("usage", toClient, k) <= MaxEvents
             /\ CountTo("content", toClient, k) \in Nat /\ CountTo("usage", toClient, k) \in Nat
  <2>1. k \in Nat
    BY <1>0, CopyLength
  <2>2. CountTo("content", toClient, k) \in Nat /\ CountTo("usage", toClient, k) \in Nat
    BY <2>1, CountNext
  <2>3. /\ CountTo("content", toClient, k) <= CountTo("content", sent, Len(sent))
        /\ CountTo("usage", toClient, k) <= CountTo("usage", sent, Len(sent))
    BY <1>0, <1>4, ScannedWasSent
  <2>4. /\ CountTo("content", sent, Len(sent)) + CountTo("usage", sent, Len(sent))
              + CountTo("error", sent, Len(sent)) <= MaxEvents
        /\ CountTo("content", sent, Len(sent)) \in Nat
        /\ CountTo("usage", sent, Len(sent)) \in Nat
        /\ CountTo("error", sent, Len(sent)) \in Nat
    BY <1>0, PayloadsFit
  <2> QED
    BY <1>0, <2>2, <2>3, <2>4
<1>6. Len(events) \in Nat /\ Len(events) <= MaxEvents /\ Deltas(events) \in Nat
  <2>1. Len(events) \in Nat /\ Deltas(events) \in Nat
    BY <1>1, EventCounts, "stop" \in {"delta", "stop", "error"}
  <2> QED
    BY <1>0, <1>1, <1>3, <1>5, <2>1
\* What the handler returns with.
<1>7. ASSUME NEW es \in Seq({"delta", "stop", "error"}), ReturnFrom(es), Len(es) <= MaxEvents + 1,
             "stop" \in Range(es) => Ended,
             ~left /\ es # <<>> /\ es[Len(es)] = "stop" =>
                /\ Deltas(es) = CountTo("content", sent, Len(sent))
                /\ ending = "eof" \/ "done" \in Range(sent)
      PROVE  MessageFits'
  <2>1. relay' = "done" /\ events' = es
    BY <1>7 DEF ReturnFrom
  <2>2. Stopped' => Ended'
    BY <1>2, <1>7, <2>1 DEF Stopped, Ended
  <2>3. Balanced' /\ (relay' = "none" => events' = <<>>)
    BY <2>1 DEF Balanced
  <2>4. Whole'
    BY <1>2, <1>7, <2>1 DEF Whole, Deltas
  <2> QED
    BY <1>7, <2>1, <2>2, <2>3, <2>4 DEF MessageFits
<1>8. CASE RelayAborts
  <2>1. left /\ ReturnFrom(events)
    BY <1>8 DEF RelayAborts
  <2>2. Len(events) <= MaxEvents + 1
    BY <1>0, <1>6
  <2> QED
    BY <1>1, <1>7, <2>1, <2>2 DEF Stopped
\* A stop is added, unless there is one.
<1>9. /\ Finalized \in Seq({"delta", "stop", "error"})
      /\ Len(Finalized) = Len(events) \/ (~Stopped /\ Len(Finalized) = Len(events) + 1)
      /\ "stop" \in Range(Finalized)
      /\ Deltas(Finalized) = Deltas(events)
  <2>1. CASE Stopped
    BY <1>1, <2>1 DEF Finalized, Stopped
  <2>2. CASE ~Stopped
    <3>1. Finalized = Append(events, "stop")
      BY <2>2 DEF Finalized
    <3>2. /\ Deltas(Append(events, "stop")) = Deltas(events) + 0
          /\ Len(Append(events, "stop")) = Len(events) + 1
          /\ Append(events, "stop") \in Seq({"delta", "stop", "error"})
          /\ "stop" \in Range(Append(events, "stop"))
      BY <1>1, EventCounts
    <3> QED
      BY <1>6, <2>2, <3>1, <3>2
  <2> QED
    BY <2>1, <2>2
<1>10. Len(Finalized) <= MaxEvents + 1
  BY <1>0, <1>6, <1>9
<1>11. CASE UpstreamEnds
  <2>1. ReturnFrom(IF failed \/ gone THEN events ELSE Finalized)
    BY <1>11 DEF UpstreamEnds
  <2>2. CASE failed \/ gone
    <3>1. left
      BY <1>0, <1>11, <2>2, SilentOnlyWhenLeft
    <3>2. ReturnFrom(events) /\ Len(events) <= MaxEvents + 1
      BY <1>0, <1>6, <2>1, <2>2
    <3> QED
      BY <1>1, <1>7, <3>1, <3>2 DEF Stopped
  <2>3. CASE ~(failed \/ gone)
    <3>1. ReturnFrom(Finalized)
      BY <2>1, <2>3
    <3>2. ending = "eof" /\ toClient = sent /\ nscan = Len(toClient)
      <4>1. copy = "done" /\ Unscanned = <<>>
        BY <1>11 DEF UpstreamEnds
      <4>2. ending = "eof" /\ toClient = sent
        BY <1>0, <2>3, <4>1 DEF PipelineInv, Types, Endings
      <4>3. /\ Len(toClient) \in Nat /\ Len(Unscanned) = Len(toClient) - nscan
            /\ Len(Unscanned) = 0
        BY <1>0, <4>1, CopyLength, UnscannedIs, EmptySeq
      <4> QED
        BY <1>1, <4>2, <4>3
    <3>3. Deltas(Finalized) = CountTo("content", sent, Len(sent))
      BY <1>3, <1>9, <3>2 DEF PastBreak
    <3>4. Ended
      BY <3>2 DEF Ended
    <3> QED
      BY <1>7, <1>9, <1>10, <3>1, <3>2, <3>3, <3>4
  <2> QED
    BY <2>2, <2>3
<1>12. ASSUME NEW end \in LineEnds, RelayLine(end) PROVE MessageFits'
  <2> DEFINE line == Unscanned[1]
             k == nscan + end
             Cut == ending = "reset" /\ nscan + 1 = Len(sent)
  <2>1. /\ nscan + 1 \in 1..Len(toClient) /\ line = toClient[nscan + 1]
        /\ k \in 1..Len(toClient) /\ end > 0
        /\ CountTo("content", toClient, k) = CountTo("content", toClient, nscan) + (IF line = "content" THEN 1 ELSE 0)
        /\ CountTo("usage", toClient, k) = CountTo("usage", toClient, nscan) + (IF line = "usage" THEN 1 ELSE 0)
    BY <1>0, <1>4, LineCounts
  <2>2. Len(toClient) \in Nat /\ nscan + 1 \in 0..Len(toClient) /\ nscan + 1 \in 1..(nscan + 1)
        /\ nscan + 1 \in 1..k /\ k \in 0..Len(toClient)
    <3>1. Len(toClient) \in Nat
      BY <1>0, CopyLength
    <3>2. end \in Nat
      <4>1. end \in 1..Len(Unscanned)
        BY <1>0, EndInLine
      <4> QED
        BY <4>1
    <3> QED
      BY <1>1, <2>1, <3>1, <3>2
  <2>3. ASSUME NEW x \in {"usage", "done"}, line = x PROVE x \in Range(sent) /\ Ended
    <3>1. x \in Payloads
      BY DEF Payloads
    <3>2. x \in Range(sent)
      BY <1>0, <2>1, <2>2, <2>3, <3>1, ScannedWasSent
    <3> QED
      BY <3>2 DEF Ended
  <2>4. nscan' = k
    BY <1>12 DEF RelayLine
  \* Nothing comes behind a break.
  <2>8. PastBreak => line \notin Payloads
    <3>1. ASSUME PastBreak, line \in Payloads PROVE FALSE
      <4>1. nscan + 1 \in 1..Len(sent)
        <5>1. \A i \in 1..(nscan + 1) : toClient[i] = line => i \in 1..Len(sent)
          BY <1>0, <2>2, <3>1, ScannedWasSent
        <5> HIDE DEF line
        <5> QED
          BY <2>1, <2>2, <5>1
      <4>2. Len(sent) \in Nat /\ nscan \in Nat
        <5>1. Len(sent) \in Nat
          BY <1>0, LenProperties DEF PipelineInv, Types
        <5> QED
          BY <1>1, <5>1
      <4> QED
        BY <3>1, <4>1, <4>2 DEF PastBreak
    <3> QED
      BY <3>1
  <2>5. CASE line \in {"error", "injected"}
    <3>1. ReturnFrom(Append(events, "error"))
      BY <1>12, <2>5 DEF RelayLine
    <3>2. /\ Len(Append(events, "error")) = Len(events) + 1
          /\ Append(events, "error")[Len(events) + 1] = "error"
          /\ Append(events, "error") \in Seq({"delta", "stop", "error"})
          /\ "stop" \in Range(Append(events, "error")) <=> "stop" \in Range(events)
      BY <1>1, EventCounts
    <3> DEFINE es == Append(events, "error")
    <3> HIDE DEF es
    <3>3. Len(es) <= MaxEvents + 1 /\ es[Len(es)] # "stop" /\ ("stop" \in Range(es) => Ended)
      BY <1>0, <1>1, <1>6, <3>2 DEF es, Stopped
    <3>4. es \in Seq({"delta", "stop", "error"}) /\ ReturnFrom(es)
      BY <3>1, <3>2 DEF es
    <3> QED
      BY <1>7, <3>3, <3>4
  <2>6. CASE line = "done"
    <3>1. ReturnFrom(Finalized)
      BY <1>12, <2>6 DEF RelayLine
    <3>2. /\ CountTo("content", toClient, nscan) = CountTo("content", sent, Len(sent))
          /\ "done" \in Range(sent)
      BY <1>0, <2>1, <2>6, AllBeforeDone
    <3>3. Ended
      BY <2>3, <2>6
    <3>4. Deltas(Finalized) = CountTo("content", sent, Len(sent))
      BY <1>3, <1>4, <1>9, <2>6, <2>8, <3>2
    <3> QED
      BY <1>7, <1>9, <1>10, <3>1, <3>2, <3>3, <3>4
  <2>7. CASE line \notin {"error", "injected", "done"}
    <3>1. relay' = relay /\ (events' = Converted(line) \/ (Cut /\ events' = Converted("cut")))
      BY <1>12, <2>7 DEF RelayLine, Parsed, Write
    <3>7. PastBreak \/ Cut => PastBreak'
      <4>1. Len(sent) \in Nat
        BY <1>0, LenProperties DEF PipelineInv, Types
      <4>2. nscan \in Nat /\ end \in Nat /\ end > 0
        <5>1. end \in 1..Len(Unscanned)
          BY <1>0, EndInLine
        <5> QED
          BY <1>1, <5>1
      <4>3. nscan' >= nscan + 1 /\ nscan' \in Int
        BY <2>4, <4>2
      <4> HIDE DEF k
      <4> QED
        BY <1>2, <4>1, <4>2, <4>3 DEF PastBreak
    \* The new events fit the tokens scanned.
    <3>2. ASSUME NEW es \in Seq({"delta", "stop", "error"}), events' = es,
                 Deltas(es) = CountTo("content", toClient, k) \/ PastBreak',
                 Len(es) <= CountTo("content", toClient, k) + CountTo("usage", toClient, k),
                 "stop" \in Range(es) => Ended /\ \E i \in 1..k : toClient[i] = "usage"
          PROVE  MessageFits'
      <4>1. Stopped' => Ended'
        BY <1>2, <3>2 DEF Stopped, Ended
      <4>2. Balanced'
        <5>1. /\ Deltas(events)' = CountTo("content", toClient', nscan') \/ PastBreak'
              /\ Len(events') <= CountTo("content", toClient', nscan') + CountTo("usage", toClient', nscan')
              /\ Stopped' => \E i \in 1..nscan' : toClient'[i] = "usage"
          BY <1>2, <2>4, <3>2 DEF Deltas, Stopped
        <5> QED
          BY <5>1 DEF Balanced
      <4>3. Whole' /\ relay' # "none"
        BY <1>1, <3>1 DEF Whole
      <4>4. Len(events') <= MaxEvents + 1
        <5>1. Len(es) \in Nat
          BY LenProperties
        <5> QED
          BY <1>0, <1>5, <2>2, <3>2, <5>1
      <4> QED
        BY <4>1, <4>2, <4>3, <4>4 DEF MessageFits
    <3>3. /\ CountTo("content", toClient, nscan) \in Nat /\ CountTo("usage", toClient, nscan) \in Nat
      BY <1>1, <1>5
    <3>9. line \in {"content", "usage"} => ~PastBreak
      BY <1>4, <2>8
    <3>8. CASE Cut /\ events' = Converted("cut")
      <4>1. events' = events
        BY <3>8 DEF Converted
      <4>2. Len(events) <= CountTo("content", toClient, k) + CountTo("usage", toClient, k)
        <5> HIDE DEF k, line
        <5> QED
          BY <1>3, <1>6, <2>1, <3>3
      <4>3. Stopped => Ended /\ \E i \in 1..k : toClient[i] = "usage"
        <5>1. \A i \in 1..nscan : i \in 1..k
          BY <1>1, <2>2
        <5> QED
          BY <1>1, <1>3, <5>1
      <4> HIDE DEF k
      <4> QED
        BY <1>1, <3>2, <3>7, <3>8, <4>1, <4>2, <4>3 DEF Stopped
    <3>4. CASE line = "content" /\ events' = Converted(line)
      <4>1. ~Stopped
        <5>1. SUFFICES ASSUME Stopped PROVE FALSE
          OBVIOUS
        <5>2. PICK i \in 1..nscan : toClient[i] = "usage"
          BY <1>3, <5>1
        <5>3. Ordered(toClient, Len(toClient))
          BY <1>0, CopyIs
        <5>4. i \in 1..Len(toClient) /\ nscan + 1 \in 1..Len(toClient) /\ i < nscan + 1
          BY <1>1, <2>1, <2>2
        <5>5. toClient[nscan + 1] # "content"
          BY <5>2, <5>3, <5>4 DEF Ordered
        <5> QED
          BY <2>1, <3>4, <5>5
      <4>2. Converted(line) = Append(events, "delta")
        BY <3>4, <4>1 DEF Converted
      <4> DEFINE es == Append(events, "delta")
      <4>3. /\ es \in Seq({"delta", "stop", "error"}) /\ Len(es) = Len(events) + 1
            /\ Deltas(es) = Deltas(events) + 1
            /\ "stop" \notin Range(es)
        BY <1>1, <4>1, EventCounts DEF Stopped
      <4> HIDE DEF es
      <4>4. /\ Deltas(es) = CountTo("content", toClient, k)
            /\ Len(es) <= CountTo("content", toClient, k) + CountTo("usage", toClient, k)
        <5> HIDE DEF k, line
        <5> QED
          BY <1>3, <1>6, <2>1, <3>3, <3>4, <3>9, <4>3
      <4>5. events' = es
        BY <3>4, <4>2 DEF es
      <4> HIDE DEF k
      <4> QED
        BY <3>2, <4>3, <4>4, <4>5
    <3>5. CASE line = "usage" /\ events' = Converted(line)
      <4>1. Converted(line) = Finalized
        BY <3>5 DEF Converted
      <4>2. Ended
        BY <2>3, <3>5
      <4>3. \E i \in 1..k : toClient[i] = "usage"
        BY <2>1, <2>2, <3>5
      <4>4. /\ Deltas(Finalized) = CountTo("content", toClient, k)
            /\ Len(Finalized) <= CountTo("content", toClient, k) + CountTo("usage", toClient, k)
        <5> HIDE DEF k, line
        <5> QED
          BY <1>3, <1>6, <1>9, <2>1, <3>3, <3>5, <3>9
      <4>5. events' = Finalized
        BY <3>5, <4>1
      <4> HIDE DEF k
      <4> QED
        BY <1>9, <3>2, <4>2, <4>3, <4>4, <4>5
    <3>6. CASE line \notin {"content", "usage"} /\ events' = Converted(line)
      <4>1. events' = events
        BY <3>6 DEF Converted
      <4>2. /\ Deltas(events) = CountTo("content", toClient, k) \/ PastBreak'
            /\ Len(events) <= CountTo("content", toClient, k) + CountTo("usage", toClient, k)
        <5> HIDE DEF k, line
        <5> QED
          BY <1>3, <1>6, <2>1, <3>3, <3>6, <3>7
      <4>3. Stopped => Ended /\ \E i \in 1..k : toClient[i] = "usage"
        <5>1. \A i \in 1..nscan : i \in 1..k
          BY <1>1, <2>2
        <5> QED
          BY <1>1, <1>3, <5>1
      <4> HIDE DEF k
      <4> QED
        BY <1>1, <3>2, <4>1, <4>2, <4>3 DEF Stopped
    <3> QED
      BY <3>1, <3>4, <3>5, <3>6, <3>8
  <2> QED
    BY <2>5, <2>6, <2>7
<1> QED
  BY <1>8, <1>11, <1>12 DEF ServeStream

LEMMA MessageStarts == RelayInit => MessageFits
<1> SUFFICES ASSUME RelayInit PROVE MessageFits
  OBVIOUS
<1>1. /\ events = <<>> /\ nscan = 0 /\ relay \in {"reading", "none"}
  BY DEF RelayInit, Asked
<1>2. Len(events) = 0 /\ ~Stopped
  BY <1>1, EmptySeq DEF Stopped, Range
<1>3. \A x, T : CountTo(x, T, 0) = 0
  BY CountNext, 0 \in Nat
<1>4. Deltas(events) = 0
  BY <1>2, <1>3 DEF Deltas
<1>5. CountTo("content", toClient, nscan) = 0 /\ CountTo("usage", toClient, nscan) = 0
  BY <1>1, <1>3
<1>6. Balanced
  BY <1>2, <1>4, <1>5 DEF Balanced
<1>7. Whole
  BY <1>1 DEF Whole
<1>8. Len(events) <= MaxEvents + 1
  BY <1>2, BoundAssumption
<1> QED
  BY <1>1, <1>2, <1>6, <1>7, <1>8 DEF MessageFits

LEMMA MessageStep == TapInv /\ RelayInv /\ MessageFits /\ [RelayNext]_allVars => MessageFits'
<1> SUFFICES ASSUME TapInv, RelayInv, MessageFits, [RelayNext]_allVars PROVE MessageFits'
  OBVIOUS
<1>1. CASE NextMessage
  <2>1. RelayInit'
    BY <1>1 DEF NextMessage, NextResponse, RelayInit, Init, Wrapped, Asked
  <2> QED
    BY <2>1, MessageStarts, PTL
<1>2. CASE UNCHANGED allVars
  BY <1>2 DEF allVars, vars, backendVars, relayVars, MessageFits, Stopped, Ended, Balanced, PastBreak, Whole, Deltas
<1> QED
  BY <1>1, <1>2, PipelineKeepsMessage, HandlerKeepsMessage DEF RelayNext

LEMMA MessagesUnderRelay == RelaySpec => [](TapInv /\ RelayInv /\ MessageFits)
<1>1. RelayInit => TapInv /\ RelayInv /\ MessageFits
  BY TapStarts, RelayStarts, MessageStarts DEF RelayInit
<1>2. TapInv /\ RelayInv /\ MessageFits /\ [RelayNext]_allVars
        => (TapInv /\ RelayInv /\ MessageFits)'
  BY RelayIsPipeline, TapStep, RelayStep, MessageStep DEF TapInv
<1> QED
  BY <1>1, <1>2, PTL DEF RelaySpec

\* A message is only stopped when the backend said that it ended, and a message
\* that ended carries all of the content, the last line without a newline too
\* (serveStream, stream.go:38-95).
THEOREM StopsEarned == RelaySpec => []StopIsEarned
<1>1. TapInv /\ RelayInv /\ MessageFits => StopIsEarned
  <2> SUFFICES ASSUME TapInv, RelayInv, MessageFits PROVE StopIsEarned
    OBVIOUS
  <2>1. Stopped => ending = "eof" \/ {"usage", "done"} \intersect Range(sent) # {}
    BY DEF MessageFits, Ended
  <2>2. ASSUME Served, Last(events) = "stop" PROVE Count("delta", events) = Count("content", sent)
    <3>1. events \in Seq({"delta", "stop", "error"}) /\ Len(events) > 0 /\ sent \in Seq(Tokens)
      BY <2>2 DEF Served, RelayInv, Returned, RelayTypes, TapInv, PipelineInv, Types
    <3>2. events # <<>> /\ events[Len(events)] = "stop"
      BY <2>2, <3>1, EmptySeq DEF Last
    <3>3. Deltas(events) = CountTo("content", sent, Len(sent))
      BY <2>2, <3>2 DEF Served, MessageFits, Whole
    <3>4. DOMAIN events = 1..Len(events)
      BY <3>1, LenProperties
    <3>5. Count("delta", events) = Deltas(events)
      BY <3>4 DEF Count, Deltas, CountTo
    <3> QED
      BY <3>1, <3>3, <3>5, CountIs
  <2> QED
    BY <2>1, <2>2 DEF StopIsEarned
<1> QED
  BY <1>1, MessagesUnderRelay, PTL

\* What the code leaves in flags of its own.
Flags == tracked \in BOOLEAN /\ behind \in BOOLEAN

LEMMA FlagsStep == Flags /\ [RelayNext]_allVars => Flags'
<1> SUFFICES ASSUME Flags, [RelayNext]_allVars PROVE Flags'
  OBVIOUS
<1>1. [Next]_vars => tracked' \in BOOLEAN
  <2>1. Backend \/ Watch \/ ClientGone \/ UNCHANGED vars => tracked' = tracked
    BY DEF Backend, SendPayload, SendNewline, BackendEnds, Watch, ClientGone, vars
  <2>2. CopyLoop => tracked' = tracked \/ tracked' = FALSE
    BY DEF CopyLoop, ServePending, ReturnFailed, CallInner, AbortCopy, ReadData, ReadEOF, ReadFails,
           BodyFails, Finish
  <2>3. NextResponse => tracked' \in BOOLEAN
    BY DEF NextResponse
  <2> QED
    BY <2>1, <2>2, <2>3 DEF Next, Flags
<1>2. behind' \in BOOLEAN
  <2>1. Pipeline \/ InnerCancelled \/ ClientLeaves \/ UNCHANGED allVars => behind' = behind
    BY DEF Pipeline, InnerCancelled, ClientLeaves, relayVars, allVars
  <2>2. NextMessage => behind' = FALSE
    BY DEF NextMessage
  <2>3. ASSUME NEW es, Write(es) PROVE behind' \in BOOLEAN
    BY <2>3 DEF Write, Flags
  <2>4. ASSUME NEW es, ReturnFrom(es) PROVE behind' \in BOOLEAN
    BY <2>4 DEF ReturnFrom
  <2>5. ServeStream => behind' \in BOOLEAN
    <3>1. ASSUME NEW end \in LineEnds, RelayLine(end) PROVE behind' \in BOOLEAN
      BY <2>3, <2>4, <3>1 DEF RelayLine
    <3>2. UpstreamEnds \/ RelayAborts => behind' \in BOOLEAN
      BY <2>4 DEF UpstreamEnds, RelayAborts
    <3> QED
      BY <3>1, <3>2 DEF ServeStream
  <2> QED
    BY <2>1, <2>2, <2>5 DEF RelayNext, Flags
<1> QED
  BY <1>1, <1>2, RelayIsPipeline DEF Flags

\* The type invariant of the composition: no counter, no text and no message
\* outgrows the number of events that the backend sends.
THEOREM RelayTypesCorrect == RelaySpec => []RelayTypeOK
<1>1. RelaySpec => []Flags
  <2>1. RelayInit => Flags
    BY DEF RelayInit, Init, Wrapped, Asked, Flags
  <2> QED
    BY <2>1, FlagsStep, PTL DEF RelaySpec
<1>2. TapInv /\ RelayInv /\ MessageFits /\ Flags => RelayTypeOK
  <2> SUFFICES ASSUME TapInv, RelayInv, MessageFits, Flags PROVE RelayTypeOK
    OBVIOUS
  <2>1. tap.contents \in 0..MaxEvents /\ tap.reports \in 0..MaxEvents
    <3>1. /\ CountTo("content", sent, Len(sent)) + CountTo("usage", sent, Len(sent))
                + CountTo("error", sent, Len(sent)) <= MaxEvents
          /\ CountTo("content", sent, Len(sent)) \in Nat
          /\ CountTo("usage", sent, Len(sent)) \in Nat
          /\ CountTo("error", sent, Len(sent)) \in Nat
      BY PayloadsFit DEF TapInv
    <3>2. /\ tap.contents <= CountTo("content", sent, Len(sent))
          /\ tap.reports <= CountTo("error", sent, Len(sent))
          /\ tap.contents \in Nat /\ tap.reports \in Nat
      BY DEF TapInv, TapBounds, TapFits, Taps
    <3> QED
      BY <3>1, <3>2, BoundAssumption
  <2>2. tap \in [partial : {"none"} \union (Tokens \ {"nl"}), done : BOOLEAN,
                 notified : Seq({"timings", "usage"}), contents : 0..MaxEvents,
                 reports : 0..MaxEvents]
    BY <2>1 DEF TapInv, TapFits, Taps
  <2>3. TypeOK
    BY <2>2 DEF TypeOK, TapInv, TextFits, PipelineInv, Types, Flags
  <2> QED
    BY <2>3 DEF RelayTypeOK, RelayInv, RelayTypes, MessageFits, Flags
<1> QED
  BY <1>1, <1>2, MessagesUnderRelay, PTL

-----------------------------------------------------------------------------
(* One observation.                                                        *)

\* What was published is remembered.
Once(t) == Len(t.notified) = IF t.done THEN 1 ELSE 0

LEMMA HandledOnce ==
  ASSUME NEW t \in Taps, Once(t), NEW line
  PROVE  Once(HandleLine(t, line)) /\ Once([t EXCEPT !.partial = line])
<1> DEFINE publishes == ~t.done /\ line \in {"timings", "usage"}
           n == IF publishes THEN Append(t.notified, line) ELSE t.notified
           h == HandleLine(t, line)
<1>1. h.notified = n /\ (h.done <=> t.done \/ publishes)
  BY DEF HandleLine, Taps
<1>2. t.notified \in Seq({"timings", "usage"})
  BY DEF Taps
<1>3. publishes => Len(Append(t.notified, line)) = Len(t.notified) + 1
  BY <1>2, AppendProperties
<1>4. Once(h)
  <2>1. CASE publishes
    <3>1. h.done /\ ~t.done /\ h.notified = Append(t.notified, line)
      BY <1>1, <2>1
    <3> QED
      BY <1>3, <2>1, <3>1 DEF Once
  <2>2. CASE ~publishes
    <3>1. (h.done <=> t.done) /\ h.notified = t.notified
      BY <1>1, <2>2
    <3> QED
      BY <3>1, Zenon DEF Once
  <2> QED
    BY <2>1, <2>2
<1>5. Once([t EXCEPT !.partial = line])
  BY DEF Once, Taps
<1> QED
  BY <1>4, <1>5

LEMMA ClosedOnce ==
  ASSUME NEW t \in Taps, Once(t)
  PROVE  [t EXCEPT !.partial = "none"] \in Taps /\ Once(Closed(t))
<1>1. [t EXCEPT !.partial = "none"] \in Taps
  BY DEF Taps
<1>2. Once([t EXCEPT !.partial = "none"])
  BY HandledOnce
<1> QED
  BY <1>1, <1>2, HandledOnce DEF Closed

LEMMA PieceOnce ==
  ASSUME NEW n \in Nat, NEW piece \in [1..n -> Tokens], tap \in Taps, Once(tap)
  PROVE  Scanned(tap, piece, n) \in Taps /\ Once(Scanned(tap, piece, n))
<1>1. PICK after \in [0..n -> Taps] :
        /\ after[0] = tap
        /\ \A i \in 1..n : after[i] = Feed(after[i - 1], piece[i])
        /\ after[n] = Scanned(tap, piece, n)
  BY ScannedLoop
<1> DEFINE T == {i \in 0..n : Once(after[i])}
<1>2. 0 \in T
  BY <1>1
<1>3. ASSUME NEW i \in 1..n, i - 1 \in T PROVE i \in T
  <2> DEFINE t == after[i - 1]
  <2>1. i - 1 \in 0..n /\ t \in Taps /\ Once(t) /\ after[i] = Feed(t, piece[i])
    BY <1>1, <1>3
  <2> HIDE DEF t
  <2>2. Once(Closed(t)) /\ Once([t EXCEPT !.partial = piece[i]])
    BY <2>1, ClosedOnce, HandledOnce
  <2>3. Once(Feed(t, piece[i]))
    BY <2>1, <2>2, Zenon DEF Feed, Closed
  <2> QED
    BY <2>1, <2>3
<1>4. \A i \in 0..n : i \in T
  <2> HIDE DEF T
  <2> QED
    BY <1>2, <1>3, Induction
<1>5. n \in 0..n /\ n \in T
  BY <1>4
<1> QED
  BY <1>1, <1>5

LEMMA ScannedOnce ==
  ASSUME NEW chunk \in Seq(Tokens), tap \in Taps, Once(tap)
  PROVE  Scan(chunk) \in Taps /\ Once(Scan(chunk))
<1> DEFINE n == Len(chunk)
<1>1. n \in Nat /\ chunk \in [1..n -> Tokens] /\ Scan(chunk) = Scanned(tap, chunk, n)
  BY LenProperties DEF Scan
<1> HIDE DEF n
<1> QED
  BY <1>1, PieceOnce

LEMMA BodyOnce == ASSUME NEW body PROVE tap \in Taps => Once(PublishFromBody(body))
<1> DEFINE data == {i \in DOMAIN body : body[i] \in {"timings", "usage"}}
           first == {i \in data : \A j \in data : i <= j}
           isError == data = {} /\ body # <<>> /\ body[1] = "error"
           x == body[CHOOSE i \in first : TRUE]
           t == PublishFromBody(body)
<1> SUFFICES ASSUME tap \in Taps PROVE Once(t)
  OBVIOUS
<1>1. t = [tap EXCEPT !.notified = IF data = {} THEN <<>> ELSE <<x>>, !.done = (data # {}),
                      !.reports = IF Guarded /\ isError THEN 1 ELSE 0]
  BY DEF PublishFromBody
<1> HIDE DEF data, x, isError, t
<1>2. /\ t.notified = (IF data = {} THEN <<>> ELSE <<x>>)
      /\ t.done <=> data # {}
  BY <1>1 DEF Taps
<1>3. Len(<<x>>) = 1 /\ Len(<<>>) = 0
  OBVIOUS
<1> QED
  BY <1>2, <1>3 DEF Once

LEMMA OnceStep == TapInv /\ Once(tap) /\ [Next]_vars => Once(tap)'
<1> SUFFICES ASSUME TapInv, Once(tap), [Next]_vars PROVE Once(tap')
  BY DEF Once
<1>1. /\ Types /\ (Clean \/ Told) /\ Failures /\ tap \in Taps
      /\ copy = "blocked" => Clean
  BY DEF TapInv, PipelineInv, TapFits, Failures, Told
<1>2. CASE UNCHANGED tap
  BY <1>2
<1>3. CASE ServePending
  BY <1>1, <1>3, ErrorEventIs, ScannedOnce DEF ServePending
<1>4. ASSUME NEW n \in 1..Len(Unread), ReadData(n) PROVE Once(tap')
  <2>1. copy = "blocked" /\ tap' = TapData(SubSeq(Unread, 1, n)) /\ n \in 0..Len(Unread)
    BY <1>4 DEF ReadData
  <2>2. SubSeq(Unread, 1, n) \in Seq(Tokens)
    BY <1>1, <2>1, ReadCopies
  <2> QED
    BY <1>1, <2>1, <2>2, ScannedOnce DEF TapData
<1>5. CASE ReadEOF
  <2>1. copy = "blocked" /\ tap' = TapEOF(Unread)
    BY <1>5 DEF ReadEOF
  <2>2. Unread \in Seq(Tokens)
    BY <1>1, <2>1, ReadCopiesAll
  <2>3. Scan(Unread) \in Taps /\ Once(Scan(Unread))
    BY <1>1, <2>2, ScannedOnce
  <2>4. Once(FlushTrailingLine(Scan(Unread)))
    BY <2>3, ClosedOnce DEF Closed, FlushTrailingLine
  <2>5. Once(PublishFromBody(toClient \o Unread))
    BY <1>1, BodyOnce
  <2> QED
    BY <2>1, <2>4, <2>5, Zenon DEF TapEOF
<1>6. CASE ReadFails
  <2> DEFINE chunk == IF closed THEN <<>> ELSE Unread
  <2>1. copy = "blocked" /\ tap' = Scan(chunk)
    BY <1>6 DEF ReadFails
  <2>2. Unread \in Seq(Tokens) /\ <<>> \in Seq(Tokens)
    BY <1>1, <2>1, ReadCopiesAll, EmptySeq
  <2>3. chunk \in Seq(Tokens)
    BY <2>2
  <2> HIDE DEF chunk
  <2> QED
    BY <1>1, <2>1, <2>3, ScannedOnce
<1>7. CASE NextResponse
  BY <1>7 DEF NextResponse, FreshTap, Once
<1>8. CASE ReturnFailed \/ CallInner \/ AbortCopy \/ BodyFails \/ Watch \/ ClientGone \/ Backend
  BY <1>2, <1>8 DEF ReturnFailed, CallInner, AbortCopy, BodyFails, Watch, ClientGone, Backend,
                    SendPayload, SendNewline, BackendEnds
<1> QED
  BY <1>2, <1>3, <1>4, <1>5, <1>6, <1>7, <1>8 DEF Next, CopyLoop, vars

\* A completion is never accounted twice, with early timings or without, behind
\* an error, for a client that left and for a stream that broke: "the line that
\* carries the usage publishes the observation" (completion.go:202-204), once.
THEOREM NeverTwice == RelaySpec => [](Len(tap.notified) <= 1)
<1>1. RelayInit => Once(tap)
  BY DEF RelayInit, Init, Wrapped, FreshTap, Once
<1>2. TapInv /\ Once(tap) /\ [RelayNext]_allVars => Once(tap)'
  BY RelayIsPipeline, OnceStep
<1>3. Once(tap) => Len(tap.notified) <= 1
  BY DEF Once
<1> QED
  BY <1>1, <1>2, <1>3, TapUnderRelay, PTL DEF RelaySpec
-----------------------------------------------------------------------------
(* The pipeline implements Delivery.                                       *)

LEMMA DeliveryStarts == Init => Response!Init
BY DEF Init, Wrapped, Response!Init, Response!Fresh, Outcome, IsStream

LEMMA CleanLength ==
  ASSUME Types, Clean
  PROVE  Len(toClient) = nread /\ toClient = SubSeq(sent, 1, nread)
<1>1. /\ sent \in Seq(Tokens) /\ Len(sent) \in Nat /\ nread \in 0..Len(sent)
      /\ toClient = SubSeq(sent, 1, nread)
  BY LenProperties DEF Types, Clean, Copied
<1>2. \A i \in 1..nread : sent[i] \in Tokens
  BY <1>1, ElementOfSeq
<1> QED
  BY <1>1, <1>2, SubSeqProperties

\* What a read brings is what the client may have next.
LEMMA ReadIsMore ==
  ASSUME Types, Clean, NEW n \in 0..Len(Unread)
  PROVE  toClient \o SubSeq(Unread, 1, n) \in Response!More
<1>1. /\ Len(sent) \in Nat /\ sent \in Seq(Tokens) /\ nread \in 0..Len(sent)
      /\ nread + n \in 0..Len(sent)
      /\ toClient \o SubSeq(Unread, 1, n) = SubSeq(sent, 1, nread + n)
  BY ReadCopies, LenProperties DEF Types
<1>2. Len(toClient) = nread
  BY CleanLength
<1>3. nread + n \in Len(toClient)..Len(sent)
  BY <1>1, <1>2
<1> QED
  BY <1>1, <1>3 DEF Response!More

LEMMA AllIsMore ==
  ASSUME Types, Clean
  PROVE  toClient \o Unread = sent /\ sent \in Response!More /\ toClient \in Response!More
<1>1. /\ Unread \in Seq(Tokens) /\ toClient \o Unread = sent /\ Len(Unread) \in Nat
  BY ReadCopiesAll, LenProperties
<1>2. SubSeq(Unread, 1, Len(Unread)) = Unread
  BY <1>1, SubSeqFull
<1>3. sent \in Response!More
  BY <1>1, <1>2, ReadIsMore, Len(Unread) \in 0..Len(Unread)
<1>4. Len(sent) \in Nat /\ nread \in 0..Len(sent) /\ Len(toClient) = nread /\ toClient = SubSeq(sent, 1, nread)
  BY CleanLength, LenProperties DEF Types
<1>5. nread \in Len(toClient)..Len(sent)
  BY <1>4
<1> QED
  BY <1>1, <1>3, <1>4, <1>5 DEF Response!More

LEMMA DeliveryStep == PipelineInv /\ [Next]_vars => [Response!Next]_(Response!vars)
<1> SUFFICES ASSUME PipelineInv, [Next]_vars PROVE [Response!Next]_(Response!vars)
  OBVIOUS
<1> USE DEF backendVars, guardVars
<1>1. Types /\ (Clean \/ Told) /\ Failures /\ Endings
  BY DEF PipelineInv
<1>2. ASSUME kind' = kind, sent' = sent, ending' = ending, toClient' = toClient, gone' = gone,
             Outcome' = Outcome
      PROVE  UNCHANGED Response!vars
  BY <1>2 DEF Response!vars, IsStream
<1>3. CASE UNCHANGED vars
  BY <1>2, <1>3 DEF vars, Outcome
<1>4. CASE Backend
  <2>1. /\ ending = "open" /\ ending' \in {"open", "eof", "reset"}
        /\ sent' = sent \/ \E x \in Tokens : sent' = Append(sent, x)
        /\ UNCHANGED <<kind, toClient, gone, copy, failed>>
    BY <1>4 DEF Backend, SendPayload, SendNewline, BackendEnds, Tokens
  <2>2. Response!Answer
    BY <2>1 DEF Response!Answer, Outcome, IsStream
  <2> QED
    BY <2>2 DEF Response!Next
<1>5. CASE ServePending
  <2>1. copy = "call" /\ pending /\ UNCHANGED <<kind, sent, ending, gone, copy, failed>>
        /\ toClient' = toClient \o ErrorEvent
    BY <1>5 DEF ServePending
  <2>2. Clean /\ ending = "reset" /\ nread = Len(sent) /\ IsStream
    BY <1>1, <2>1 DEF Failures
  <2>3. toClient = sent
    BY <1>1, <2>2, SubSeqFull DEF Clean, Copied, Types
  <2>4. Response!Interrupt
    BY <2>1, <2>2, <2>3 DEF Response!Interrupt, Outcome, IsStream
  <2> QED
    BY <2>4 DEF Response!Next
<1>6. CASE ReturnFailed \/ AbortCopy
  <2>1. /\ copy = "call" /\ copy' = "done"
        /\ (~pending /\ failed) \/ gone
        /\ UNCHANGED <<kind, sent, ending, gone, failed, toClient>>
    BY <1>6 DEF ReturnFailed, AbortCopy, Finish
  <2>2. Outcome = "open" /\ Outcome' = "aborted" /\ IsStream' = IsStream
    BY <2>1 DEF Outcome, IsStream
  <2>3. CASE gone
    <3>1. Response!GiveUp
      BY <2>1, <2>2, <2>3 DEF Response!GiveUp
    <3> QED
      BY <3>1 DEF Response!Next
  <2>4. CASE ~gone
    <3>1. IsStream /\ Told
      BY <1>1, <2>1, <2>4 DEF Failures
    <3>2. ending = "reset" /\ toClient = sent \o ErrorEvent
      BY <1>1, <3>1, SubSeqFull DEF Told, Copied, Types
    <3>3. Response!Abort
      BY <2>1, <2>2, <3>1, <3>2 DEF Response!Abort
    <3> QED
      BY <3>3 DEF Response!Next
  <2> QED
    BY <2>3, <2>4
<1>7. CASE CallInner \/ Watch
  <2>1. UNCHANGED <<kind, sent, ending, toClient, gone, failed>> /\ (copy' = "done" <=> copy = "done")
    BY <1>7 DEF CallInner, Watch
  <2> QED
    BY <1>2, <2>1 DEF Outcome
<1>8. ASSUME copy = "blocked" PROVE ~failed /\ Clean /\ (closed => gone) /\ Outcome = "open"
  BY <1>1, <1>8 DEF Failures, Told, Outcome
<1>9. ASSUME NEW n \in 1..Len(Unread), ReadData(n) PROVE Response!Next
  <2>1. /\ copy = "blocked" /\ copy' = "call" /\ UNCHANGED <<kind, sent, ending, gone, failed>>
        /\ toClient' = toClient \o SubSeq(Unread, 1, n) /\ n \in 0..Len(Unread)
    BY <1>9 DEF ReadData
  <2>2. toClient' \in Response!More
    BY <1>1, <1>8, <2>1, ReadIsMore
  <2>3. Response!Pass
    BY <1>8, <2>1, <2>2 DEF Response!Pass, Outcome, IsStream
  <2> QED
    BY <2>3 DEF Response!Next
<1>10. CASE ReadEOF
  <2>1. /\ copy = "blocked" /\ copy' = "done" /\ ending = "eof" /\ toClient' = toClient \o Unread
        /\ UNCHANGED <<kind, sent, ending, gone, failed>>
    BY <1>10 DEF ReadEOF, Finish
  <2>2. toClient' = sent /\ sent \in Response!More /\ Outcome = "open" /\ IsStream' = IsStream
        /\ Outcome' = IF gone THEN "aborted" ELSE "complete"
    BY <1>1, <1>8, <2>1, AllIsMore DEF Outcome, IsStream
  <2>3. CASE gone
    <3>1. Response!GiveUp
      BY <2>1, <2>2, <2>3 DEF Response!GiveUp
    <3> QED
      BY <3>1 DEF Response!Next
  <2>4. CASE ~gone
    <3>1. Response!Complete
      BY <2>1, <2>2, <2>4 DEF Response!Complete
    <3> QED
      BY <3>1 DEF Response!Next
  <2> QED
    BY <2>3, <2>4
<1>11. ASSUME ReadFails \/ BodyFails
       PROVE  /\ copy = "blocked" /\ ~failed /\ Clean /\ Outcome = "open" /\ IsStream' = IsStream
              /\ UNCHANGED <<kind, sent, ending, gone>>
              /\ sent \in Response!More /\ toClient \in Response!More
              /\ toClient' \in Response!More
              /\ ~gone => ending = "reset" /\ toClient' = sent
  <2>1. /\ copy = "blocked" /\ UNCHANGED <<kind, sent, ending, gone>>
        /\ closed \/ ending = "reset"
        /\ toClient' = toClient \o IF closed THEN <<>> ELSE Unread
    BY <1>11 DEF ReadFails, BodyFails
  <2>2. ~failed /\ Clean /\ (closed => gone) /\ Outcome = "open"
    BY <1>8, <2>1
  <2>3. toClient \o Unread = sent /\ sent \in Response!More /\ toClient \in Response!More
    BY <1>1, <2>2, AllIsMore
  <2>4. toClient \o <<>> = toClient
    BY <1>1, ConcatEmptySeq DEF Types
  <2>5. IsStream' = IsStream
    BY <2>1 DEF IsStream
  <2>6. (closed => toClient' = toClient) /\ (~closed => toClient' = sent)
    BY <2>1, <2>3, <2>4
  <2> QED
    BY <2>1, <2>2, <2>3, <2>5, <2>6
<1>12. CASE ReadFails
  <2>1. copy' = "call"
    BY <1>12 DEF ReadFails
  <2>2. Response!Pass
    BY <1>11, <1>12, <2>1 DEF Response!Pass, Outcome
  <2> QED
    BY <2>2 DEF Response!Next
<1>13. CASE BodyFails
  <2>1. copy' = "done" /\ failed' = TRUE /\ ~IsStream
    BY <1>13 DEF BodyFails, Finish
  <2>2. Outcome' = "aborted"
    BY <2>1 DEF Outcome
  <2>3. CASE gone
    <3>1. Response!GiveUp
      BY <1>11, <1>13, <2>2, <2>3 DEF Response!GiveUp
    <3> QED
      BY <3>1 DEF Response!Next
  <2>4. CASE ~gone
    <3>1. Response!Abort
      BY <1>11, <1>13, <2>1, <2>2, <2>4 DEF Response!Abort
    <3> QED
      BY <3>1 DEF Response!Next
  <2> QED
    BY <2>3, <2>4
<1>14. CASE ClientGone
  <2>1. /\ copy # "done" /\ ~gone /\ gone' = TRUE
        /\ UNCHANGED <<kind, sent, ending, toClient, copy, failed>>
    BY <1>14 DEF ClientGone
  <2>2. Response!Leave
    BY <2>1 DEF Response!Leave, Outcome, IsStream
  <2> QED
    BY <2>2 DEF Response!Next
<1>15. CASE NextResponse
  <2>1. /\ copy = "done" /\ sent' = <<>> /\ ending' = "open" /\ gone' = FALSE /\ copy' = "call"
        /\ toClient' = <<>>
    BY <1>15 DEF NextResponse
  <2>2. Outcome # "open" /\ Outcome' = "open" /\ IsStream' \in BOOLEAN
    BY <2>1 DEF Outcome, IsStream
  <2>3. Response!Another
    BY <2>1, <2>2 DEF Response!Another, Response!Fresh
  <2> QED
    BY <2>3 DEF Response!Next
<1> QED
  BY <1>3, <1>4, <1>5, <1>6, <1>7, <1>9, <1>10, <1>12, <1>13, <1>14, <1>15 DEF Next, CopyLoop

\* The pipeline implements Delivery, for responses of any length, cut anywhere,
\* whoever reads it: step by step, nothing is taken back or repeated, and a
\* connection ends as complete or aborted for a reason that the backend or the
\* client gave (guardBody of streamerror.go, ctxBody of proxy.go).
THEOREM ResponsesDelivered == RelaySpec => DeliversResponse
<1>1. RelayInit => Response!Init
  BY DeliveryStarts DEF RelayInit
<1>2. PipelineInv /\ [RelayNext]_allVars => [Response!Next]_(Response!vars)
  BY RelayIsPipeline, DeliveryStep
<1> QED
  BY <1>1, <1>2, PipelineUnderRelay, PTL DEF RelaySpec, DeliversResponse, Response!Spec
====
