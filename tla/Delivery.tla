------------------------------- MODULE Delivery -------------------------------
(***************************************************************************)
(* What the proxy promises the client of a response: the text of the       *)
(* backend, piece by piece and never taken back; at the end all of it; and *)
(* of a text that broke off all there was, followed in an announced stream *)
(* by a mark, before the connection is aborted.  A client that leaves is   *)
(* promised nothing more.                                                  *)
(***************************************************************************)
EXTENDS Integers, Sequences

CONSTANTS
  Tokens,
  Mark       \* the tokens that tell of an interruption

VARIABLES
  announced, \* the client was told to expect a stream
  text,      \* what the backend said
  ending,    \* how it stopped: open, eof, reset
  got,       \* what the client has
  left,      \* the client left
  outcome    \* how the response ended for the client: open, complete, aborted

vars == <<announced, text, ending, got, left, outcome>>

Fresh ==
  /\ announced \in BOOLEAN
  /\ text = <<>> /\ ending = "open" /\ got = <<>> /\ left = FALSE /\ outcome = "open"

Init == Fresh

\* What the client may have next; nothing once it has the mark.
More == {SubSeq(text, 1, n) : n \in Len(got)..Len(text)}

Answer ==
  /\ ending = "open"
  /\ text' = text \/ \E x \in Tokens : text' = Append(text, x)
  /\ ending' \in {"open", "eof", "reset"}
  /\ UNCHANGED <<announced, got, left, outcome>>

Pass ==
  /\ outcome = "open"
  /\ got' \in More
  /\ UNCHANGED <<announced, text, ending, left, outcome>>

Interrupt ==
  /\ outcome = "open" /\ announced
  /\ ending = "reset" /\ got = text
  /\ got' = text \o Mark
  /\ UNCHANGED <<announced, text, ending, left, outcome>>

Complete ==
  /\ outcome = "open" /\ ending = "eof"
  /\ got' = text /\ got' \in More
  /\ outcome' = "complete"
  /\ UNCHANGED <<announced, text, ending, left>>

Abort ==
  /\ outcome = "open" /\ ending = "reset"
  /\ IF announced
       THEN got = text \o Mark /\ got' = got
       ELSE got' = text /\ got' \in More
  /\ outcome' = "aborted"
  /\ UNCHANGED <<announced, text, ending, left>>

Leave ==
  /\ outcome = "open" /\ ~left
  /\ left' = TRUE
  /\ UNCHANGED <<announced, text, ending, got, outcome>>

GiveUp ==
  /\ outcome = "open" /\ left
  /\ got' \in More \union {got}
  /\ outcome' = "aborted"
  /\ UNCHANGED <<announced, text, ending, left>>

Another ==
  /\ outcome # "open"
  /\ Fresh'

Next == Answer \/ Pass \/ Interrupt \/ Complete \/ Abort \/ Leave \/ GiveUp \/ Another

Spec == Init /\ [][Next]_vars
===============================================================================
