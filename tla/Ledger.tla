-------------------------------- MODULE Ledger --------------------------------
(***************************************************************************)
(* What the statistics promise: a book with a count of completions per     *)
(* day.  A step adds one completion to one day, or drops days outside the  *)
(* retention window; only a day that was damaged may come back with        *)
(* another count.                                                          *)
(***************************************************************************)
EXTENDS Integers

CONSTANTS Days, Keep
VARIABLES
  today,
  ledger,   \* completions accounted, by day
  doubt     \* damaged days

vars == <<today, ledger, doubt>>

Init ==
  /\ today \in Days
  /\ ledger = [d \in Days |-> 0]
  /\ doubt = {}

Account(d) ==
  /\ d \notin doubt
  /\ ledger' = [ledger EXCEPT ![d] = @ + 1]
  /\ UNCHANGED <<today, doubt>>

Rebuild(d) ==
  /\ d \in doubt
  /\ ledger'[d] > 0
  /\ ledger' = [ledger EXCEPT ![d] = ledger'[d]]
  /\ doubt' = doubt \ {d}
  /\ UNCHANGED today

Damage(d) ==
  /\ ledger' \in {ledger, [ledger EXCEPT ![d] = 0]}
  /\ doubt' = doubt \union {d}
  /\ UNCHANGED today

\* A completion that is given up leaves a damaged day as it was.
GiveUp ==
  /\ doubt' \subseteq doubt
  /\ UNCHANGED <<today, ledger>>

Expire ==
  LET Dropped == {d \in Days : today - d >= Keep}
  IN  /\ \A d \in Days : \/ ledger'[d] = ledger[d]
                         \/ d \in Dropped /\ ledger'[d] = 0
      /\ ledger' = [d \in Days |-> ledger'[d]]
      /\ doubt' \subseteq doubt
      /\ UNCHANGED today

NextDay ==
  /\ today' = today + 1
  /\ UNCHANGED <<ledger, doubt>>

Next == (\E d \in Days : Account(d) \/ Rebuild(d) \/ Damage(d)) \/ GiveUp \/ Expire \/ NextDay

Spec == Init /\ [][Next]_vars
===============================================================================
