------------------------------- MODULE Ledger -------------------------------
(***************************************************************************)
(* What the log of the order synchronisation (table SyncJobLog) promises,  *)
(* whatever runs, pages, retries and crashes there are behind it: a report *)
(* on a closed day is opened, and given one verdict, or none, which only   *)
(* an error found afterwards turns into FAIL; it says SUCCESS only if      *)
(* every order of the day is stored; an order that is stored stays stored. *)
(***************************************************************************)
EXTENDS Integers, Sequences, FiniteSets

CONSTANT Sizes  \* how many orders a day may have

VARIABLES
  sizes,    \* the number of orders of each closed day
  stored,   \* the orders stored, per day
  reports   \* the reports, each with its day and its verdict

ledger == <<sizes, stored, reports>>

Days == DOMAIN sizes
Verdicts == {"SUCCESS", "PARTIAL_FAIL", "FAIL"}

(* Days are numbered from 0 on.                                            *)
CloseADay(n) ==
  LET d == Cardinality(Days)
  IN /\ sizes' = [e \in Days \cup {d} |-> IF e = d THEN n ELSE sizes[e]]
     /\ stored' = [e \in Days \cup {d} |-> IF e = d THEN {} ELSE stored[e]]
     /\ UNCHANGED reports

Open(d) ==
  /\ d \in Days
  /\ reports' = Append(reports, [day |-> d, status |-> "RUNNING"])
  /\ UNCHANGED <<sizes, stored>>

Store(d, o) ==
  /\ d \in Days
  /\ o \in 1..sizes[d]
  /\ stored' = [stored EXCEPT ![d] = @ \cup {o}]
  /\ UNCHANGED <<sizes, reports>>

Decide(i, verdict) ==
  /\ i \in DOMAIN reports
  /\ reports[i].status = "RUNNING" \/ verdict = "FAIL"
  /\ verdict = "SUCCESS" => stored[reports[i].day] = 1..sizes[reports[i].day]
  /\ reports' = [reports EXCEPT ![i].status = verdict]
  /\ UNCHANGED <<sizes, stored>>

Init ==
  /\ \A d \in Days : sizes[d] \in Sizes
  /\ stored = [d \in Days |-> {}]
  /\ reports = << >>

Next ==
  \/ \E n \in Sizes : CloseADay(n)
  \/ \E d \in Days : Open(d)
  \/ \E d \in Days : \E o \in 1..sizes[d] : Store(d, o)
  \/ \E i \in DOMAIN reports, verdict \in Verdicts : Decide(i, verdict)

Spec == Init /\ [][Next]_ledger
=============================================================================
