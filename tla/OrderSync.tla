----------------------------- MODULE OrderSync -----------------------------
(***************************************************************************)
(* The synchronisation of the orders of the Yango park: syncYangoOrders of *)
(* rabbitmq.service.ts, started by cron, the log row it keeps for every    *)
(* closed UTC day it lists, and the retries of yango.service.ts.  A run    *)
(* goes from the oldest day of the lookback to yesterday and stops at the  *)
(* first day that fails; the window of a day is computed when the run      *)
(* reaches it, so midnight may pass in between; runs may overlap.          *)
(*                                                                         *)
(* A day is a number, its orders the numbers 1 to the size of the day: the *)
(* park lists the orders of a closed day in an order that does not change  *)
(* (external).  What an order holds is left out.                           *)
(***************************************************************************)
EXTENDS Integers, Sequences, FiniteSets

CONSTANTS
  RawLookbackDays,  \* YANGO_ORDER_SYNC_LOOKBACK_DAYS
  RunsPerDay,       \* cron times in a day: 3 in the code, '0 */8 * * *'
  Limit,            \* orders on a page: 500 in the code
  MaxRetries,       \* MAX_TRANSIENT_RETRIES: 3 in the code
  Sizes,            \* how many orders a day may have
  Runs,             \* bound: runs in progress at once
  MaxDay,           \* bound: the last day
  MaxTrouble        \* bound: failed requests, see trouble

ASSUME OrderSyncAssumption ==
  /\ RunsPerDay \in Nat \ {0}
  /\ Limit \in Nat \ {0}
  /\ MaxRetries \in Nat
  /\ Sizes \subseteq Nat
  /\ MaxDay \in Nat
  /\ MaxTrouble \in Nat
ASSUME RunsAssumption == IsFiniteSet(Runs)

LookbackDays == IF RawLookbackDays \in Nat \ {0} THEN RawLookbackDays ELSE 3

VARIABLES
  today,    \* the UTC day of new Date()
  fired,    \* cron times that have passed today
  sizes,    \* the orders of each closed day
  orders,   \* the DriverOrder table: the orders stored, per day
  logs,     \* the SyncJobLog table
  runs,     \* the runs in progress
  trouble   \* observer: requests failed; a run lost otherwise counts as many
            \* as it takes to make it fail

vars == <<today, fired, sizes, orders, logs, runs, trouble>>

ClosedDays == 0..today - 1
Idle == [pc |-> "idle", offset |-> 0, day |-> 0, log |-> 0, from |-> 0, todo |-> 0,
         attempt |-> 0, fetched |-> 0, synced |-> 0, failed |-> 0]

At(r, pc) == runs[r].pc = pc
Set(r, run) == runs' = [runs EXCEPT ![r] = run]
Goto(r, pc) == runs' = [runs EXCEPT ![r].pc = pc]
Busy == {r \in Runs : ~At(r, "idle")}

LostRun == MaxRetries + 1
Suffer(n) == trouble + n <= MaxTrouble /\ trouble' = trouble + n

(***************************************************************************)
(* Cron, and the loop over the days of the lookback.                       *)
(***************************************************************************)
FaultyStartDay(offset) ==
  [Idle EXCEPT !.pc = "create", !.offset = offset, !.day = today - offset + 1]

(* getClosedUtcDayWindow, when the run comes to this offset.               *)
StartDay(offset) ==
  [Idle EXCEPT !.pc = "create", !.offset = offset, !.day = today - offset]

NextDay(run) == IF run.offset > 1 THEN StartDay(run.offset - 1) ELSE Idle

Fire(r) ==
  /\ At(r, "idle")
  /\ fired < RunsPerDay
  /\ fired' = fired + 1
  /\ Set(r, StartDay(LookbackDays))
  /\ UNCHANGED <<today, sizes, orders, logs, trouble>>

(* The process is down at a cron time.                                     *)
MissFire ==
  /\ fired < RunsPerDay
  /\ fired' = fired + 1
  /\ Suffer(LostRun)
  /\ UNCHANGED <<today, sizes, orders, logs, runs>>

(***************************************************************************)
(* One closed day: syncYangoOrdersForClosedDay.                            *)
(***************************************************************************)
OpenLog(day) ==
  logs' = Append(logs, [day |-> day, status |-> "RUNNING",
                        fetched |-> 0, synced |-> 0, failed |-> 0])

(* The row is created outside the try: if that fails, with or without      *)
(* effect, the run is over.                                                *)
CreateLog(r) ==
  /\ At(r, "create")
  /\ \/ /\ OpenLog(runs[r].day)
        /\ Set(r, [runs[r] EXCEPT !.pc = "request", !.log = Len(logs) + 1])
        /\ UNCHANGED trouble
     \/ /\ Suffer(LostRun)
        /\ Set(r, Idle)
        /\ OpenLog(runs[r].day) \/ UNCHANGED logs
  /\ UNCHANGED <<today, fired, sizes, orders>>

(* What listOrders answers from an offset on (external).                   *)
PageSize(day, from) ==
  LET left == sizes[day] - from IN IF left < Limit THEN left ELSE Limit

ReceivePage(r) ==
  /\ At(r, "request")
  /\ LET got == PageSize(runs[r].day, runs[r].from)
     IN IF got = 0 THEN Goto(r, "close")
        ELSE Set(r, [runs[r] EXCEPT !.pc = "upsert", !.todo = got, !.attempt = 0,
                                    !.fetched = @ + got])
  /\ UNCHANGED <<today, fired, sizes, orders, logs, trouble>>

(* executeWithRetry: a transient error is retried MAX_TRANSIENT_RETRIES    *)
(* times, any other one is thrown at once.                                 *)
FaultyRetriesLeft(run) == run.attempt + 1 < MaxRetries
RetriesLeft(run) == run.attempt < MaxRetries

FailRequest(r) ==
  /\ At(r, "request")
  /\ \/ /\ Suffer(1)
        /\ IF RetriesLeft(runs[r])
           THEN Set(r, [runs[r] EXCEPT !.attempt = @ + 1])
           ELSE Goto(r, "fail")
     \/ Suffer(LostRun) /\ Goto(r, "fail")
  /\ UNCHANGED <<today, fired, sizes, orders, logs>>

(* A short page is the last one.                                           *)
FaultyAfterPage(run, got) ==
  [run EXCEPT !.from = @ + got, !.pc = IF got <= Limit THEN "close" ELSE "request"]
AfterPage(run, got) ==
  [run EXCEPT !.from = @ + got, !.pc = IF got < Limit THEN "close" ELSE "request"]

Count(run, said) ==
  IF said THEN [run EXCEPT !.todo = @ - 1, !.synced = @ + 1]
          ELSE [run EXCEPT !.todo = @ - 1, !.failed = @ + 1]

(* An order whose upsert fails, with or without effect, is counted, and    *)
(* the others go on.                                                       *)
UpsertOrder(r) ==
  /\ At(r, "upsert")
  /\ LET run   == runs[r]
         got   == PageSize(run.day, run.from)
         order == run.from + got - run.todo + 1
     IN \E said, stored \in BOOLEAN :
          LET counted == Count(run, said)
          IN /\ said => stored
             /\ orders' = IF stored THEN [orders EXCEPT ![run.day] = @ \cup {order}]
                                    ELSE orders
             /\ Set(r, IF counted.todo = 0 THEN AfterPage(counted, got) ELSE counted)
  /\ UNCHANGED <<today, fired, sizes, logs, trouble>>

FaultyUpdateLog(run, status) ==
  logs' = [logs EXCEPT ![Len(logs)].status = status]

UpdateLog(run, status) ==
  logs' = [logs EXCEPT ![run.log] =
             [day |-> run.day, status |-> status, fetched |-> run.fetched,
              synced |-> run.synced, failed |-> run.failed]]

Verdict(run) == IF run.failed > 0 THEN "PARTIAL_FAIL" ELSE "SUCCESS"

(* The update of the row may fail, with or without effect.                 *)
CloseDay(r) ==
  /\ At(r, "close")
  /\ \/ /\ UpdateLog(runs[r], Verdict(runs[r]))
        /\ Set(r, NextDay(runs[r]))
        /\ UNCHANGED trouble
     \/ /\ Suffer(LostRun)
        /\ Goto(r, "fail")
        /\ UpdateLog(runs[r], Verdict(runs[r])) \/ UNCHANGED logs
  /\ UNCHANGED <<today, fired, sizes, orders>>

(* The catch clause: the row says FAIL, whatever it said before, unless    *)
(* that fails too; the error is thrown again, and the days that were left  *)
(* are not listed.                                                         *)
FailDay(r) ==
  /\ At(r, "fail")
  /\ UpdateLog(runs[r], "FAIL") \/ UNCHANGED logs
  /\ Set(r, Idle)
  /\ UNCHANGED <<today, fired, sizes, orders, trouble>>

(***************************************************************************)
(* The world.                                                              *)
(***************************************************************************)
(* The process dies; its rows stay RUNNING for ever.                       *)
Crash ==
  /\ Busy # {}
  /\ Suffer(LostRun * Cardinality(Busy))
  /\ runs' = [r \in Runs |-> Idle]
  /\ UNCHANGED <<today, fired, sizes, orders, logs>>

Midnight ==
  /\ today < MaxDay
  /\ fired = RunsPerDay
  /\ today' = today + 1
  /\ fired' = 0
  /\ \E n \in Sizes : sizes' = [d \in 0..today |-> IF d = today THEN n ELSE sizes[d]]
  /\ orders' = [d \in 0..today |-> IF d = today THEN {} ELSE orders[d]]
  /\ UNCHANGED <<logs, runs, trouble>>

(* The service starts on the day when the lookback reaches back to day 0.  *)
Init ==
  /\ today = LookbackDays
  /\ fired = 0
  /\ sizes \in [ClosedDays -> Sizes]
  /\ orders = [d \in ClosedDays |-> {}]
  /\ logs = << >>
  /\ runs = [r \in Runs |-> Idle]
  /\ trouble = 0

Next ==
  \/ \E r \in Runs :
       \/ Fire(r) \/ CreateLog(r) \/ ReceivePage(r) \/ FailRequest(r)
       \/ UpsertOrder(r) \/ CloseDay(r) \/ FailDay(r)
  \/ MissFire \/ Crash \/ Midnight

Spec == Init /\ [][Next]_vars

(***************************************************************************)
(* Properties.                                                             *)
(***************************************************************************)
Statuses == {"RUNNING", "SUCCESS", "PARTIAL_FAIL", "FAIL"}
Labels == {"idle", "create", "request", "upsert", "close", "fail"}
LogRow == [day : ClosedDays, status : Statuses, fetched : Nat, synced : Nat,
           failed : Nat]
Run == [pc : Labels, offset : 0..LookbackDays, day : ClosedDays, log : Nat,
        from : Nat, todo : 0..Limit, attempt : 0..MaxRetries, fetched : Nat,
        synced : Nat, failed : Nat]

(* The tables and the runs: every row and every run is about a closed day. *)
TypeOK ==
  /\ today \in Nat
  /\ fired \in 0..RunsPerDay
  /\ sizes \in [ClosedDays -> Sizes]
  /\ DOMAIN orders = ClosedDays
  /\ \A d \in ClosedDays : orders[d] \subseteq 1..sizes[d]
  /\ logs \in Seq(LogRow)
  /\ runs \in [Runs -> Run]
  /\ trouble \in 0..MaxTrouble

Complete(row) == row.status \in {"SUCCESS", "PARTIAL_FAIL"}

(* What the log of a day that was listed to its end says is true of the    *)
(* tables: its pages held every order of the day, each once, as many are   *)
(* stored as it says, and all of them if it says SUCCESS; whatever other   *)
(* runs, midnights, retries and crashes there were meanwhile.              *)
LogIsTrue ==
  \A i \in DOMAIN logs :
    LET row == logs[i]
    IN Complete(row) =>
         /\ row.fetched = sizes[row.day]
         /\ row.fetched = row.synced + row.failed
         /\ row.synced <= Cardinality(orders[row.day])
         /\ row.status = "SUCCESS" => orders[row.day] = 1..sizes[row.day]

(* A day the lookback has left behind and no run has listed to its end.    *)
Lost(d) ==
  /\ d + LookbackDays < today
  /\ \A r \in Busy : runs[r].day # d
  /\ \A i \in DOMAIN logs : ~(logs[i].day = d /\ Complete(logs[i]))

(* Although a run stops at the first day that fails, and skips a day when  *)
(* midnight passes while it runs, a day is lost only if there was as much  *)
(* trouble as exhausts the retries of, or kills, all the runs of a whole   *)
(* day.  The trouble is counted over all the time there was.               *)
LostOnlyByOutage ==
  \A d \in ClosedDays : Lost(d) => trouble >= RunsPerDay * LostRun

(* The synchronisation keeps the promise of module Ledger: no step of a    *)
(* run takes an order away, turns a verdict into another one than FAIL, or *)
(* calls a day a success before its last order is stored, whichever runs   *)
(* overlap and wherever they die (syncYangoOrdersForClosedDay).            *)
TheLedger ==
  INSTANCE Ledger WITH
    stored  <- orders,
    reports <- [i \in DOMAIN logs |-> [day |-> logs[i].day, status |-> logs[i].status]]

KeepsTheLedger == TheLedger!Spec
=============================================================================
