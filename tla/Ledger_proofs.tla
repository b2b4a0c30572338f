--------------------------- MODULE Ledger_proofs ---------------------------
(***************************************************************************)
(* Why OrderSync implements Ledger: the refinement KeepsTheLedger, for any *)
(* values of the constants and any finite set of runs.                     *)
(***************************************************************************)
EXTENDS OrderSync_proofs

(***************************************************************************)
(* The ledger.  A run that reports has a row of its own, about its day,    *)
(* and the row is open until the run is in its catch clause.               *)
(***************************************************************************)
OwnsReport(run, rows) ==
  run.pc \in Reporting =>
    /\ run.log \in DOMAIN rows
    /\ rows[run.log].day = run.day
    /\ run.pc # "fail" => rows[run.log].status = "RUNNING"

OwnInv ==
  /\ LogInv
  /\ \A r \in Runs : OwnsReport(runs[r], logs)
  /\ \A r, q \in Runs :
       r # q /\ runs[r].pc \in Reporting /\ runs[q].pc \in Reporting
         => runs[r].log # runs[q].log

(* What a step that replaces one run has to show of it.                    *)
LEMMA OneOwner ==
  ASSUME OwnInv, LogInv', NEW r \in Runs, NEW run, runs' = [runs EXCEPT ![r] = run],
         OwnsReport(run, logs'),
         \A q \in Runs \ {r} : OwnsReport(runs[q], logs'),
         run.pc \in Reporting =>
           \A q \in Runs \ {r} : runs[q].pc \in Reporting => runs[q].log # run.log
  PROVE  OwnInv'
<1>1. runs'[r] = run /\ \A q \in Runs \ {r} : runs'[q] = runs[q]
  BY DEF OwnInv, LogInv, TypeInv, TypeOK
<1>2. \A q \in Runs : OwnsReport(runs'[q], logs')
  BY <1>1
<1>3. ASSUME NEW p \in Runs, NEW q \in Runs, p # q,
             runs'[p].pc \in Reporting, runs'[q].pc \in Reporting
      PROVE  runs'[p].log # runs'[q].log
  BY <1>1, <1>3 DEF OwnInv
<1> QED BY <1>2, <1>3 DEF OwnInv

(* A run that keeps its report, or has none after the step.                *)
KeepsReport(run, new) ==
  new.pc \in Reporting =>
    /\ run.pc \in Reporting /\ run.pc # "fail"
    /\ new.log = run.log /\ new.day = run.day

LEMMA OwnerStays ==
  ASSUME OwnInv, LogInv', NEW r \in Runs, NEW run, runs' = [runs EXCEPT ![r] = run],
         UNCHANGED logs, KeepsReport(runs[r], run)
  PROVE  OwnInv'
<1>1. OwnsReport(run, logs')
  BY DEF OwnInv, OwnsReport, KeepsReport
<1>2. \A q \in Runs : OwnsReport(runs[q], logs')
  BY DEF OwnInv
<1>3. run.pc \in Reporting =>
        \A q \in Runs \ {r} : runs[q].pc \in Reporting => runs[q].log # run.log
  BY DEF OwnInv, KeepsReport
<1> QED BY <1>1, <1>2, <1>3, OneOwner

(* A run that gives its verdict, and then has no report, or does not know  *)
(* that it has.                                                            *)
LEMMA OwnerReports ==
  ASSUME OwnInv, LogInv', NEW r \in Runs, NEW run, NEW row, runs' = [runs EXCEPT ![r] = run],
         logs' = [logs EXCEPT ![runs[r].log] = row],
         runs[r].pc \in Reporting, row.day = runs[r].day,
         run.pc \in Reporting =>
           run.pc = "fail" /\ run.log = runs[r].log /\ run.day = runs[r].day
  PROVE  OwnInv'
<1>1. OwnsReport(run, logs')
  BY DEF OwnInv, OwnsReport
<1>2. ASSUME NEW q \in Runs \ {r} PROVE OwnsReport(runs[q], logs')
  BY DEF OwnInv, OwnsReport
<1>3. run.pc \in Reporting =>
        \A q \in Runs \ {r} : runs[q].pc \in Reporting => runs[q].log # run.log
  BY DEF OwnInv
<1> QED BY <1>1, <1>2, <1>3, OneOwner

LEMMA DaysStart ==
  ASSUME TypeInv, NEW run \in Run
  PROVE  NextDay(run).pc \notin Reporting /\ Idle.pc \notin Reporting
<1>1. Idle.pc \notin Reporting
  BY DEF Idle, Reporting
<1>2. ASSUME NEW offset \in 1..LookbackDays PROVE StartDay(offset).pc \notin Reporting
  <2>1. offset \in 0..LookbackDays /\ Idle \in Run /\ today - offset \in ClosedDays
    BY LookbackIsPositive, IdleInRange DEF TypeInv, TypeOK, ClosedDays
  <2> QED BY <2>1, StartedRun DEF Reporting
<1>3. run.offset > 1 => run.offset - 1 \in 1..LookbackDays
  BY LookbackIsPositive DEF Run
<1> QED BY <1>1, <1>2, <1>3 DEF NextDay

LEMMA OwnInit == Init => OwnInv
<1> SUFFICES ASSUME Init PROVE OwnInv
  OBVIOUS
<1>1. \A r \in Runs : runs[r].pc \notin Reporting
  BY DEF Init, Idle, Reporting
<1> QED BY <1>1, LogInit DEF OwnInv, OwnsReport

LEMMA OwnFire ==
  ASSUME OwnInv, LogInv', NEW r \in Runs, Fire(r)
  PROVE  OwnInv'
<1>1. TypeInv /\ LookbackDays \in 1..LookbackDays /\ LookbackDays \in 0..LookbackDays
  BY LookbackIsPositive DEF OwnInv, LogInv
<1>2. Idle \in Run /\ today - LookbackDays \in ClosedDays
  BY <1>1, LookbackIsPositive, IdleInRange DEF TypeInv, TypeOK, ClosedDays
<1>3. StartDay(LookbackDays).pc \notin Reporting
  BY <1>1, <1>2, StartedRun DEF Reporting
<1> QED BY <1>3, OwnerStays DEF Fire, Set, KeepsReport

(* The row a run creates is new: no other run has it.                      *)
LEMMA OwnCreateLog ==
  ASSUME OwnInv, LogInv', NEW r \in Runs, CreateLog(r)
  PROVE  OwnInv'
<1>1. TypeInv /\ runs[r] \in Run
  BY RunFacts DEF OwnInv, LogInv
<1> DEFINE row == [day |-> runs[r].day, status |-> "RUNNING", fetched |-> 0,
                   synced |-> 0, failed |-> 0]
           log == Len(logs) + 1
           run == Requesting(runs[r], log)
<1>2. log \in Nat /\ log \notin DOMAIN logs
  BY <1>1, RunFacts
<1>3. ASSUME logs' = Append(logs, row)
      PROVE  /\ log \in DOMAIN logs' /\ logs'[log] = row
             /\ DOMAIN logs \subseteq DOMAIN logs' /\ \A i \in DOMAIN logs : logs'[i] = logs[i]
  <2>1. DOMAIN logs' = 1..log /\ logs'[log] = row /\ \A i \in DOMAIN logs : logs'[i] = logs[i]
    BY <1>1, <1>3, RunFacts, AppendProperties
  <2> QED BY <1>1, <1>2, <2>1, RunFacts
<1>4. ASSUME logs' = Append(logs, row), NEW q \in Runs PROVE OwnsReport(runs[q], logs')
  BY <1>3, <1>4 DEF OwnInv, OwnsReport
<1>5. CASE logs' = Append(logs, row) /\ Set(r, run)
  <2>1. runs' = [runs EXCEPT ![r] = run]
    BY <1>5 DEF Set
  <2>2. run = Requesting(runs[r], log)
    OBVIOUS
  <2> HIDE DEF run, log
  <2>3. run.pc = "request" /\ run.log = log /\ run.day = runs[r].day
    BY <1>1, <1>2, <2>2, RequestingRun
  <2>4. OwnsReport(run, logs')
    BY <1>3, <1>5, <2>3 DEF OwnsReport
  <2>5. \A q \in Runs : runs[q].pc \in Reporting => runs[q].log # run.log
    BY <1>2, <2>3 DEF OwnInv, OwnsReport
  <2> HIDE DEF row
  <2> QED BY <1>4, <1>5, <2>1, <2>4, <2>5, OneOwner
<1>6. CASE Set(r, Idle) /\ UNCHANGED logs
  BY <1>1, <1>6, DaysStart, OwnerStays DEF Set, KeepsReport
<1>7. CASE Set(r, Idle) /\ logs' = Append(logs, row)
  <2>1. OwnsReport(Idle, logs') /\ Idle.pc \notin Reporting
    BY <1>1, DaysStart DEF OwnsReport
  <2> HIDE DEF row
  <2> QED BY <1>4, <1>7, <2>1, OneOwner DEF Set
<1> QED BY <1>5, <1>6, <1>7 DEF CreateLog, OpenLog, Requesting

LEMMA OwnReceivePage ==
  ASSUME OwnInv, LogInv', NEW r \in Runs, ReceivePage(r)
  PROVE  OwnInv'
<1>1. TypeInv /\ runs[r] \in Run /\ runs[r].pc = "request" /\ UNCHANGED logs
  BY RunFacts DEF OwnInv, LogInv, ReceivePage, At
<1> DEFINE got == PageSize(runs[r].day, runs[r].from)
           closing == [runs[r] EXCEPT !.pc = "close"]
           storing == Storing(runs[r], got)
<1>2. runs' = [runs EXCEPT ![r] = closing] \/ runs' = [runs EXCEPT ![r] = storing]
  BY DEF ReceivePage, Set, Goto, Storing
<1>3. closing.log = runs[r].log /\ closing.day = runs[r].day
  BY <1>1 DEF Run
<1>4. got \in 0..Limit /\ storing = Storing(runs[r], got)
  <2>1. runs[r].from <= sizes[runs[r].day]
    BY <1>1, RunFacts DEF RunInRange, Counting
  <2> QED BY <1>1, <2>1, RunFacts, PageIsBounded DEF Run
<1> HIDE DEF got, storing
<1>5. storing.log = runs[r].log /\ storing.day = runs[r].day
  BY <1>1, <1>4, StoringRun
<1> QED BY <1>1, <1>2, <1>3, <1>5, OwnerStays DEF Reporting, KeepsReport

LEMMA OwnFailRequest ==
  ASSUME OwnInv, LogInv', NEW r \in Runs, FailRequest(r)
  PROVE  OwnInv'
<1>1. runs[r] \in Run /\ runs[r].pc = "request" /\ UNCHANGED logs
  BY RunFacts DEF OwnInv, LogInv, FailRequest, At
<1> DEFINE failing  == [runs[r] EXCEPT !.pc = "fail"]
           retrying == [runs[r] EXCEPT !.attempt = @ + 1]
<1>2. runs' = [runs EXCEPT ![r] = failing] \/ runs' = [runs EXCEPT ![r] = retrying]
  BY DEF FailRequest, Set, Goto
<1>3. /\ failing.log = runs[r].log /\ failing.day = runs[r].day
      /\ retrying.log = runs[r].log /\ retrying.day = runs[r].day
  BY <1>1 DEF Run
<1> QED BY <1>1, <1>2, <1>3, OwnerStays DEF Reporting, KeepsReport

LEMMA OwnUpsertOrder ==
  ASSUME OwnInv, LogInv', NEW r \in Runs, UpsertOrder(r)
  PROVE  OwnInv'
<1>1. TypeInv /\ runs[r] \in Run /\ runs[r].pc = "upsert" /\ UNCHANGED logs
  BY RunFacts DEF OwnInv, LogInv, UpsertOrder, At
<1>2. PICK said \in BOOLEAN : runs' = [runs EXCEPT ![r] = Treated(runs[r], said)]
  BY <1>1, UpsertFacts
<1>3. PageSize(runs[r].day, runs[r].from) \in Nat /\ runs[r].todo >= 1
  BY <1>1, PageFacts, OrderSyncAssumption DEF Run
<1>4. Treated(runs[r], said).log = runs[r].log /\ Treated(runs[r], said).day = runs[r].day
  BY <1>1, <1>3, TreatedRun
<1> QED BY <1>1, <1>2, <1>4, OwnerStays DEF Reporting, KeepsReport

LEMMA OwnCloseDay ==
  ASSUME OwnInv, LogInv', NEW r \in Runs, CloseDay(r)
  PROVE  OwnInv'
<1>1. TypeInv /\ runs[r] \in Run /\ runs[r].pc = "close"
  BY RunFacts DEF OwnInv, LogInv, CloseDay, At
<1> DEFINE failing == [runs[r] EXCEPT !.pc = "fail"]
           Reported == \E row : row.day = runs[r].day
                                 /\ logs' = [logs EXCEPT ![runs[r].log] = row]
<1>2. CASE Reported /\ Set(r, NextDay(runs[r]))
  BY <1>1, <1>2, DaysStart, OwnerReports DEF Set, Reporting
<1>3. CASE Goto(r, "fail") /\ (Reported \/ UNCHANGED logs)
  <2>1. failing.log = runs[r].log /\ failing.day = runs[r].day /\ failing.pc = "fail"
    BY <1>1 DEF Run
  <2>2. runs' = [runs EXCEPT ![r] = failing]
    BY <1>3 DEF Goto
  <2> HIDE DEF failing
  <2>3. CASE Reported
    BY <1>1, <2>1, <2>2, <2>3, OwnerReports DEF Reporting
  <2>4. CASE UNCHANGED logs
    BY <1>1, <2>1, <2>2, <2>4, OwnerStays DEF KeepsReport, Reporting
  <2> QED BY <1>3, <2>3, <2>4
<1> QED BY <1>2, <1>3 DEF CloseDay, UpdateLog

LEMMA OwnFailDay ==
  ASSUME OwnInv, LogInv', NEW r \in Runs, FailDay(r)
  PROVE  OwnInv'
<1>1. TypeInv /\ runs[r] \in Run /\ runs[r].pc \in Reporting /\ Idle.pc \notin Reporting
  BY RunFacts DEF OwnInv, LogInv, FailDay, At, Reporting, Idle
<1>2. CASE \E row : row.day = runs[r].day /\ logs' = [logs EXCEPT ![runs[r].log] = row]
  BY <1>1, <1>2, OwnerReports DEF FailDay, Set
<1>3. CASE UNCHANGED logs
  BY <1>1, <1>3, OwnerStays DEF FailDay, Set, KeepsReport
<1> QED BY <1>2, <1>3 DEF FailDay, UpdateLog

LEMMA OwnCrash ==
  ASSUME OwnInv, LogInv', Crash
  PROVE  OwnInv'
<1>1. \A r \in Runs : runs'[r].pc \notin Reporting
  BY DEF Crash, Idle, Reporting
<1> QED BY <1>1 DEF OwnInv, OwnsReport

LEMMA OwnStep == OwnInv /\ [Next]_vars => OwnInv'
<1> SUFFICES ASSUME OwnInv, [Next]_vars PROVE OwnInv'
  OBVIOUS
<1>1. LogInv'
  BY LogStep DEF OwnInv
<1>2. ASSUME NEW r \in Runs,
             \/ Fire(r) \/ CreateLog(r) \/ ReceivePage(r) \/ FailRequest(r)
             \/ UpsertOrder(r) \/ CloseDay(r) \/ FailDay(r)
      PROVE  OwnInv'
  BY <1>1, <1>2, OwnFire, OwnCreateLog, OwnReceivePage, OwnFailRequest, OwnUpsertOrder,
     OwnCloseDay, OwnFailDay
<1>3. CASE UNCHANGED <<runs, logs>>
  BY <1>1, <1>3 DEF OwnInv
<1> QED BY <1>1, <1>2, <1>3, OwnCrash DEF Next, MissFire, Midnight, vars

(* The reports the ledger sees.                                            *)
Report == [day : Nat, status : Statuses]
Shown(row) == [day |-> row.day, status |-> row.status]
Reports(rows) == [i \in DOMAIN rows |-> Shown(rows[i])]
Decided(reports, i, verdict) == [reports EXCEPT ![i].status = verdict]

LEMMA ReportsAreASeq ==
  ASSUME NEW rows \in Seq(LogRow)
  PROVE  /\ Reports(rows) \in Seq(Report) /\ Len(Reports(rows)) = Len(rows)
         /\ Len(rows) \in Nat
         /\ \A i \in 1..Len(rows) : Reports(rows)[i] = Shown(rows[i])
<1>1. DOMAIN rows = 1..Len(rows) /\ Len(rows) \in Nat
  BY LenProperties
<1>2. \A i \in 1..Len(rows) : Shown(rows[i]) \in Report
  <2>1. \A i \in 1..Len(rows) : rows[i] \in LogRow
    BY ElementOfSeq
  <2> QED BY <2>1 DEF LogRow, Report, Shown, ClosedDays
<1>3. Reports(rows) \in [1..Len(rows) -> Report]
  BY <1>1, <1>2 DEF Reports
<1>4. Reports(rows) \in Seq(Report)
  BY <1>1, <1>3
<1>5. Len(Reports(rows)) = Len(rows)
  BY <1>1, <1>3, <1>4, LenProperties
<1> QED BY <1>1, <1>4, <1>5 DEF Reports

LEMMA ReportsAppend ==
  ASSUME NEW rows \in Seq(LogRow), NEW row \in LogRow
  PROVE  Reports(Append(rows, row)) = Append(Reports(rows), Shown(row))
<1> DEFINE left == Reports(Append(rows, row))
           right == Append(Reports(rows), Shown(row))
<1>1. /\ Append(rows, row) \in Seq(LogRow) /\ Len(Append(rows, row)) = Len(rows) + 1
      /\ Len(rows) \in Nat
      /\ \A i \in 1..Len(rows) : Append(rows, row)[i] = rows[i]
      /\ Append(rows, row)[Len(rows) + 1] = row
  BY AppendProperties, LenProperties
<1>2. /\ left \in Seq(Report) /\ Len(left) = Len(rows) + 1
      /\ \A i \in 1..Len(rows) + 1 : left[i] = Shown(Append(rows, row)[i])
  BY <1>1, ReportsAreASeq
<1>3. Shown(row) \in Report
  BY DEF Shown, Report, LogRow, ClosedDays
<1>4. /\ Reports(rows) \in Seq(Report) /\ Len(Reports(rows)) = Len(rows)
      /\ \A i \in 1..Len(rows) : Reports(rows)[i] = Shown(rows[i])
  BY ReportsAreASeq
<1>5. /\ right \in Seq(Report) /\ Len(right) = Len(rows) + 1
      /\ \A i \in 1..Len(rows) : right[i] = Shown(rows[i])
      /\ right[Len(rows) + 1] = Shown(row)
  BY <1>1, <1>3, <1>4, AppendProperties
<1> HIDE DEF left, right
<1>6. \A i \in 1..Len(rows) + 1 : left[i] = right[i]
  BY <1>1, <1>2, <1>5
<1>7. left = right
  BY <1>2, <1>5, <1>6, SeqEqual
<1> QED BY <1>7 DEF left, right

LEMMA ReportsExcept ==
  ASSUME NEW rows \in Seq(LogRow), NEW i \in DOMAIN rows, NEW row \in LogRow,
         row.day = rows[i].day, NEW s, s = [rows EXCEPT ![i] = row]
  PROVE  Reports(s) = Decided(Reports(rows), i, row.status)
<1>1. DOMAIN s = DOMAIN rows /\ \A j \in DOMAIN rows : s[j] = IF j = i THEN row ELSE rows[j]
  OBVIOUS
<1>2. Reports(s) = [j \in DOMAIN rows |-> IF j = i THEN Shown(row) ELSE Shown(rows[j])]
  BY <1>1 DEF Reports
<1>3. Shown(row) = [Shown(rows[i]) EXCEPT !.status = row.status]
  BY DEF Shown
<1>4. Decided(Reports(rows), i, row.status)
        = [j \in DOMAIN rows |-> IF j = i THEN [Shown(rows[i]) EXCEPT !.status = row.status]
                                          ELSE Shown(rows[j])]
  BY DEF Reports, Decided
<1> QED BY <1>2, <1>3, <1>4

(* Each step is a step of the ledger or changes nothing of it.             *)
LEMMA LedgerSame ==
  ASSUME UNCHANGED <<sizes, orders, logs>>
  PROVE  UNCHANGED TheLedger!ledger
BY DEF TheLedger!ledger

LEMMA LedgerInit == Init => TheLedger!Init
<1> SUFFICES ASSUME Init PROVE TheLedger!Init
  OBVIOUS
<1>1. DOMAIN sizes = ClosedDays /\ \A d \in ClosedDays : sizes[d] \in Sizes
  BY DEF Init
<1>2. Reports(logs) = << >>
  <2>1. logs \in Seq(LogRow) /\ Len(logs) = 0
    BY EmptySeq DEF Init
  <2>2. Reports(logs) \in Seq(Report) /\ Len(Reports(logs)) = 0
    BY <2>1, ReportsAreASeq
  <2> QED BY <2>2, EmptySeq
<1> QED BY <1>1, <1>2 DEF Init, TheLedger!Init, TheLedger!Days, Reports, Shown

LEMMA LedgerCreateLog ==
  ASSUME TypeInv, NEW r \in Runs, CreateLog(r)
  PROVE  TheLedger!Next \/ UNCHANGED TheLedger!ledger
<1> DEFINE row == [day |-> runs[r].day, status |-> "RUNNING", fetched |-> 0,
                   synced |-> 0, failed |-> 0]
<1>1. runs[r].day \in DOMAIN sizes
  BY RunFacts DEF TypeInv, TypeOK, Run
<1>2. CASE logs' = Append(logs, row)
  <2>1. row \in LogRow /\ logs \in Seq(LogRow)
    BY RunFacts DEF LogRow, Statuses, Run
  <2>2. Reports(logs') = Append(Reports(logs), Shown(row))
    BY <1>2, <2>1, ReportsAppend
  <2>3. Shown(row) = [day |-> runs[r].day, status |-> "RUNNING"]
    BY DEF Shown
  <2>4. PICK d \in TheLedger!Days : d = runs[r].day
    BY <1>1 DEF TheLedger!Days
  <2>5. TheLedger!Open(d)
    BY <2>2, <2>3, <2>4 DEF TheLedger!Open, TheLedger!Days, CreateLog, Reports, Shown
  <2> QED BY <2>5 DEF TheLedger!Next
<1>3. CASE UNCHANGED logs
  BY <1>3, LedgerSame DEF CreateLog
<1> QED BY <1>2, <1>3 DEF CreateLog, OpenLog

LEMMA LedgerUpsertOrder ==
  ASSUME TypeInv, NEW r \in Runs, UpsertOrder(r)
  PROVE  TheLedger!Next \/ UNCHANGED TheLedger!ledger
<1>1. /\ runs[r].day \in DOMAIN sizes /\ runs[r].pc = "upsert"
      /\ UNCHANGED <<sizes, logs>>
  BY RunFacts DEF TypeInv, TypeOK, Run, UpsertOrder, At
<1>2. NextOrder(runs[r]) \in 1..sizes[runs[r].day]
  BY <1>1, PageFacts
<1>3. CASE orders' = [orders EXCEPT ![runs[r].day] = @ \cup {NextOrder(runs[r])}]
  <2>1. TheLedger!Store(runs[r].day, NextOrder(runs[r]))
    BY <1>1, <1>2, <1>3 DEF TheLedger!Store, TheLedger!Days
  <2> QED BY <1>1, <1>2, <2>1 DEF TheLedger!Next, TheLedger!Days
<1>4. CASE UNCHANGED orders
  BY <1>1, <1>4, LedgerSame
<1> QED BY <1>3, <1>4, UpsertFacts

(* A verdict on a report that is open, or FAIL; and true if it is SUCCESS. *)
LEMMA LedgerReport ==
  ASSUME OwnInv, NEW r \in Runs, NEW status \in TheLedger!Verdicts, runs[r].pc \in Reporting,
         UpdateLog(runs[r], status), UNCHANGED <<sizes, orders>>,
         runs[r].pc # "fail" \/ status = "FAIL",
         status = "SUCCESS" => orders[runs[r].day] = 1..sizes[runs[r].day]
  PROVE  TheLedger!Next
<1> DEFINE log == runs[r].log
           row == [day |-> runs[r].day, status |-> status, fetched |-> runs[r].fetched,
                   synced |-> runs[r].synced, failed |-> runs[r].failed]
<1>1. TypeInv /\ runs[r] \in Run /\ logs \in Seq(LogRow)
  BY RunFacts DEF OwnInv, LogInv
<1>2. /\ log \in DOMAIN logs /\ logs[log].day = runs[r].day
      /\ logs[log].status = "RUNNING" \/ status = "FAIL"
  BY DEF OwnInv, OwnsReport
<1>3. row \in LogRow /\ row.day = logs[log].day /\ row.status = status
  BY <1>1, <1>2 DEF LogRow, Run, Statuses, TheLedger!Verdicts
<1>4. logs' = [logs EXCEPT ![log] = row]
  BY DEF UpdateLog
<1> HIDE DEF row
<1>5. Reports(logs') = Decided(Reports(logs), log, status)
  <2> HIDE DEF log
  <2>1. Reports(logs') = Decided(Reports(logs), log, row.status)
    BY <1>1, <1>2, <1>3, <1>4, ReportsExcept
  <2> QED BY <1>3, <2>1
<1>6. /\ log \in DOMAIN Reports(logs) /\ Reports(logs)[log].day = runs[r].day
      /\ Reports(logs)[log].status = "RUNNING" \/ status = "FAIL"
  BY <1>2 DEF Reports, Shown
<1> HIDE DEF log
<1>7. TheLedger!Decide(log, status)
  BY <1>5, <1>6 DEF TheLedger!Decide, Decided, Reports, Shown
<1> QED BY <1>6, <1>7 DEF TheLedger!Next, Reports, Shown

LEMMA LedgerCloseDay ==
  ASSUME OwnInv, NEW r \in Runs, CloseDay(r)
  PROVE  TheLedger!Next \/ UNCHANGED TheLedger!ledger
<1> DEFINE status == Verdict(runs[r])
           day    == runs[r].day
<1>1. runs[r].pc = "close" /\ UNCHANGED <<sizes, orders>> /\ LogInv
  BY DEF CloseDay, At, OwnInv
<1>2. CASE UpdateLog(runs[r], status)
  <2>1. Tallies(runs[r].synced, runs[r].failed, sizes[day], orders[day])
    BY <1>1, TrueRunFacts DEF RunIsTrue, DoneOf, Counting
  <2>2. orders[day] \subseteq 1..sizes[day]
    BY <1>1, RunFacts DEF LogInv, Run
  <2>3. status = "SUCCESS" => runs[r].failed = 0
    BY <1>1, TrueRunFacts DEF Verdict
  <2>4. status = "SUCCESS" => orders[day] = 1..sizes[day]
    BY <2>1, <2>2, <2>3 DEF Tallies
  <2>5. status \in TheLedger!Verdicts /\ runs[r].pc \in Reporting /\ runs[r].pc # "fail"
    BY <1>1 DEF TheLedger!Verdicts, Reporting, Verdict
  <2> HIDE DEF status
  <2> QED BY <1>1, <1>2, <2>4, <2>5, LedgerReport
<1>3. CASE UNCHANGED logs
  BY <1>1, <1>3, LedgerSame
<1> QED BY <1>2, <1>3 DEF CloseDay

LEMMA LedgerFailDay ==
  ASSUME OwnInv, NEW r \in Runs, FailDay(r)
  PROVE  TheLedger!Next \/ UNCHANGED TheLedger!ledger
<1>1. /\ runs[r].pc \in Reporting /\ "FAIL" \in TheLedger!Verdicts
      /\ UNCHANGED <<sizes, orders>>
  BY DEF FailDay, At, Reporting, TheLedger!Verdicts
<1>2. CASE UpdateLog(runs[r], "FAIL")
  BY <1>1, <1>2, LedgerReport
<1>3. CASE UNCHANGED logs
  BY <1>1, <1>3, LedgerSame
<1> QED BY <1>2, <1>3 DEF FailDay

LEMMA LedgerMidnight ==
  ASSUME TypeInv, Midnight
  PROVE  TheLedger!Next
<1>1. today \in Nat /\ DOMAIN sizes = 0..today - 1 /\ DOMAIN orders = 0..today - 1
  BY DEF TypeInv, TypeOK, ClosedDays
<1>2. Cardinality(0..today - 1) = today
  BY <1>1, FS_Interval
<1>3. 0..today = (0..today - 1) \cup {today}
  BY <1>1
<1>4. PICK n \in Sizes : sizes' = [d \in 0..today |-> IF d = today THEN n ELSE sizes[d]]
  BY DEF Midnight
<1>5. orders' = [d \in 0..today |-> IF d = today THEN {} ELSE orders[d]] /\ UNCHANGED logs
  BY DEF Midnight
<1>6. \A S : TheLedger!Cardinality(S) = Cardinality(S)
  BY Zenon DEF TheLedger!Cardinality, Cardinality
<1>7. TheLedger!CloseADay(n)
  BY <1>1, <1>2, <1>3, <1>4, <1>5, <1>6 DEF TheLedger!CloseADay, TheLedger!Days
<1> QED BY <1>7 DEF TheLedger!Next

LEMMA LedgerStep == OwnInv /\ [Next]_vars => [TheLedger!Next]_TheLedger!ledger
<1> SUFFICES ASSUME OwnInv, [Next]_vars
             PROVE  TheLedger!Next \/ UNCHANGED TheLedger!ledger
  OBVIOUS
<1>1. TypeInv
  BY DEF OwnInv, LogInv
<1>2. ASSUME NEW r \in Runs, Fire(r) \/ ReceivePage(r) \/ FailRequest(r)
      PROVE  UNCHANGED TheLedger!ledger
  BY <1>2, LedgerSame DEF Fire, ReceivePage, FailRequest
<1>3. CASE MissFire \/ Crash \/ UNCHANGED vars
  BY <1>3, LedgerSame DEF MissFire, Crash, vars
<1> QED BY <1>1, <1>2, <1>3, LedgerCreateLog, LedgerUpsertOrder, LedgerCloseDay,
           LedgerFailDay, LedgerMidnight DEF Next

(* The synchronisation implements the ledger, for any number of runs that  *)
(* overlap: a report is given one verdict at most, which only an error     *)
(* found afterwards turns into FAIL, and SUCCESS only when the last order  *)
(* of its day is stored; no order is taken away                            *)
(* (syncYangoOrdersForClosedDay).                                          *)
THEOREM LedgerIsKept == Spec => KeepsTheLedger
<1>1. Spec => []OwnInv
  BY OwnInit, OwnStep, PTL DEF Spec
<1> QED BY <1>1, LedgerInit, LedgerStep, PTL DEF Spec, KeepsTheLedger, TheLedger!Spec
=============================================================================
