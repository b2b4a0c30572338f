--------------------------- MODULE Outage_proofs ---------------------------
(***************************************************************************)
(* Why a day is lost only by an outage: LostOnlyByOutage of OrderSync, for *)
(* any lookback, number of cron times, page size, number of retries and    *)
(* any finite set of runs.  The argument keeps an account for each day.    *)
(* The day is charged LostRun for every cron time that comes while it is   *)
(* the first of the lookback, and the charge is met by the trouble there   *)
(* was and by what the runs still on that day have left to suffer before   *)
(* they give it up; a run gets past its first day otherwise only by        *)
(* listing it.                                                             *)
(***************************************************************************)
EXTENDS Ledger_proofs

(* What a run has suffered on the page it asks for, and what is left.      *)
Paid(run) == IF run.pc = "fail" THEN LostRun ELSE run.attempt
OnFirst(run, d) == run.pc # "idle" /\ run.offset = LookbackDays /\ run.day = d
DebtsOf(rs, d) ==
  {t \in Runs \X (1..LostRun) : OnFirst(rs[t[1]], d) /\ t[2] > Paid(rs[t[1]])}
Owed(d) == DebtsOf(runs, d)

(* The runs that cron was to start when d was the first day of a lookback. *)
Begun(d) ==
  IF today < d + LookbackDays THEN 0
  ELSE IF today = d + LookbackDays THEN fired ELSE RunsPerDay

(* A row that says its day was listed, and whose run is not about to call  *)
(* it a failure.                                                           *)
Final(i) ==
  /\ Complete(logs[i])
  /\ \A r \in Runs : ~(runs[r].pc = "fail" /\ runs[r].log = i)

Listed(d) == \E i \in DOMAIN logs : logs[i].day = d /\ Final(i)
Covered(d) == trouble + Cardinality(Owed(d)) >= LostRun * Begun(d)

OutageInv ==
  /\ OwnInv
  /\ \A d \in ClosedDays : Listed(d) \/ Covered(d)

(***************************************************************************)
(* The account.                                                            *)
(***************************************************************************)
LEMMA LostRunIsPositive ==
  /\ LostRun \in Nat \ {0}
  /\ IsFiniteSet(1..LostRun) /\ Cardinality(1..LostRun) = LostRun
<1>1. LostRun \in Nat \ {0}
  BY OrderSyncAssumption DEF LostRun
<1> QED BY <1>1, FS_Interval

LEMMA ProductIsCounted ==
  ASSUME NEW S, IsFiniteSet(S), NEW a \in Int, NEW n \in Nat
  PROVE  /\ IsFiniteSet(S \X (a + 1 .. a + n)) /\ Cardinality(S) \in Nat
         /\ Cardinality(S \X (a + 1 .. a + n)) = Cardinality(S) * n
<1>1. IsFiniteSet(a + 1 .. a + n) /\ Cardinality(a + 1 .. a + n) = n
  BY FS_Interval
<1> QED BY <1>1, FS_Product, FS_CardinalityType

LEMMA DebtsAreFinite ==
  ASSUME NEW rs, NEW d
  PROVE  IsFiniteSet(DebtsOf(rs, d)) /\ Cardinality(DebtsOf(rs, d)) \in Nat
<1>1. IsFiniteSet(Runs \X (1..LostRun))
  BY RunsAssumption, LostRunIsPositive, FS_Product
<1>2. DebtsOf(rs, d) \in SUBSET (Runs \X (1..LostRun))
  BY DEF DebtsOf
<1> QED BY <1>1, <1>2, FS_Subset, FS_CardinalityType

LEMMA BegunIsBounded ==
  ASSUME TypeInv, NEW d \in ClosedDays
  PROVE  Begun(d) \in Nat /\ Begun(d) <= RunsPerDay
BY OrderSyncAssumption DEF Begun, TypeInv, TypeOK

(* Debts that disappear are met by as much trouble.                        *)
LEMMA DebtsAreMet ==
  ASSUME NEW S, IsFiniteSet(S), NEW T, IsFiniteSet(T), NEW U, IsFiniteSet(U),
         S \subseteq T \cup U
  PROVE  Cardinality(S) <= Cardinality(T) + Cardinality(U)
<1>1. /\ IsFiniteSet(T \cup U) /\ IsFiniteSet(T \cap U)
      /\ Cardinality(T \cup U)
           = Cardinality(T) + Cardinality(U) - Cardinality(T \cap U)
  BY FS_Union, FS_Intersection
<1>2. Cardinality(S) <= Cardinality(T \cup U)
  BY <1>1, FS_Subset
<1>3. /\ Cardinality(S) \in Nat /\ Cardinality(T) \in Nat /\ Cardinality(U) \in Nat
      /\ Cardinality(T \cap U) \in Nat
  BY <1>1, FS_CardinalityType
<1> QED BY <1>1, <1>2, <1>3

LEMMA StaysCovered ==
  ASSUME TypeInv, NEW d \in ClosedDays, Covered(d), NEW U, IsFiniteSet(U),
         Owed(d) \subseteq Owed(d)' \cup U, Cardinality(U) <= trouble' - trouble,
         trouble' \in Nat, Begun(d)' = Begun(d)
  PROVE  Covered(d)'
<1>1. /\ Owed(d)' = DebtsOf(runs', d)
      /\ IsFiniteSet(Owed(d)) /\ Cardinality(Owed(d)) \in Nat
      /\ IsFiniteSet(Owed(d)') /\ Cardinality(Owed(d)') \in Nat
  BY DebtsAreFinite DEF Owed
<1>2. Cardinality(Owed(d)) <= Cardinality(Owed(d)') + Cardinality(U)
  BY <1>1, DebtsAreMet
<1>3. trouble \in Nat /\ LostRun * Begun(d) \in Nat /\ Cardinality(U) \in Nat
  BY BegunIsBounded, LostRunIsPositive, FS_CardinalityType DEF TypeInv, TypeOK
<1>4. LostRun * Begun(d)' = LostRun * Begun(d)
  OBVIOUS
<1>5. trouble' + Cardinality(Owed(d)') >= LostRun * Begun(d)
  BY <1>1, <1>2, <1>3 DEF Covered
<1> QED BY <1>4, <1>5 DEF Covered

(* A run that is replaced suffers for what it no longer owes: it goes on   *)
(* with the day, or has suffered as much as it takes to make it fail.      *)
Pays(run, new, n, d) ==
  OnFirst(run, d) =>
    \/ OnFirst(new, d) /\ Paid(new) \in 0..Paid(run) + n
    \/ LostRun <= Paid(run) + n

LEMMA RunPays ==
  ASSUME TypeInv, NEW d \in ClosedDays, Covered(d), NEW r \in Runs, NEW new,
         runs' = [runs EXCEPT ![r] = new], NEW n \in Nat, trouble' = trouble + n,
         Pays(runs[r], new, n, d), Begun(d)' = Begun(d)
  PROVE  Covered(d)'
<1> DEFINE p == Paid(runs[r])
           U == {r} \X (p + 1 .. p + n)
<1>1. p \in Nat
  BY RunFacts, LostRunIsPositive DEF Paid, Run
<1>2. /\ \A q \in Runs \ {r} : runs'[q] = runs[q]
      /\ runs'[r] = new
  BY DEF TypeInv, TypeOK
<1>3. IsFiniteSet(U) /\ Cardinality(U) = n
  <2>1. IsFiniteSet({r}) /\ Cardinality({r}) = 1
    BY FS_Singleton
  <2> HIDE DEF p
  <2> QED BY <1>1, <2>1, ProductIsCounted
<1>4. Owed(d)' = DebtsOf(runs', d)
  BY DEF Owed
<1>5. ASSUME NEW t \in Owed(d), t \notin Owed(d)' PROVE t \in U
  <2>1. PICK q \in Runs, k \in 1..LostRun : t = <<q, k>>
    BY DEF Owed, DebtsOf
  <2>2. OnFirst(runs[q], d) /\ k > Paid(runs[q])
    BY <2>1 DEF Owed, DebtsOf
  <2>3. ~(OnFirst(runs'[q], d) /\ k > Paid(runs'[q]))
    BY <1>4, <1>5, <2>1 DEF DebtsOf
  <2>4. q = r
    BY <1>2, <2>2, <2>3
  <2>5. p < k /\ ~(OnFirst(new, d) /\ k > Paid(new))
    BY <1>2, <2>2, <2>3, <2>4
  <2>6. LostRun \in Nat /\ k \in Nat /\ k <= LostRun
    BY LostRunIsPositive
  <2>7. (OnFirst(new, d) /\ Paid(new) \in 0..p + n) \/ LostRun <= p + n
    BY <2>2, <2>4 DEF Pays
  <2> HIDE DEF p
  <2> QED BY <1>1, <2>1, <2>4, <2>5, <2>6, <2>7
<1>6. trouble \in Nat
  BY DEF TypeInv, TypeOK
<1> QED BY <1>3, <1>5, <1>6, StaysCovered

(***************************************************************************)
(* What the steps do to a day.                                             *)
(***************************************************************************)
DayIsMet(d) == Listed(d) \/ Covered(d)

(* A listed day stays listed: no run but its own writes on a row, and that *)
(* one has gone on.                                                        *)
LEMMA FinalIsNotOwned ==
  ASSUME OwnInv, NEW i, Final(i), NEW r \in Runs, runs[r].pc \in Reporting
  PROVE  runs[r].log # i
BY DEF OwnInv, OwnsReport, Final, Complete

FailsItsOwn(run, new) ==
  new.pc = "fail" => run.pc \in Reporting /\ new.log = run.log

LEMMA ListedStays ==
  ASSUME OwnInv, NEW d, Listed(d), NEW r \in Runs, NEW new,
         runs' = [runs EXCEPT ![r] = new], FailsItsOwn(runs[r], new),
         \A i \in DOMAIN logs : Final(i) => i \in DOMAIN logs' /\ logs'[i] = logs[i]
  PROVE  Listed(d)'
<1>1. PICK i \in DOMAIN logs : logs[i].day = d /\ Final(i)
  BY DEF Listed
<1>2. i \in DOMAIN logs' /\ logs'[i] = logs[i] /\ Complete(logs[i])
  BY <1>1 DEF Final
<1>3. runs'[r] = new /\ \A q \in Runs \ {r} : runs'[q] = runs[q]
  BY DEF OwnInv, LogInv, TypeInv, TypeOK
<1>4. ASSUME NEW q \in Runs PROVE ~(runs'[q].pc = "fail" /\ runs'[q].log = i)
  <2>1. CASE q = r
    BY <1>1, <1>3, <2>1, FinalIsNotOwned DEF FailsItsOwn
  <2>2. CASE q # r
    BY <1>1, <1>3, <2>2 DEF Final
  <2> QED BY <2>1, <2>2
<1> QED BY <1>1, <1>2, <1>4 DEF Listed, Final, Complete

LEMMA AppendKeepsRows ==
  ASSUME NEW rows \in Seq(LogRow), NEW i \in DOMAIN rows, NEW row
  PROVE  i \in DOMAIN Append(rows, row) /\ Append(rows, row)[i] = rows[i]
<1>1. DOMAIN rows = 1..Len(rows) /\ Len(rows) \in Nat /\ i \in 1..Len(rows)
  BY LenProperties
<1>2. DOMAIN Append(rows, row) = 1..Len(rows) + 1 /\ Append(rows, row)[i] = rows[i]
  BY <1>1
<1> QED BY <1>1, <1>2

LEMMA RowsStay ==
  ASSUME OwnInv, NEW r \in Runs,
         \/ UNCHANGED logs
         \/ \E row : logs' = Append(logs, row)
         \/ runs[r].pc \in Reporting /\ \E row : logs' = [logs EXCEPT ![runs[r].log] = row]
  PROVE  \A i \in DOMAIN logs : Final(i) => i \in DOMAIN logs' /\ logs'[i] = logs[i]
<1> SUFFICES ASSUME NEW i \in DOMAIN logs, Final(i)
             PROVE  i \in DOMAIN logs' /\ logs'[i] = logs[i]
  OBVIOUS
<1>1. ASSUME NEW row, logs' = Append(logs, row)
      PROVE  i \in DOMAIN logs' /\ logs'[i] = logs[i]
  <2>1. logs \in Seq(LogRow)
    BY DEF OwnInv, LogInv, TypeInv, TypeOK
  <2> QED BY <1>1, <2>1, AppendKeepsRows
<1>2. ASSUME runs[r].pc \in Reporting, NEW row, logs' = [logs EXCEPT ![runs[r].log] = row]
      PROVE  i \in DOMAIN logs' /\ logs'[i] = logs[i]
  BY <1>2, FinalIsNotOwned
<1> QED BY <1>1, <1>2

LEMMA ListedBySame == ASSUME NEW d, Listed(d), UNCHANGED <<logs, runs>> PROVE Listed(d)'
BY DEF Listed, Final, Complete

LEMMA BegunBySame == ASSUME NEW d, UNCHANGED <<today, fired>> PROVE Begun(d)' = Begun(d)
BY DEF Begun

LEMMA FreshRun ==
  ASSUME TypeInv, NEW offset \in 1..LookbackDays
  PROVE  LET s == StartDay(offset)
         IN /\ s \in Run /\ s.pc = "create" /\ s.day = today - offset
            /\ s.offset = offset /\ s.attempt = 0
<1>1. offset \in 0..LookbackDays /\ Idle \in Run /\ today - offset \in ClosedDays
  BY LookbackIsPositive, IdleInRange DEF TypeInv, TypeOK, ClosedDays
<1>2. StartDay(offset).attempt = 0
  BY DEF StartDay, Idle
<1> QED BY <1>1, <1>2, StartedRun

(* The next day of a run is not its first.                                 *)
LEMMA NextIsNotFirst ==
  ASSUME TypeInv, NEW run \in Run, NEW d
  PROVE  ~OnFirst(NextDay(run), d) /\ ~OnFirst(Idle, d)
<1>1. ~OnFirst(Idle, d)
  BY DEF OnFirst, Idle
<1>2. ASSUME run.offset > 1 PROVE ~OnFirst(StartDay(run.offset - 1), d)
  <2>1. run.offset - 1 \in 1..LookbackDays /\ run.offset - 1 # LookbackDays
    BY <1>2, LookbackIsPositive DEF Run
  <2> QED BY <2>1, FreshRun DEF OnFirst
<1> QED BY <1>1, <1>2 DEF NextDay

(***************************************************************************)
(* The steps of a run.                                                     *)
(***************************************************************************)
(* Only its first day is charged for a run that starts, and the run owes   *)
(* it all.                                                                 *)
LEMMA OutageFire ==
  ASSUME OwnInv, NEW d \in ClosedDays, DayIsMet(d), NEW r \in Runs, Fire(r)
  PROVE  DayIsMet(d)'
<1> DEFINE new == StartDay(LookbackDays)
           U == {r} \X (1..LostRun)
<1>1. /\ TypeInv /\ runs' = [runs EXCEPT ![r] = new] /\ UNCHANGED <<today, logs, trouble>>
      /\ fired' = fired + 1 /\ runs[r].pc = "idle"
  BY DEF OwnInv, LogInv, Fire, Set, At
<1>2. LookbackDays \in 1..LookbackDays /\ LookbackDays \in Nat
  BY LookbackIsPositive
<1>3. /\ new.pc = "create" /\ new.day = today - LookbackDays
      /\ new.offset = LookbackDays /\ new.attempt = 0
  BY <1>1, <1>2, FreshRun
<1>4. today \in Nat /\ d \in Nat /\ fired \in Nat /\ trouble \in Nat /\ LostRun \in Nat
  BY <1>1, OrderSyncAssumption, LostRunIsPositive DEF TypeInv, TypeOK, ClosedDays
<1> HIDE DEF new
<1>5. ASSUME Covered(d), today # d + LookbackDays PROVE Covered(d)'
  <2>1. Begun(d)' = Begun(d)
    BY <1>1, <1>2, <1>4, <1>5 DEF Begun
  <2>2. Pays(runs[r], new, 0, d) /\ trouble' = trouble + 0
    BY <1>1, <1>4 DEF Pays, OnFirst
  <2> QED BY <1>1, <1>5, <2>1, <2>2, RunPays
<1>6. ASSUME Covered(d), today = d + LookbackDays PROVE Covered(d)'
  <2>1. Begun(d) = fired /\ Begun(d)' = fired + 1
    BY <1>1, <1>2, <1>4, <1>6 DEF Begun
  <2>2. OnFirst(new, d) /\ Paid(new) = 0
    BY <1>2, <1>3, <1>4, <1>6 DEF OnFirst, Paid
  <2>3. Owed(d)' = DebtsOf(runs', d)
    BY DEF Owed
  <2>4. runs'[r] = new /\ \A q \in Runs \ {r} : runs'[q] = runs[q]
    BY <1>1 DEF TypeInv, TypeOK
  <2>5. \A t \in Owed(d) : t[1] # r
    BY <1>1 DEF Owed, DebtsOf, OnFirst
  <2>6. U \subseteq Owed(d)'
    BY <1>4, <2>2, <2>3, <2>4 DEF DebtsOf
  <2>7. Owed(d) \subseteq Owed(d)'
    BY <2>3, <2>4, <2>5 DEF Owed, DebtsOf
  <2>8. Owed(d) \cap U = {}
    BY <2>5
  <2>9. IsFiniteSet(U) /\ Cardinality(U) = LostRun
    <3>1. IsFiniteSet({r}) /\ Cardinality({r}) = 1
      BY FS_Singleton
    <3> QED BY <1>4, <3>1, LostRunIsPositive, FS_Product
  <2>10. /\ IsFiniteSet(Owed(d)) /\ Cardinality(Owed(d)) \in Nat
         /\ IsFiniteSet(Owed(d)') /\ Cardinality(Owed(d)') \in Nat
    BY <2>3, DebtsAreFinite DEF Owed
  <2> HIDE DEF U
  <2>11. Cardinality(Owed(d) \cup U) = Cardinality(Owed(d)) + LostRun
    <3>1. Cardinality(Owed(d) \cup U)
            = Cardinality(Owed(d)) + Cardinality(U) - Cardinality(Owed(d) \cap U)
      BY <2>9, <2>10, FS_Union
    <3>2. Cardinality(Owed(d) \cap U) = 0
      BY <2>8, FS_EmptySet
    <3> QED BY <1>4, <2>9, <2>10, <3>1, <3>2
  <2>12. Cardinality(Owed(d) \cup U) <= Cardinality(Owed(d)')
    BY <2>6, <2>7, <2>10, FS_Subset
  <2>13. LostRun * (fired + 1) = LostRun * fired + LostRun /\ LostRun * fired \in Nat
    BY <1>4
  <2>14. trouble + Cardinality(Owed(d)) >= LostRun * fired
    BY <1>6, <2>1 DEF Covered
  <2>15. trouble + Cardinality(Owed(d)') >= LostRun * (fired + 1)
    BY <1>4, <2>10, <2>11, <2>12, <2>13, <2>14
  <2> QED BY <1>1, <2>1, <2>15 DEF Covered
<1>7. Listed(d) => Listed(d)'
  BY <1>1, <1>3, RowsStay, ListedStays DEF FailsItsOwn
<1> QED BY <1>5, <1>6, <1>7 DEF DayIsMet

LEMMA OutageCreateLog ==
  ASSUME OwnInv, NEW d \in ClosedDays, DayIsMet(d), NEW r \in Runs, CreateLog(r)
  PROVE  DayIsMet(d)'
<1> DEFINE row == [day |-> runs[r].day, status |-> "RUNNING", fetched |-> 0,
                   synced |-> 0, failed |-> 0]
           log == Len(logs) + 1
           run == Requesting(runs[r], log)
<1>1. /\ TypeInv /\ runs[r] \in Run /\ runs[r].pc = "create" /\ log \in Nat
      /\ Begun(d)' = Begun(d) /\ trouble \in Nat
  BY RunFacts, BegunBySame DEF OwnInv, LogInv, CreateLog, At
<1>2. CASE logs' = Append(logs, row) /\ Set(r, run) /\ UNCHANGED trouble
  <2>1. runs' = [runs EXCEPT ![r] = run] /\ trouble' = trouble + 0
    BY <1>1, <1>2 DEF Set
  <2>2. run.attempt = runs[r].attempt
    BY <1>1 DEF Requesting, Run
  <2>3. run = Requesting(runs[r], log)
    OBVIOUS
  <2> HIDE DEF run, log
  <2>4. run.pc = "request" /\ run.offset = runs[r].offset /\ run.day = runs[r].day
    BY <1>1, <2>3, RequestingRun
  <2>5. Pays(runs[r], run, 0, d)
    BY <1>1, <2>2, <2>4, OrderSyncAssumption DEF Pays, OnFirst, Paid, Run
  <2>6. Covered(d) => Covered(d)'
    BY <1>1, <2>1, <2>5, RunPays
  <2>7. FailsItsOwn(runs[r], run)
    BY <2>4 DEF FailsItsOwn
  <2>8. Listed(d) => Listed(d)'
    BY <1>2, <2>1, <2>7, RowsStay, ListedStays
  <2> QED BY <2>6, <2>8 DEF DayIsMet
<1>3. CASE Suffer(LostRun) /\ Set(r, Idle) /\ (logs' = Append(logs, row) \/ UNCHANGED logs)
  <2>1. runs' = [runs EXCEPT ![r] = Idle] /\ trouble' = trouble + LostRun
    BY <1>3 DEF Set, Suffer
  <2>2. Pays(runs[r], Idle, LostRun, d) /\ LostRun \in Nat
    BY <1>1, LostRunIsPositive, OrderSyncAssumption DEF Pays, Paid, Run
  <2>3. Covered(d) => Covered(d)'
    BY <1>1, <2>1, <2>2, RunPays
  <2>4. FailsItsOwn(runs[r], Idle)
    BY DEF FailsItsOwn, Idle
  <2>5. Listed(d) => Listed(d)'
    <3> HIDE DEF row
    <3> QED BY <1>3, <2>1, <2>4, RowsStay, ListedStays
  <2> QED BY <2>3, <2>5 DEF DayIsMet
<1> QED BY <1>2, <1>3 DEF CreateLog, OpenLog, Requesting

LEMMA OutageReceivePage ==
  ASSUME OwnInv, NEW d \in ClosedDays, DayIsMet(d), NEW r \in Runs, ReceivePage(r)
  PROVE  DayIsMet(d)'
<1>1. /\ TypeInv /\ runs[r] \in Run /\ runs[r].pc = "request" /\ UNCHANGED logs
      /\ trouble' = trouble + 0 /\ Begun(d)' = Begun(d)
  BY RunFacts, BegunBySame DEF OwnInv, LogInv, ReceivePage, At
<1> DEFINE got == PageSize(runs[r].day, runs[r].from)
           closing == [runs[r] EXCEPT !.pc = "close"]
           storing == Storing(runs[r], got)
<1>2. runs' = [runs EXCEPT ![r] = closing] \/ runs' = [runs EXCEPT ![r] = storing]
  BY DEF ReceivePage, Set, Goto, Storing
<1>3. /\ closing.pc = "close" /\ closing.attempt = runs[r].attempt
      /\ closing.offset = runs[r].offset /\ closing.day = runs[r].day
  BY <1>1 DEF Run
<1>4. storing.attempt = 0
  BY <1>1 DEF Storing, Run
<1>5. got \in 0..Limit /\ storing = Storing(runs[r], got)
  <2>1. runs[r].from <= sizes[runs[r].day]
    BY <1>1, RunFacts DEF RunInRange, Counting
  <2> QED BY <1>1, <2>1, RunFacts, PageIsBounded DEF Run
<1> HIDE DEF got, storing, closing
<1>6. storing.pc = "upsert" /\ storing.offset = runs[r].offset /\ storing.day = runs[r].day
  BY <1>1, <1>5, StoringRun
<1>7. Pays(runs[r], closing, 0, d) /\ Pays(runs[r], storing, 0, d)
  BY <1>1, <1>3, <1>4, <1>6, OrderSyncAssumption DEF Pays, OnFirst, Paid, Run
<1>8. Covered(d) => Covered(d)'
  BY <1>1, <1>2, <1>7, RunPays
<1>9. FailsItsOwn(runs[r], closing) /\ FailsItsOwn(runs[r], storing)
  BY <1>3, <1>6 DEF FailsItsOwn
<1>10. Listed(d) => Listed(d)'
  BY <1>1, <1>2, <1>9, RowsStay, ListedStays
<1> QED BY <1>8, <1>10 DEF DayIsMet

LEMMA OutageFailRequest ==
  ASSUME OwnInv, NEW d \in ClosedDays, DayIsMet(d), NEW r \in Runs, FailRequest(r)
  PROVE  DayIsMet(d)'
<1>1. /\ TypeInv /\ runs[r] \in Run /\ runs[r].pc = "request" /\ UNCHANGED logs
      /\ Begun(d)' = Begun(d) /\ LostRun \in Nat
  BY RunFacts, BegunBySame, LostRunIsPositive DEF OwnInv, LogInv, FailRequest, At
<1> DEFINE failing  == [runs[r] EXCEPT !.pc = "fail"]
           retrying == [runs[r] EXCEPT !.attempt = @ + 1]
<1>2. \/ /\ trouble' = trouble + 1 /\ RetriesLeft(runs[r])
         /\ runs' = [runs EXCEPT ![r] = retrying]
      \/ /\ trouble' = trouble + 1 /\ ~RetriesLeft(runs[r])
         /\ runs' = [runs EXCEPT ![r] = failing]
      \/ trouble' = trouble + LostRun /\ runs' = [runs EXCEPT ![r] = failing]
  BY DEF FailRequest, Set, Goto, Suffer
<1>3. /\ retrying.pc = "request" /\ retrying.attempt = runs[r].attempt + 1
      /\ retrying.offset = runs[r].offset /\ retrying.day = runs[r].day
      /\ failing.log = runs[r].log
  BY <1>1 DEF Run
<1> HIDE DEF failing, retrying
<1>4. Pays(runs[r], retrying, 1, d)
  BY <1>1, <1>3, OrderSyncAssumption DEF Pays, OnFirst, Paid, Run
<1>5. ~RetriesLeft(runs[r]) => Pays(runs[r], failing, 1, d)
  BY <1>1, OrderSyncAssumption DEF Pays, RetriesLeft, Paid, LostRun, Run
<1>6. Pays(runs[r], failing, LostRun, d)
  BY <1>1, OrderSyncAssumption DEF Pays, Paid, Run
<1>7. Covered(d) => Covered(d)'
  BY <1>1, <1>2, <1>4, <1>5, <1>6, RunPays
<1>8. FailsItsOwn(runs[r], retrying) /\ FailsItsOwn(runs[r], failing)
  BY <1>1, <1>3 DEF FailsItsOwn, Reporting
<1>9. Listed(d) => Listed(d)'
  BY <1>1, <1>2, <1>8, RowsStay, ListedStays
<1> QED BY <1>7, <1>9 DEF DayIsMet

LEMMA TreatedAttempt ==
  ASSUME NEW run \in Run, NEW said \in BOOLEAN
  PROVE  Treated(run, said).attempt = run.attempt
BY DEF Treated, Count, AfterPage, Run

LEMMA OutageUpsertOrder ==
  ASSUME OwnInv, NEW d \in ClosedDays, DayIsMet(d), NEW r \in Runs, UpsertOrder(r)
  PROVE  DayIsMet(d)'
<1>1. /\ TypeInv /\ runs[r] \in Run /\ runs[r].pc = "upsert" /\ UNCHANGED logs
      /\ trouble' = trouble + 0 /\ Begun(d)' = Begun(d)
  BY RunFacts, BegunBySame DEF OwnInv, LogInv, UpsertOrder, At
<1>2. PICK said \in BOOLEAN : runs' = [runs EXCEPT ![r] = Treated(runs[r], said)]
  BY <1>1, UpsertFacts
<1>3. PageSize(runs[r].day, runs[r].from) \in Nat /\ runs[r].todo >= 1
  BY <1>1, PageFacts, OrderSyncAssumption DEF Run
<1> DEFINE new == Treated(runs[r], said)
<1>4. /\ new.offset = runs[r].offset /\ new.day = runs[r].day
      /\ new.pc \in {"close", "request", "upsert"}
  BY <1>1, <1>3, TreatedRun
<1>5. new.attempt = runs[r].attempt
  BY <1>1, TreatedAttempt
<1> HIDE DEF new
<1>6. Pays(runs[r], new, 0, d)
  BY <1>1, <1>4, <1>5, OrderSyncAssumption DEF Pays, OnFirst, Paid, Run
<1>7. runs' = [runs EXCEPT ![r] = new]
  BY <1>2 DEF new
<1>8. Covered(d) => Covered(d)'
  BY <1>1, <1>6, <1>7, RunPays
<1>9. FailsItsOwn(runs[r], new)
  BY <1>4 DEF FailsItsOwn
<1>10. Listed(d) => Listed(d)'
  BY <1>1, <1>7, <1>9, RowsStay, ListedStays
<1> QED BY <1>8, <1>10 DEF DayIsMet

(* A run that gets past a day has listed it.                               *)
LEMMA OutageCloseDay ==
  ASSUME OwnInv, NEW d \in ClosedDays, DayIsMet(d), NEW r \in Runs, CloseDay(r)
  PROVE  DayIsMet(d)'
<1> DEFINE row == [day |-> runs[r].day, status |-> Verdict(runs[r]),
                   fetched |-> runs[r].fetched, synced |-> runs[r].synced,
                   failed |-> runs[r].failed]
           failing == [runs[r] EXCEPT !.pc = "fail"]
           Reported == logs' = [logs EXCEPT ![runs[r].log] = row]
<1>1. /\ TypeInv /\ runs[r] \in Run /\ runs[r].pc = "close" /\ runs[r].pc \in Reporting
      /\ Begun(d)' = Begun(d) /\ LostRun \in Nat /\ trouble \in Nat
  BY RunFacts, BegunBySame, LostRunIsPositive
  DEF OwnInv, LogInv, CloseDay, At, Reporting
<1>2. Reported \/ UNCHANGED logs => \A i \in DOMAIN logs :
        Final(i) => i \in DOMAIN logs' /\ logs'[i] = logs[i]
  <2> HIDE DEF row
  <2> QED BY <1>1, RowsStay
<1>3. CASE Reported /\ Set(r, NextDay(runs[r])) /\ UNCHANGED trouble
  <2>1. runs' = [runs EXCEPT ![r] = NextDay(runs[r])] /\ NextDay(runs[r]).pc \notin Reporting
    BY <1>1, <1>3, DaysStart DEF Set
  <2>2. Listed(d) => Listed(d)'
    <3> HIDE DEF row
    <3> QED BY <1>2, <1>3, <2>1, ListedStays DEF FailsItsOwn, Reporting
  <2>3. ASSUME runs[r].day = d PROVE Listed(d)'
    <3>1. runs[r].log \in DOMAIN logs
      BY <1>1 DEF OwnInv, OwnsReport
    <3>2. runs[r].log \in DOMAIN logs' /\ logs'[runs[r].log] = row
      BY <1>3, <3>1
    <3>3. row.day = d /\ row.status \in {"SUCCESS", "PARTIAL_FAIL"}
      BY <2>3 DEF Verdict
    <3>4. runs'[r] = NextDay(runs[r]) /\ \A q \in Runs \ {r} : runs'[q] = runs[q]
      BY <1>1, <2>1 DEF TypeInv, TypeOK
    <3>5. ASSUME NEW q \in Runs PROVE ~(runs'[q].pc = "fail" /\ runs'[q].log = runs[r].log)
      BY <1>1, <2>1, <3>4 DEF OwnInv, Reporting
    <3> HIDE DEF row
    <3> QED BY <3>2, <3>3, <3>5 DEF Listed, Final, Complete
  <2>4. ASSUME runs[r].day # d, Covered(d) PROVE Covered(d)'
    <3>1. trouble' = trouble + 0
      BY <1>1, <1>3
    <3>2. Pays(runs[r], NextDay(runs[r]), 0, d)
      BY <2>4 DEF Pays, OnFirst
    <3> QED BY <1>1, <2>1, <2>4, <3>1, <3>2, RunPays
  <2> QED BY <2>2, <2>3, <2>4 DEF DayIsMet
<1>4. CASE Suffer(LostRun) /\ Goto(r, "fail") /\ (Reported \/ UNCHANGED logs)
  <2>1. /\ runs' = [runs EXCEPT ![r] = failing] /\ trouble' = trouble + LostRun
        /\ failing.log = runs[r].log
    BY <1>1, <1>4 DEF Goto, Suffer, Run
  <2> HIDE DEF failing, row
  <2>2. Pays(runs[r], failing, LostRun, d)
    BY <1>1, OrderSyncAssumption DEF Pays, Paid, Run
  <2>3. Covered(d) => Covered(d)'
    BY <1>1, <2>1, <2>2, RunPays
  <2>4. Listed(d) => Listed(d)'
    BY <1>1, <1>2, <1>4, <2>1, ListedStays DEF FailsItsOwn
  <2> QED BY <2>3, <2>4 DEF DayIsMet
<1> QED BY <1>3, <1>4 DEF CloseDay, UpdateLog

(* A run that fails has suffered enough.                                   *)
LEMMA OutageFailDay ==
  ASSUME OwnInv, NEW d \in ClosedDays, DayIsMet(d), NEW r \in Runs, FailDay(r)
  PROVE  DayIsMet(d)'
<1>1. /\ TypeInv /\ runs[r].pc = "fail" /\ runs[r].pc \in Reporting
      /\ runs' = [runs EXCEPT ![r] = Idle] /\ trouble' = trouble + 0
      /\ Begun(d)' = Begun(d) /\ LostRun \in Nat
  BY RunFacts, BegunBySame, LostRunIsPositive
  DEF OwnInv, LogInv, FailDay, At, Reporting, Set
<1>2. Pays(runs[r], Idle, 0, d)
  BY <1>1 DEF Pays, Paid
<1>3. Covered(d) => Covered(d)'
  BY <1>1, <1>2, RunPays
<1>4. FailsItsOwn(runs[r], Idle)
  BY DEF FailsItsOwn, Idle
<1>5. UNCHANGED logs \/ \E row : logs' = [logs EXCEPT ![runs[r].log] = row]
  BY DEF FailDay, UpdateLog
<1>6. Listed(d) => Listed(d)'
  BY <1>1, <1>4, <1>5, RowsStay, ListedStays
<1> QED BY <1>3, <1>6 DEF DayIsMet

(***************************************************************************)
(* The steps of the world.                                                 *)
(***************************************************************************)
LEMMA OutageMissFire ==
  ASSUME OwnInv, NEW d \in ClosedDays, DayIsMet(d), MissFire
  PROVE  DayIsMet(d)'
<1>1. /\ TypeInv /\ UNCHANGED <<today, logs, runs>>
      /\ fired' = fired + 1 /\ trouble' = trouble + LostRun
  BY DEF OwnInv, LogInv, MissFire, Suffer
<1>2. /\ today \in Nat /\ d \in Nat /\ fired \in Nat /\ trouble \in Nat /\ LostRun \in Nat
      /\ LookbackDays \in Nat
  BY <1>1, LookbackIsPositive, OrderSyncAssumption, LostRunIsPositive
  DEF TypeInv, TypeOK, ClosedDays
<1>3. Owed(d)' = Owed(d)
  BY <1>1 DEF Owed
<1>4. Cardinality(Owed(d)) \in Nat
  BY DebtsAreFinite DEF Owed
<1>5. Begun(d) \in Nat /\ Begun(d)' \in {Begun(d), Begun(d) + 1}
  BY <1>1, <1>2, BegunIsBounded DEF Begun
<1>6. ASSUME Covered(d) PROVE Covered(d)'
  <2>1. PICK n \in Nat : n = Begun(d)
    BY <1>5
  <2>2. LostRun * n \in Nat /\ LostRun * (n + 1) = LostRun * n + LostRun
    BY <1>2
  <2>3. LostRun * Begun(d)' \in {LostRun * n, LostRun * (n + 1)}
    BY <1>5, <2>1
  <2>4. trouble + Cardinality(Owed(d)) >= LostRun * n
    BY <1>6, <2>1 DEF Covered
  <2>5. trouble' + Cardinality(Owed(d)) >= LostRun * Begun(d)'
    BY <1>1, <1>2, <1>4, <2>2, <2>3, <2>4
  <2> QED BY <1>3, <2>5 DEF Covered
<1> QED BY <1>1, <1>6, ListedBySame DEF DayIsMet

LEMMA OutageCrash ==
  ASSUME OwnInv, NEW d \in ClosedDays, DayIsMet(d), Crash
  PROVE  DayIsMet(d)'
<1> DEFINE U == Busy \X (1..LostRun)
<1>1. /\ TypeInv /\ UNCHANGED logs /\ Begun(d)' = Begun(d)
      /\ trouble' = trouble + LostRun * Cardinality(Busy)
  BY BegunBySame DEF OwnInv, LogInv, Crash, Suffer
<1>2. IsFiniteSet(Busy) /\ Cardinality(Busy) \in Nat
  BY RunsAssumption, FS_Subset, FS_CardinalityType DEF Busy
<1>3. IsFiniteSet(U) /\ Cardinality(U) = Cardinality(Busy) * LostRun
  BY <1>2, LostRunIsPositive, FS_Product
<1>4. Owed(d) \subseteq U
  BY DEF Owed, DebtsOf, OnFirst, Busy, At
<1>5. Cardinality(Busy) * LostRun = LostRun * Cardinality(Busy)
      /\ LostRun * Cardinality(Busy) \in Nat /\ trouble \in Nat
  BY <1>1, <1>2, LostRunIsPositive DEF TypeInv, TypeOK
<1>6. Covered(d) => Covered(d)'
  <2> HIDE DEF U
  <2> QED BY <1>1, <1>3, <1>4, <1>5, StaysCovered
<1>7. \A r \in Runs : runs'[r].pc # "fail"
  BY DEF Crash, Idle
<1>8. Listed(d) => Listed(d)'
  BY <1>1, <1>7 DEF Listed, Final, Complete
<1> QED BY <1>6, <1>8 DEF DayIsMet

(* A day that closes has been charged nothing yet.                         *)
LEMMA OutageMidnight ==
  ASSUME OwnInv, \A d \in ClosedDays : DayIsMet(d), Midnight, NEW d \in ClosedDays'
  PROVE  DayIsMet(d)'
<1>1. /\ TypeInv /\ UNCHANGED <<logs, runs, trouble>>
      /\ today' = today + 1 /\ fired = RunsPerDay /\ fired' = 0
  BY DEF OwnInv, LogInv, Midnight
<1>2. /\ today \in Nat /\ trouble \in Nat /\ LostRun \in Nat /\ LookbackDays \in Nat \ {0}
      /\ RunsPerDay \in Nat /\ today \notin ClosedDays
  BY <1>1, LookbackIsPositive, OrderSyncAssumption, LostRunIsPositive
  DEF TypeInv, TypeOK, ClosedDays
<1>3. d = today \/ d \in ClosedDays
  BY <1>1, MidnightFacts
<1>4. Owed(d)' = Owed(d) /\ Cardinality(Owed(d)) \in Nat
  BY <1>1, DebtsAreFinite DEF Owed
<1>5. CASE d = today
  <2>1. Begun(d)' = 0
    BY <1>1, <1>2, <1>5 DEF Begun
  <2>2. LostRun * 0 = 0
    BY <1>2
  <2> QED BY <1>1, <1>2, <1>4, <2>1, <2>2 DEF DayIsMet, Covered
<1>6. CASE d \in ClosedDays
  <2>1. d \in Nat /\ d < today
    BY <1>2, <1>6 DEF ClosedDays
  <2>2. Begun(d)' = Begun(d)
    BY <1>1, <1>2, <2>1 DEF Begun
  <2>3. Covered(d) => Covered(d)'
    BY <1>1, <1>4, <2>2 DEF Covered
  <2> QED BY <1>1, <1>6, <2>3, ListedBySame DEF DayIsMet
<1> QED BY <1>3, <1>5, <1>6

(***************************************************************************)
(* The invariant.                                                          *)
(***************************************************************************)
LEMMA OutageInit == Init => OutageInv
<1> SUFFICES ASSUME Init PROVE OutageInv
  OBVIOUS
<1>1. OwnInv
  BY OwnInit
<1>2. ASSUME NEW d \in ClosedDays PROVE Covered(d)
  <2>1. today = LookbackDays /\ fired = 0 /\ trouble = 0 /\ LookbackDays \in Nat
    BY LookbackIsPositive DEF Init
  <2>2. Begun(d) = 0
    BY <2>1 DEF Begun, ClosedDays
  <2>3. LostRun * 0 = 0 /\ Cardinality(Owed(d)) \in Nat
    BY LostRunIsPositive, DebtsAreFinite DEF Owed
  <2> QED BY <2>1, <2>2, <2>3 DEF Covered
<1> QED BY <1>1, <1>2 DEF OutageInv

LEMMA OutageStep == OutageInv /\ [Next]_vars => OutageInv'
<1> SUFFICES ASSUME OutageInv, [Next]_vars PROVE OutageInv'
  OBVIOUS
<1>1. OwnInv'
  BY OwnStep DEF OutageInv
<1>2. OwnInv /\ \A d \in ClosedDays : DayIsMet(d)
  BY DEF OutageInv, DayIsMet
<1>3. ASSUME NEW d \in ClosedDays' PROVE DayIsMet(d)'
  <2>1. CASE Midnight
    BY <1>2, <2>1, OutageMidnight
  <2>2. CASE UNCHANGED vars
    <3>1. d \in ClosedDays
      BY <2>2 DEF vars, ClosedDays
    <3>2. DayIsMet(d)
      BY <1>2, <3>1
    <3>3. UNCHANGED <<today, fired, logs, runs, trouble>>
      BY <2>2 DEF vars
    <3>4. Listed(d) => Listed(d)'
      BY <3>3, ListedBySame
    <3>5. Covered(d) => Covered(d)'
      BY <3>3 DEF Covered, Owed, Begun
    <3> QED BY <3>2, <3>4, <3>5 DEF DayIsMet
  <2>3. ASSUME UNCHANGED today PROVE d \in ClosedDays /\ DayIsMet(d)
    BY <1>2, <2>3 DEF ClosedDays
  <2>4. CASE MissFire \/ Crash
    <3>1. d \in ClosedDays /\ DayIsMet(d)
      BY <2>3, <2>4 DEF MissFire, Crash
    <3> QED BY <1>2, <2>4, <3>1, OutageMissFire, OutageCrash
  <2>5. ASSUME NEW r \in Runs,
               \/ Fire(r) \/ CreateLog(r) \/ ReceivePage(r) \/ FailRequest(r)
               \/ UpsertOrder(r) \/ CloseDay(r) \/ FailDay(r)
        PROVE  DayIsMet(d)'
    <3>1. d \in ClosedDays /\ DayIsMet(d)
      BY <2>3, <2>5
      DEF Fire, CreateLog, ReceivePage, FailRequest, UpsertOrder, CloseDay, FailDay
    <3> QED BY <1>2, <2>5, <3>1, OutageFire, OutageCreateLog, OutageReceivePage,
               OutageFailRequest, OutageUpsertOrder, OutageCloseDay, OutageFailDay
  <2> QED BY <2>1, <2>2, <2>4, <2>5 DEF Next
<1> QED BY <1>1, <1>3 DEF OutageInv, DayIsMet

(* A day that is lost is fully charged, and no run is left to pay for it.  *)
LEMMA LostIsPaid == OutageInv => LostOnlyByOutage
<1> SUFFICES ASSUME OutageInv, NEW d \in ClosedDays, Lost(d)
             PROVE  trouble >= RunsPerDay * LostRun
  BY DEF LostOnlyByOutage
<1>1. TypeInv
  BY DEF OutageInv, OwnInv, LogInv
<1>2. /\ today \in Nat /\ d \in Nat /\ LookbackDays \in Nat /\ LostRun \in Nat
      /\ RunsPerDay \in Nat /\ trouble \in Nat
  BY <1>1, LookbackIsPositive, OrderSyncAssumption, LostRunIsPositive
  DEF TypeInv, TypeOK, ClosedDays
<1>3. ~Listed(d)
  BY DEF Lost, Listed, Final
<1>4. Owed(d) = {}
  BY DEF Lost, Owed, DebtsOf, OnFirst, Busy, At
<1>5. Begun(d) = RunsPerDay
  BY <1>2 DEF Lost, Begun
<1>6. trouble + 0 >= LostRun * RunsPerDay
  BY <1>3, <1>4, <1>5, FS_EmptySet DEF OutageInv, Covered
<1>7. LostRun * RunsPerDay = RunsPerDay * LostRun
  BY <1>2
<1> QED BY <1>2, <1>6, <1>7

(* No day is lost by a midnight that passes during a run, by runs that     *)
(* overlap or by a run that stops at the first day that fails: it takes as *)
(* many failed requests as lose every run that cron starts on a whole day  *)
(* (syncYangoOrders, executeWithRetry).                                    *)
THEOREM LostByOutage == Spec => []LostOnlyByOutage
<1>1. Spec => []OutageInv
  BY OutageInit, OutageStep, PTL DEF Spec
<1> QED BY <1>1, LostIsPaid, PTL
=============================================================================
