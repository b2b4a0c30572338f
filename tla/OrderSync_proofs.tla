-------------------------- MODULE OrderSync_proofs --------------------------
(***************************************************************************)
(* Proofs about OrderSync, for any lookback, page size, number of retries, *)
(* sizes of days and bounds, and any finite set of runs in progress.       *)
(***************************************************************************)
EXTENDS OrderSync, FiniteSetTheorems, SequenceTheorems, TLAPS

(***************************************************************************)
(* Pages.                                                                  *)
(***************************************************************************)
LEMMA LookbackIsPositive == LookbackDays \in Nat \ {0}
BY DEF LookbackDays

(* A page from within a day holds what is left of the day, up to Limit; a  *)
(* page that is not full reaches the end of the day.                       *)
LEMMA PageIsBounded ==
  ASSUME NEW d \in ClosedDays, NEW from \in Nat, sizes[d] \in Nat, from <= sizes[d]
  PROVE  /\ PageSize(d, from) \in 0..Limit
         /\ from + PageSize(d, from) <= sizes[d]
         /\ PageSize(d, from) < Limit => from + PageSize(d, from) = sizes[d]
BY OrderSyncAssumption DEF PageSize

(***************************************************************************)
(* What the steps of a run do to its record.                               *)
(***************************************************************************)
LEMMA StartedRun ==
  ASSUME NEW offset \in 0..LookbackDays, Idle \in Run, today - offset \in ClosedDays
  PROVE  LET s == StartDay(offset)
         IN /\ s \in Run /\ s.pc = "create" /\ s.from = 0 /\ s.day = today - offset
            /\ s.offset = offset /\ s.synced = 0 /\ s.failed = 0 /\ s.fetched = 0
<1> DEFINE a == [Idle EXCEPT !.pc = "create"]
           b == [a EXCEPT !.offset = offset]
           c == [b EXCEPT !.day = today - offset]
           Fresh(s) == /\ s \in Run /\ s.pc = "create" /\ s.from = 0
                       /\ s.synced = 0 /\ s.failed = 0 /\ s.fetched = 0
<1>1. Fresh(a)
  BY DEF Run, Idle, Labels
<1> HIDE DEF a
<1>2. Fresh(b) /\ b.offset = offset
  BY <1>1 DEF Run
<1> HIDE DEF b
<1>3. Fresh(c) /\ c.offset = offset /\ c.day = today - offset
  BY <1>2 DEF Run
<1>4. StartDay(offset) = c
  BY DEF StartDay, a, b
<1> QED BY <1>3, <1>4

Requesting(run, log) == [run EXCEPT !.pc = "request", !.log = log]
Storing(run, got) ==
  [run EXCEPT !.pc = "upsert", !.todo = got, !.attempt = 0, !.fetched = @ + got]

LEMMA RequestingRun ==
  ASSUME NEW run \in Run, NEW log \in Nat, NEW s, s = Requesting(run, log)
  PROVE  /\ s \in Run /\ s.pc = "request" /\ s.log = log
         /\ s.from = run.from /\ s.day = run.day /\ s.offset = run.offset
         /\ s.synced = run.synced /\ s.failed = run.failed /\ s.fetched = run.fetched
BY DEF Requesting, Run, Labels

LEMMA StoringRun ==
  ASSUME NEW run \in Run, NEW got \in 0..Limit, NEW s, s = Storing(run, got)
  PROVE  /\ s \in Run /\ s.pc = "upsert" /\ s.todo = got /\ s.log = run.log
         /\ s.from = run.from /\ s.day = run.day /\ s.offset = run.offset
         /\ s.synced = run.synced /\ s.failed = run.failed
         /\ s.fetched = run.fetched + got
<1> DEFINE a == [run EXCEPT !.pc = "upsert"]
           b == [a EXCEPT !.todo = got]
           c == [b EXCEPT !.attempt = 0]
           d == [c EXCEPT !.fetched = @ + got]
           Kept(t) == /\ t \in Run /\ t.pc = "upsert" /\ t.log = run.log
                      /\ t.from = run.from /\ t.day = run.day /\ t.offset = run.offset
                      /\ t.synced = run.synced /\ t.failed = run.failed
<1>1. Kept(a) /\ a.fetched = run.fetched
  BY DEF Run, Labels
<1> HIDE DEF a
<1>2. Kept(b) /\ b.todo = got /\ b.fetched = run.fetched
  BY <1>1 DEF Run
<1> HIDE DEF b
<1>3. Kept(c) /\ c.todo = got /\ c.fetched = run.fetched
  BY <1>2, OrderSyncAssumption DEF Run
<1> HIDE DEF c
<1>4. Kept(d) /\ d.todo = got /\ d.fetched = run.fetched + got
  BY <1>3, OrderSyncAssumption DEF Run
<1>5. d = Storing(run, got)
  BY DEF Storing, a, b, c
<1> QED BY <1>4, <1>5

LEMMA RetryingRun ==
  ASSUME NEW run \in Run, RetriesLeft(run), NEW s, s = [run EXCEPT !.attempt = @ + 1]
  PROVE  /\ s \in Run /\ s.pc = run.pc /\ s.log = run.log
         /\ s.from = run.from /\ s.day = run.day /\ s.offset = run.offset
         /\ s.synced = run.synced /\ s.failed = run.failed /\ s.fetched = run.fetched
BY OrderSyncAssumption DEF Run, RetriesLeft

LEMMA CountedRun ==
  ASSUME NEW run \in Run, NEW stored \in BOOLEAN, run.todo >= 1
  PROVE  LET s == Count(run, stored)
         IN /\ s \in Run /\ s.pc = run.pc /\ s.todo = run.todo - 1 /\ s.log = run.log
            /\ s.from = run.from /\ s.day = run.day /\ s.offset = run.offset
            /\ s.fetched = run.fetched
            /\ s.synced = (IF stored THEN run.synced + 1 ELSE run.synced)
            /\ s.failed = (IF stored THEN run.failed ELSE run.failed + 1)
<1> DEFINE a == [run EXCEPT !.todo = @ - 1]
<1>1. /\ a \in Run /\ a.pc = run.pc /\ a.todo = run.todo - 1 /\ a.log = run.log
      /\ a.from = run.from /\ a.day = run.day /\ a.offset = run.offset
      /\ a.fetched = run.fetched /\ a.synced = run.synced /\ a.failed = run.failed
  BY OrderSyncAssumption DEF Run
<1>2. Count(run, stored) = IF stored THEN [a EXCEPT !.synced = @ + 1]
                                     ELSE [a EXCEPT !.failed = @ + 1]
  BY DEF Count
<1> HIDE DEF a
<1> QED BY <1>1, <1>2 DEF Run

LEMMA TurnedRun ==
  ASSUME NEW run \in Run, NEW got \in Nat, NEW s, s = AfterPage(run, got)
  PROVE  /\ s \in Run /\ s.from = run.from + got /\ s.log = run.log
         /\ s.pc = (IF got < Limit THEN "close" ELSE "request")
         /\ s.day = run.day /\ s.offset = run.offset
         /\ s.synced = run.synced /\ s.failed = run.failed /\ s.fetched = run.fetched
<1> DEFINE a == [run EXCEPT !.from = @ + got]
<1>1. /\ a \in Run /\ a.from = run.from + got /\ a.pc = run.pc /\ a.log = run.log
      /\ a.day = run.day /\ a.offset = run.offset
      /\ a.synced = run.synced /\ a.failed = run.failed /\ a.fetched = run.fetched
  BY DEF Run
<1>2. AfterPage(run, got) = [a EXCEPT !.pc = IF got < Limit THEN "close" ELSE "request"]
  BY DEF AfterPage
<1> HIDE DEF a
<1> QED BY <1>1, <1>2 DEF Run, Labels

(* The order a run stores next, and what becomes of the run once it is     *)
(* stored or counted as failed.                                            *)
NextOrder(run) == run.from + PageSize(run.day, run.from) - run.todo + 1
Treated(run, stored) ==
  LET counted == Count(run, stored)
      got     == PageSize(run.day, run.from)
  IN IF counted.todo = 0 THEN AfterPage(counted, got) ELSE counted

LEMMA TreatedRun ==
  ASSUME NEW run \in Run, NEW stored \in BOOLEAN, run.todo >= 1,
         PageSize(run.day, run.from) \in Nat
  PROVE  LET s   == Treated(run, stored)
             got == PageSize(run.day, run.from)
         IN /\ s \in Run /\ s.log = run.log /\ s.day = run.day /\ s.offset = run.offset
            /\ s.fetched = run.fetched
            /\ s.synced = (IF stored THEN run.synced + 1 ELSE run.synced)
            /\ s.failed = (IF stored THEN run.failed ELSE run.failed + 1)
            /\ \/ /\ run.todo = 1 /\ s.from = run.from + got
                  /\ s.pc = (IF got < Limit THEN "close" ELSE "request")
               \/ /\ run.todo # 1 /\ s.from = run.from /\ s.todo = run.todo - 1
                  /\ s.pc = run.pc
<1> DEFINE counted == Count(run, stored)
           got     == PageSize(run.day, run.from)
<1>1. /\ counted \in Run /\ counted.pc = run.pc /\ counted.todo = run.todo - 1
      /\ counted.log = run.log /\ counted.from = run.from /\ counted.day = run.day
      /\ counted.offset = run.offset /\ counted.fetched = run.fetched
      /\ counted.synced = (IF stored THEN run.synced + 1 ELSE run.synced)
      /\ counted.failed = (IF stored THEN run.failed ELSE run.failed + 1)
  BY CountedRun
<1>2. Treated(run, stored) = IF counted.todo = 0 THEN AfterPage(counted, got) ELSE counted
  BY DEF Treated
<1> HIDE DEF counted, got
<1>3. CASE counted.todo = 0
  <2>1. got \in Nat
    BY DEF got
  <2> DEFINE t == AfterPage(counted, got)
  <2>2. /\ t \in Run /\ t.from = counted.from + got /\ t.log = counted.log
        /\ t.pc = (IF got < Limit THEN "close" ELSE "request")
        /\ t.day = counted.day /\ t.offset = counted.offset
        /\ t.synced = counted.synced /\ t.failed = counted.failed
        /\ t.fetched = counted.fetched
    BY <1>1, <2>1, TurnedRun
  <2>3. Treated(run, stored) = t /\ run.todo = 1
    BY <1>1, <1>2, <1>3 DEF Run
  <2> HIDE DEF t
  <2> QED BY <1>1, <2>2, <2>3 DEF got
<1>4. CASE counted.todo # 0
  BY <1>1, <1>2, <1>4 DEF Run
<1> QED BY <1>3, <1>4

(***************************************************************************)
(* Type correctness.  A run that upserts is within a page, and one that    *)
(* reports has a row to report on.                                         *)
(***************************************************************************)
Counting  == {"create", "request", "upsert", "close"}
Reporting == {"request", "upsert", "close", "fail"}

(* PageSize, of given sizes of days.                                       *)
PageOf(ss, d, from) == IF ss[d] - from < Limit THEN ss[d] - from ELSE Limit

RunInRange(run, ss, rows) ==
  /\ run.pc # "idle" => run.offset >= 1
  /\ run.pc \in Counting => run.from <= ss[run.day]
  /\ run.pc = "upsert" => run.todo \in 1..PageOf(ss, run.day, run.from)
  /\ run.pc \in Reporting => run.log \in rows

TypeInv ==
  /\ TypeOK
  /\ today >= LookbackDays
  /\ \A r \in Runs : RunInRange(runs[r], sizes, DOMAIN logs)

LEMMA IdleInRange ==
  ASSUME TypeInv
  PROVE  Idle \in Run /\ RunInRange(Idle, sizes, DOMAIN logs)
BY LookbackIsPositive, OrderSyncAssumption
DEF TypeInv, TypeOK, Idle, Run, Labels, ClosedDays, RunInRange, Counting, Reporting

LEMMA StartsInRange ==
  ASSUME TypeInv, NEW offset \in 1..LookbackDays
  PROVE  StartDay(offset) \in Run /\ RunInRange(StartDay(offset), sizes, DOMAIN logs)
<1>1. today - offset \in ClosedDays /\ offset \in 0..LookbackDays
  BY LookbackIsPositive DEF TypeInv, TypeOK, ClosedDays
<1>2. sizes[today - offset] \in Nat
  BY <1>1, OrderSyncAssumption DEF TypeInv, TypeOK
<1> QED BY <1>1, <1>2, IdleInRange, StartedRun DEF RunInRange, Reporting

LEMMA NextDayInRange ==
  ASSUME TypeInv, NEW run \in Run
  PROVE  NextDay(run) \in Run /\ RunInRange(NextDay(run), sizes, DOMAIN logs)
BY LookbackIsPositive, IdleInRange, StartsInRange DEF NextDay, Run

(* What a step that replaces one run has to show.                          *)
LEMMA OneRun ==
  ASSUME TypeInv, NEW r \in Runs, NEW run, runs' = [runs EXCEPT ![r] = run],
         run \in Run, RunInRange(run, sizes', DOMAIN logs'), trouble' \in 0..MaxTrouble,
         fired' \in 0..RunsPerDay, UNCHANGED <<today, sizes>>,
         DOMAIN orders' = ClosedDays, \A d \in ClosedDays : orders'[d] \subseteq 1..sizes[d],
         logs' \in Seq(LogRow), DOMAIN logs \subseteq DOMAIN logs'
  PROVE  TypeInv'
<1>1. runs' \in [Runs -> Run]
  BY DEF TypeInv, TypeOK
<1>2. UNCHANGED ClosedDays /\ UNCHANGED Run /\ UNCHANGED LogRow
  BY DEF ClosedDays, Run, LogRow
<1>3. TypeOK'
  BY <1>1, <1>2 DEF TypeInv, TypeOK
<1>4. ASSUME NEW q \in Runs PROVE RunInRange(runs'[q], sizes', DOMAIN logs')
  <2>1. CASE q = r
    BY <2>1 DEF TypeInv, TypeOK
  <2>2. CASE q # r
    <3>1. runs'[q] = runs[q] /\ RunInRange(runs[q], sizes, DOMAIN logs)
      BY <2>2 DEF TypeInv, TypeOK
    <3> QED BY <3>1 DEF RunInRange, PageOf
  <2> QED BY <2>1, <2>2
<1> QED BY <1>3, <1>4 DEF TypeInv

LEMMA TypeInit == Init => TypeInv
<1> SUFFICES ASSUME Init PROVE TypeInv
  OBVIOUS
<1>1. today >= LookbackDays /\ today \in Nat /\ 0 \in ClosedDays
  BY LookbackIsPositive DEF Init, ClosedDays
<1>2. Idle \in Run
  BY <1>1, LookbackIsPositive, OrderSyncAssumption DEF Idle, Run, Labels
<1>3. TypeOK
  BY <1>1, <1>2, OrderSyncAssumption DEF Init, TypeOK
<1>4. \A r \in Runs : RunInRange(runs[r], sizes, DOMAIN logs)
  BY DEF Init, RunInRange, Idle, Counting, Reporting
<1> QED BY <1>1, <1>3, <1>4 DEF TypeInv

(* What the actions of a run read of the invariant.                        *)
LEMMA RunFacts ==
  ASSUME TypeInv, NEW r \in Runs
  PROVE  /\ runs[r] \in Run /\ RunInRange(runs[r], sizes, DOMAIN logs)
         /\ sizes[runs[r].day] \in Nat
         /\ DOMAIN orders = ClosedDays
         /\ \A d \in ClosedDays : orders[d] \subseteq 1..sizes[d]
         /\ logs \in Seq(LogRow) /\ DOMAIN logs = 1..Len(logs) /\ Len(logs) \in Nat
         /\ trouble \in 0..MaxTrouble /\ MaxTrouble \in Nat
         /\ fired \in 0..RunsPerDay /\ RunsPerDay \in Nat
BY OrderSyncAssumption, LenProperties DEF TypeInv, TypeOK, Run

LEMMA TypeFire ==
  ASSUME TypeInv, NEW r \in Runs, Fire(r)
  PROVE  TypeInv'
<1>1. LookbackDays \in 1..LookbackDays
  BY LookbackIsPositive
<1>2. StartDay(LookbackDays) \in Run /\ RunInRange(StartDay(LookbackDays), sizes, DOMAIN logs)
  BY <1>1, StartsInRange
<1>3. RunInRange(StartDay(LookbackDays), sizes', DOMAIN logs')
  BY <1>2 DEF Fire
<1>4. fired' \in 0..RunsPerDay
  BY RunFacts DEF Fire
<1> QED BY <1>2, <1>3, <1>4, OneRun, RunFacts DEF Fire, Set

LEMMA TypeCreateLog ==
  ASSUME TypeInv, NEW r \in Runs, CreateLog(r)
  PROVE  TypeInv'
<1> DEFINE row == [day |-> runs[r].day, status |-> "RUNNING", fetched |-> 0,
                   synced |-> 0, failed |-> 0]
           run == Requesting(runs[r], Len(logs) + 1)
<1>3. logs' = Append(logs, row) =>
        /\ logs' \in Seq(LogRow) /\ Len(logs') = Len(logs) + 1
        /\ DOMAIN logs' = 1..Len(logs) + 1 /\ DOMAIN logs \subseteq DOMAIN logs'
  <2>1. row \in LogRow
    BY RunFacts DEF LogRow, Statuses, Run
  <2>2. Append(logs, row) \in Seq(LogRow) /\ Len(Append(logs, row)) = Len(logs) + 1
    BY <2>1, RunFacts
  <2> QED BY <2>2, RunFacts, LenProperties
<1>1. CASE logs' = Append(logs, row) /\ Set(r, run) /\ UNCHANGED trouble
  <2>2. logs' \in Seq(LogRow) /\ Len(logs') = Len(logs) + 1
    BY <1>1, <1>3
  <2>3. DOMAIN logs' = 1..Len(logs) + 1
    BY <1>1, <1>3
  <2>4. run \in Run /\ RunInRange(run, sizes', DOMAIN logs')
    <3>1. runs[r].pc = "create" /\ runs[r].offset >= 1 /\ runs[r].from <= sizes[runs[r].day]
      BY RunFacts DEF CreateLog, At, RunInRange, Counting
    <3>2. Len(logs) + 1 \in Nat /\ Len(logs) + 1 \in DOMAIN logs' /\ runs[r] \in Run
      BY <2>3, RunFacts
    <3>3. /\ run \in Run /\ run.pc = "request" /\ run.log = Len(logs) + 1
          /\ run.from = runs[r].from /\ run.day = runs[r].day /\ run.offset = runs[r].offset
      BY <3>2, RequestingRun
    <3> HIDE DEF run
    <3> QED BY <3>1, <3>2, <3>3 DEF CreateLog, RunInRange
  <2>5. DOMAIN logs \subseteq DOMAIN logs' /\ trouble' \in 0..MaxTrouble
    BY <1>1, <2>3, RunFacts
  <2>6. runs' = [runs EXCEPT ![r] = run]
    BY <1>1 DEF Set
  <2> HIDE DEF run
  <2> QED BY <2>2, <2>4, <2>5, <2>6, RunFacts, OneRun DEF CreateLog
<1>2. CASE Suffer(LostRun) /\ Set(r, Idle) /\ (logs' = Append(logs, row) \/ UNCHANGED logs)
  <2>1. RunInRange(Idle, sizes', DOMAIN logs')
    BY DEF RunInRange, Idle, Counting, Reporting
  <2>2. trouble' \in 0..MaxTrouble
    BY <1>2, RunFacts, OrderSyncAssumption DEF Suffer, LostRun
  <2>3. logs' \in Seq(LogRow) /\ DOMAIN logs \subseteq DOMAIN logs'
    BY <1>2, <1>3, RunFacts
  <2> QED BY <1>2, <2>1, <2>2, <2>3, RunFacts, IdleInRange, OneRun DEF CreateLog, Set
<1> QED BY <1>1, <1>2 DEF CreateLog, OpenLog, Requesting

LEMMA TypeReceivePage ==
  ASSUME TypeInv, NEW r \in Runs, ReceivePage(r)
  PROVE  TypeInv'
<1> DEFINE got == PageSize(runs[r].day, runs[r].from)
           closing == [runs[r] EXCEPT !.pc = "close"]
           storing == Storing(runs[r], got)
<1>1. runs[r].pc = "request" /\ runs[r].from <= sizes[runs[r].day]
  BY RunFacts DEF ReceivePage, At, RunInRange, Counting
<1>2. got \in 0..Limit
  BY <1>1, RunFacts, PageIsBounded DEF Run
<1>3. CASE got = 0
  <2>1. closing \in Run /\ RunInRange(closing, sizes', DOMAIN logs')
    BY <1>1, RunFacts DEF ReceivePage, Run, Labels, RunInRange, Counting, Reporting
  <2> QED BY <1>3, <2>1, RunFacts, OneRun DEF ReceivePage, Goto
<1>4. CASE got # 0
  <2>1. /\ storing \in Run /\ storing.pc = "upsert" /\ storing.todo = got
        /\ storing.from = runs[r].from /\ storing.day = runs[r].day
        /\ storing.offset = runs[r].offset /\ storing.log = runs[r].log
    <3>1. runs[r] \in Run
      BY RunFacts
    <3> QED BY <1>2, <3>1, StoringRun
  <2>2. got = PageOf(sizes, runs[r].day, runs[r].from)
    BY DEF PageSize, PageOf
  <2>3. runs[r].offset >= 1 /\ runs[r].log \in DOMAIN logs
    BY <1>1, RunFacts DEF RunInRange, Reporting
  <2>4. RunInRange(storing, sizes', DOMAIN logs')
    <3> HIDE DEF storing, got
    <3> QED BY <1>1, <1>2, <1>4, <2>1, <2>2, <2>3, OrderSyncAssumption
            DEF ReceivePage, RunInRange
  <2>5. runs' = [runs EXCEPT ![r] = storing]
    BY <1>4 DEF ReceivePage, Set, Storing
  <2> HIDE DEF storing, got
  <2> QED BY <2>1, <2>4, <2>5, RunFacts, OneRun DEF ReceivePage
<1> QED BY <1>3, <1>4

LEMMA TypeFailRequest ==
  ASSUME TypeInv, NEW r \in Runs, FailRequest(r)
  PROVE  TypeInv'
<1> DEFINE failing  == [runs[r] EXCEPT !.pc = "fail"]
           retrying == [runs[r] EXCEPT !.attempt = @ + 1]
<1>1. runs[r].pc = "request"
  BY DEF FailRequest, At
<1>2. trouble' \in 0..MaxTrouble
  BY RunFacts, OrderSyncAssumption DEF FailRequest, Suffer, LostRun
<1>3. failing \in Run /\ RunInRange(failing, sizes', DOMAIN logs')
  BY <1>1, RunFacts DEF FailRequest, Run, Labels, RunInRange, Counting, Reporting
<1>4. CASE Set(r, retrying) /\ RetriesLeft(runs[r])
  <2>1. /\ retrying \in Run /\ retrying.pc = "request" /\ retrying.from = runs[r].from
        /\ retrying.day = runs[r].day /\ retrying.offset = runs[r].offset
        /\ retrying.log = runs[r].log
    <3>1. runs[r] \in Run
      BY RunFacts
    <3> QED BY <1>1, <1>4, <3>1, RetryingRun
  <2>2. RunInRange(retrying, sizes', DOMAIN logs')
    <3> HIDE DEF retrying
    <3> QED BY <1>1, <2>1, RunFacts DEF FailRequest, RunInRange, Counting, Reporting
  <2> QED BY <1>2, <1>4, <2>1, <2>2, RunFacts, OneRun DEF FailRequest, Set
<1>5. CASE Goto(r, "fail")
  BY <1>2, <1>3, <1>5, RunFacts, OneRun DEF FailRequest, Goto
<1> QED BY <1>4, <1>5 DEF FailRequest

LEMMA UpsertFacts ==
  ASSUME TypeInv, NEW r \in Runs, UpsertOrder(r)
  PROVE  \E said, stored \in BOOLEAN :
           /\ said => stored
           /\ runs' = [runs EXCEPT ![r] = Treated(runs[r], said)]
           /\ orders' = IF stored
                        THEN [orders EXCEPT ![runs[r].day] = @ \cup {NextOrder(runs[r])}]
                        ELSE orders
BY DEF UpsertOrder, Treated, NextOrder, Set

LEMMA PageFacts ==
  ASSUME TypeInv, NEW r \in Runs, runs[r].pc = "upsert"
  PROVE  /\ PageSize(runs[r].day, runs[r].from) \in 1..Limit
         /\ runs[r].from + PageSize(runs[r].day, runs[r].from) <= sizes[runs[r].day]
         /\ PageSize(runs[r].day, runs[r].from) < Limit
              => runs[r].from + PageSize(runs[r].day, runs[r].from) = sizes[runs[r].day]
         /\ runs[r].todo \in 1..PageSize(runs[r].day, runs[r].from)
         /\ NextOrder(runs[r]) \in 1..sizes[runs[r].day]
<1>1. runs[r].from <= sizes[runs[r].day] /\ runs[r].todo \in 1..PageSize(runs[r].day, runs[r].from)
  BY RunFacts DEF RunInRange, Counting, PageOf, PageSize
<1>2. runs[r].day \in ClosedDays /\ runs[r].from \in Nat /\ sizes[runs[r].day] \in Nat
  BY RunFacts DEF Run
<1> QED BY <1>1, <1>2, PageIsBounded, OrderSyncAssumption DEF NextOrder

LEMMA TypeUpsertOrder ==
  ASSUME TypeInv, NEW r \in Runs, UpsertOrder(r)
  PROVE  TypeInv'
<1> DEFINE got == PageSize(runs[r].day, runs[r].from)
<1>1. runs[r].pc = "upsert"
  BY DEF UpsertOrder, At
<1>2. PICK said \in BOOLEAN, stored \in BOOLEAN :
        /\ runs' = [runs EXCEPT ![r] = Treated(runs[r], said)]
        /\ orders' = IF stored
                     THEN [orders EXCEPT ![runs[r].day] = @ \cup {NextOrder(runs[r])}]
                     ELSE orders
  BY UpsertFacts
<1>3. got \in 1..Limit /\ runs[r].todo \in 1..got /\ runs[r].from + got <= sizes[runs[r].day]
  BY <1>1, PageFacts
<1> DEFINE treated == Treated(runs[r], said)
<1>4. /\ treated \in Run /\ treated.log = runs[r].log /\ treated.day = runs[r].day
      /\ treated.offset = runs[r].offset
      /\ \/ /\ treated.from = runs[r].from + got
            /\ treated.pc \in {"close", "request"}
         \/ /\ runs[r].todo # 1 /\ treated.from = runs[r].from
            /\ treated.todo = runs[r].todo - 1 /\ treated.pc = "upsert"
  BY <1>1, <1>3, RunFacts, TreatedRun, OrderSyncAssumption
<1> HIDE DEF treated
<1>5. got = PageOf(sizes, runs[r].day, runs[r].from)
  BY DEF PageSize, PageOf
<1>6. /\ runs[r].offset >= 1 /\ runs[r].log \in DOMAIN logs /\ runs[r].from <= sizes[runs[r].day]
      /\ runs[r].todo \in Nat
  BY <1>1, RunFacts DEF RunInRange, Counting, Reporting, Run
<1>7. treated \in Run /\ RunInRange(treated, sizes', DOMAIN logs')
  <2>1. UNCHANGED <<sizes, logs>>
    BY DEF UpsertOrder
  <2> HIDE DEF got
  <2> QED BY <1>3, <1>4, <1>5, <1>6, <2>1 DEF RunInRange, Counting, Reporting
<1>8. DOMAIN orders' = ClosedDays /\ \A d \in ClosedDays : orders'[d] \subseteq 1..sizes[d]
  BY <1>1, <1>2, PageFacts, RunFacts
<1> QED BY <1>2, <1>7, <1>8, RunFacts, OneRun DEF UpsertOrder, treated

LEMMA ReportIsTyped ==
  ASSUME TypeInv, NEW r \in Runs, NEW status \in Statuses, runs[r].pc \in Reporting,
         UpdateLog(runs[r], status)
  PROVE  logs' \in Seq(LogRow) /\ DOMAIN logs' = DOMAIN logs
<1> DEFINE row == [day |-> runs[r].day, status |-> status, fetched |-> runs[r].fetched,
                   synced |-> runs[r].synced, failed |-> runs[r].failed]
<1>1. row \in LogRow
  BY RunFacts DEF LogRow, Run
<1>2. runs[r].log \in 1..Len(logs)
  BY RunFacts DEF RunInRange
<1> QED BY <1>1, <1>2, RunFacts, ExceptSeq DEF UpdateLog

LEMMA TypeCloseDay ==
  ASSUME TypeInv, NEW r \in Runs, CloseDay(r)
  PROVE  TypeInv'
<1> DEFINE status == Verdict(runs[r])
           failing == [runs[r] EXCEPT !.pc = "fail"]
<1>1. runs[r].pc = "close"
  BY DEF CloseDay, At
<1>4. UpdateLog(runs[r], status) => logs' \in Seq(LogRow) /\ DOMAIN logs' = DOMAIN logs
  BY <1>1, ReportIsTyped DEF Statuses, Reporting, Verdict
<1>2. CASE UpdateLog(runs[r], status) /\ Set(r, NextDay(runs[r])) /\ UNCHANGED trouble
  <2>1. logs' \in Seq(LogRow) /\ DOMAIN logs' = DOMAIN logs
    BY <1>2, <1>4
  <2>2. NextDay(runs[r]) \in Run /\ RunInRange(NextDay(runs[r]), sizes, DOMAIN logs)
    BY RunFacts, NextDayInRange
  <2>3. RunInRange(NextDay(runs[r]), sizes', DOMAIN logs')
    BY <2>2
    DEF CloseDay, RunInRange, NextDay, StartDay, Idle, Counting, Reporting
  <2> QED BY <1>2, <2>1, <2>2, <2>3, RunFacts, OneRun DEF CloseDay, Set
<1>3. CASE Suffer(LostRun) /\ Goto(r, "fail") /\ (UpdateLog(runs[r], status) \/ UNCHANGED logs)
  <2>0. logs' \in Seq(LogRow) /\ DOMAIN logs' = DOMAIN logs
    BY <1>3, <1>4, RunFacts
  <2>1. failing \in Run /\ RunInRange(failing, sizes', DOMAIN logs')
    BY <1>1, <2>0, RunFacts DEF CloseDay, Run, Labels, RunInRange, Counting, Reporting
  <2>2. trouble' \in 0..MaxTrouble
    BY <1>3, RunFacts, OrderSyncAssumption DEF Suffer, LostRun
  <2> QED BY <1>3, <2>0, <2>1, <2>2, RunFacts, OneRun DEF CloseDay, Goto
<1> QED BY <1>2, <1>3 DEF CloseDay

LEMMA TypeFailDay ==
  ASSUME TypeInv, NEW r \in Runs, FailDay(r)
  PROVE  TypeInv'
<1>1. runs[r].pc \in Reporting
  BY DEF FailDay, At, Reporting
<1>2. logs' \in Seq(LogRow) /\ DOMAIN logs' = DOMAIN logs
  BY <1>1, RunFacts, ReportIsTyped DEF FailDay, Statuses
<1>3. RunInRange(Idle, sizes', DOMAIN logs')
  BY DEF RunInRange, Idle, Counting, Reporting
<1> QED BY <1>2, <1>3, IdleInRange, RunFacts, OneRun DEF FailDay, Set

LEMMA TypeMissFire ==
  ASSUME TypeInv, MissFire
  PROVE  TypeInv'
<1>1. fired' \in 0..RunsPerDay /\ trouble' \in 0..MaxTrouble
  BY OrderSyncAssumption DEF TypeInv, TypeOK, MissFire, Suffer, LostRun
<1>2. UNCHANGED <<ClosedDays, Run, LogRow>>
  BY DEF MissFire, ClosedDays, Run, LogRow
<1>3. TypeOK'
  BY <1>1, <1>2 DEF TypeInv, TypeOK, MissFire
<1>4. \A r \in Runs : RunInRange(runs'[r], sizes', DOMAIN logs')
  BY DEF TypeInv, MissFire
<1> QED BY <1>3, <1>4 DEF TypeInv, MissFire

LEMMA TypeCrash ==
  ASSUME TypeInv, Crash
  PROVE  TypeInv'
<1>1. Cardinality(Busy) \in Nat
  BY RunsAssumption, FS_Subset, FS_CardinalityType DEF Busy
<1>2. LostRun * Cardinality(Busy) \in Nat
  BY <1>1, OrderSyncAssumption DEF LostRun
<1>3. trouble' \in 0..MaxTrouble
  BY <1>2, OrderSyncAssumption DEF TypeInv, TypeOK, Crash, Suffer
<1>4. UNCHANGED <<ClosedDays, Run, LogRow>>
  BY DEF Crash, ClosedDays, Run, LogRow
<1>5. TypeOK'
  BY <1>3, <1>4, IdleInRange DEF TypeInv, TypeOK, Crash
<1>6. \A r \in Runs : RunInRange(runs'[r], sizes', DOMAIN logs')
  BY DEF Crash, RunInRange, Idle, Counting, Reporting
<1> QED BY <1>5, <1>6 DEF TypeInv, Crash

(* Midnight closes a day; the days that were closed keep their orders.     *)
LEMMA MidnightFacts ==
  ASSUME TypeInv, Midnight
  PROVE  /\ ClosedDays' = 0..today /\ ClosedDays \subseteq ClosedDays' /\ today \in ClosedDays'
         /\ \A d \in ClosedDays' : d = today \/ d \in ClosedDays
         /\ \A d \in ClosedDays : d # today
         /\ \A d \in ClosedDays : sizes'[d] = sizes[d] /\ orders'[d] = orders[d]
         /\ sizes'[today] \in Sizes /\ orders'[today] = {}
         /\ DOMAIN sizes' = ClosedDays' /\ DOMAIN orders' = ClosedDays'
<1>1. today \in Nat /\ today' = today + 1
  BY DEF TypeInv, TypeOK, Midnight
<1>2. ClosedDays' = 0..today /\ ClosedDays = 0..today - 1
  BY <1>1 DEF ClosedDays
<1>3. PICK n \in Sizes : sizes' = [d \in 0..today |-> IF d = today THEN n ELSE sizes[d]]
  BY DEF Midnight
<1>4. orders' = [d \in 0..today |-> IF d = today THEN {} ELSE orders[d]]
  BY DEF Midnight
<1> QED BY <1>1, <1>2, <1>3, <1>4

LEMMA TypeMidnight ==
  ASSUME TypeInv, Midnight
  PROVE  TypeInv'
<1>1. today' \in Nat /\ today' >= LookbackDays /\ fired' \in 0..RunsPerDay
  BY LookbackIsPositive, OrderSyncAssumption DEF TypeInv, TypeOK, Midnight
<1>2. sizes' \in [ClosedDays' -> Sizes]
  <2>1. PICK n \in Sizes : sizes' = [d \in 0..today |-> IF d = today THEN n ELSE sizes[d]]
    BY DEF Midnight
  <2>2. \A d \in 0..today : d = today \/ sizes[d] \in Sizes
    BY MidnightFacts DEF TypeInv, TypeOK
  <2> QED BY <2>1, <2>2, MidnightFacts
<1>3. \A d \in ClosedDays' : orders'[d] \subseteq 1..sizes'[d]
  BY MidnightFacts DEF TypeInv, TypeOK
<1>4. Run \subseteq Run' /\ LogRow \subseteq LogRow'
  BY MidnightFacts DEF Run, LogRow
<1>5. logs' \in Seq(LogRow') /\ runs' \in [Runs -> Run']
  BY <1>4, SeqMonotonic DEF TypeInv, TypeOK, Midnight
<1>6. TypeOK'
  BY <1>1, <1>2, <1>3, <1>5, MidnightFacts DEF TypeInv, TypeOK, Midnight
<1>7. ASSUME NEW r \in Runs PROVE RunInRange(runs'[r], sizes', DOMAIN logs')
  <2>1. runs'[r] = runs[r] /\ logs' = logs /\ sizes'[runs[r].day] = sizes[runs[r].day]
    BY MidnightFacts, RunFacts DEF Midnight, Run
  <2> QED BY <2>1, RunFacts DEF RunInRange, PageOf
<1> QED BY <1>1, <1>6, <1>7 DEF TypeInv

LEMMA TypeStep == TypeInv /\ [Next]_vars => TypeInv'
<1> SUFFICES ASSUME TypeInv, [Next]_vars PROVE TypeInv'
  OBVIOUS
<1>1. CASE UNCHANGED vars
  BY <1>1 DEF vars, TypeInv, TypeOK, RunInRange, ClosedDays, Run, LogRow, PageOf
<1>2. ASSUME NEW r \in Runs,
             \/ Fire(r) \/ CreateLog(r) \/ ReceivePage(r) \/ FailRequest(r)
             \/ UpsertOrder(r) \/ CloseDay(r) \/ FailDay(r)
      PROVE  TypeInv'
  BY <1>2, TypeFire, TypeCreateLog, TypeReceivePage, TypeFailRequest, TypeUpsertOrder,
     TypeCloseDay, TypeFailDay
<1> QED BY <1>1, <1>2, TypeMissFire, TypeCrash, TypeMidnight DEF Next

LEMMA AlwaysTyped == Spec => []TypeInv
BY TypeInit, TypeStep, PTL DEF Spec

(* The tables hold well-formed rows, and every row and every run is about  *)
(* a day that is closed, for any lookback and any finite set of runs,      *)
(* whatever midnights pass (syncYangoOrders, getClosedUtcDayWindow).       *)
THEOREM TypeCorrect == Spec => []TypeOK
<1>1. TypeInv => TypeOK
  BY DEF TypeInv
<1> QED BY <1>1, AlwaysTyped, PTL

(***************************************************************************)
(* What the log says.  A run's counters agree with what it stored of the   *)
(* part of its day it has treated; a run that closes has treated all of it.*)
(***************************************************************************)
DoneOf(run, ss) ==
  IF run.pc = "upsert" THEN run.from + PageOf(ss, run.day, run.from) - run.todo ELSE run.from
SeenOf(run, ss) ==
  IF run.pc = "upsert" THEN run.from + PageOf(ss, run.day, run.from) ELSE run.from

Tallies(synced, failed, done, stored) ==
  /\ synced + failed = done
  /\ synced <= Cardinality(stored \cap 1..done)
  /\ failed = 0 => 1..done \subseteq stored

RunIsTrue(run, ss, os) ==
  run.pc \in Counting =>
    /\ Tallies(run.synced, run.failed, DoneOf(run, ss), os[run.day])
    /\ run.fetched = SeenOf(run, ss)
    /\ run.pc = "close" => run.from = ss[run.day]

RowIsTrue(row, ss, os) ==
  Complete(row) =>
    /\ row.fetched = ss[row.day]
    /\ row.fetched = row.synced + row.failed
    /\ row.synced <= Cardinality(os[row.day])
    /\ row.status = "SUCCESS" => os[row.day] = 1..ss[row.day]

LogInv ==
  /\ TypeInv
  /\ \A r \in Runs : RunIsTrue(runs[r], sizes, orders)
  /\ \A i \in DOMAIN logs : RowIsTrue(logs[i], sizes, orders)

(* Counting what is stored.                                                *)
LEMMA CapIsFinite ==
  ASSUME NEW S, NEW n \in Nat
  PROVE  IsFiniteSet(S \cap 1..n) /\ Cardinality(S \cap 1..n) \in Nat
<1>1. IsFiniteSet(1..n) /\ S \cap 1..n \subseteq 1..n
  BY FS_Interval
<1> QED BY <1>1, FS_Subset, FS_CardinalityType

LEMMA TalliesGrow ==
  ASSUME NEW synced \in Nat, NEW failed \in Nat, NEW n \in Nat, NEW S, NEW T,
         S \subseteq T, Tallies(synced, failed, n, S)
  PROVE  Tallies(synced, failed, n, T)
<1>1. IsFiniteSet(T \cap 1..n) /\ Cardinality(T \cap 1..n) \in Nat /\ Cardinality(S \cap 1..n) \in Nat
  BY CapIsFinite
<1>2. S \cap 1..n \subseteq T \cap 1..n
  OBVIOUS
<1>3. Cardinality(S \cap 1..n) <= Cardinality(T \cap 1..n)
  BY <1>1, <1>2, FS_Subset
<1> QED BY <1>1, <1>3 DEF Tallies

LEMMA TallyStored ==
  ASSUME NEW synced \in Nat, NEW failed \in Nat, NEW n \in Nat, NEW S,
         Tallies(synced, failed, n, S)
  PROVE  Tallies(synced + 1, failed, n + 1, S \cup {n + 1})
<1> DEFINE old == S \cap 1..n
           new == (S \cup {n + 1}) \cap 1..n + 1
<1>0. n + 1 \notin old
  OBVIOUS
<1>1. IsFiniteSet(old) /\ Cardinality(old) \in Nat
  BY CapIsFinite
<1>2. new = old \cup {n + 1}
  OBVIOUS
<1>3. Cardinality(new) = Cardinality(old) + 1
  BY <1>0, <1>1, <1>2, FS_AddElement
<1>4. synced <= Cardinality(old) /\ synced + failed = n
  BY DEF Tallies
<1>5. failed = 0 => 1..n + 1 \subseteq S \cup {n + 1}
  BY DEF Tallies
<1> HIDE DEF old
<1>6. synced + 1 <= Cardinality(new) /\ synced + 1 + failed = n + 1
  BY <1>1, <1>3, <1>4
<1> QED BY <1>5, <1>6 DEF Tallies

LEMMA TallyFailed ==
  ASSUME NEW synced \in Nat, NEW failed \in Nat, NEW n \in Nat, NEW S,
         Tallies(synced, failed, n, S)
  PROVE  Tallies(synced, failed + 1, n + 1, S)
<1> DEFINE old == S \cap 1..n
           new == S \cap 1..n + 1
<1>0. n + 1 \in Nat
  OBVIOUS
<1>1. /\ IsFiniteSet(new) /\ Cardinality(new) \in Nat /\ Cardinality(old) \in Nat
  BY <1>0, CapIsFinite
<1>2. old \subseteq new
  OBVIOUS
<1>3. Cardinality(old) <= Cardinality(new)
  BY <1>1, <1>2, FS_Subset
<1>4. synced <= Cardinality(old) /\ synced + failed = n
  BY DEF Tallies
<1> HIDE DEF old
<1>5. synced <= Cardinality(new)
  BY <1>1, <1>3, <1>4
<1> HIDE DEF new
<1>6. synced + (failed + 1) = n + 1 /\ failed + 1 # 0
  BY <1>4
<1> QED BY <1>5, <1>6 DEF Tallies, new

LEMMA NothingTallied == Tallies(0, 0, 0, {}) /\ \A S : Tallies(0, 0, 0, S)
<1>1. \A S : Cardinality(S \cap 1..0) \in Nat
  BY CapIsFinite
<1> QED BY <1>1 DEF Tallies

(* Storing more, or closing another day, keeps what is true.               *)
LEMMA RunStaysTrue ==
  ASSUME NEW ss, NEW os, NEW tt, NEW pp, NEW run, run.synced \in Nat, run.failed \in Nat,
         DoneOf(run, ss) \in Nat, RunIsTrue(run, ss, os),
         tt[run.day] = ss[run.day], os[run.day] \subseteq pp[run.day]
  PROVE  RunIsTrue(run, tt, pp)
<1>1. DoneOf(run, tt) = DoneOf(run, ss) /\ SeenOf(run, tt) = SeenOf(run, ss)
  BY DEF DoneOf, SeenOf, PageOf
<1> QED BY <1>1, TalliesGrow DEF RunIsTrue

LEMMA RowStaysTrue ==
  ASSUME NEW ss, NEW os, NEW tt, NEW pp, NEW row, row.synced \in Nat, ss[row.day] \in Nat,
         RowIsTrue(row, ss, os), tt[row.day] = ss[row.day],
         os[row.day] \subseteq pp[row.day], pp[row.day] \subseteq 1..ss[row.day]
  PROVE  RowIsTrue(row, tt, pp)
<1> DEFINE n == ss[row.day]
<1>1. IsFiniteSet(1..n)
  <2>1. 1 \in Int /\ n \in Int
    OBVIOUS
  <2> HIDE DEF n
  <2> QED BY <2>1, FS_Interval
<1>2. IsFiniteSet(pp[row.day])
  BY <1>1, FS_Subset
<1>3. /\ Cardinality(os[row.day]) <= Cardinality(pp[row.day])
      /\ Cardinality(pp[row.day]) \in Nat /\ Cardinality(os[row.day]) \in Nat
  BY <1>2, FS_Subset, FS_CardinalityType
<1>4. os[row.day] = 1..ss[row.day] => pp[row.day] = 1..ss[row.day]
  OBVIOUS
<1> QED BY <1>3, <1>4 DEF RowIsTrue, Complete

(* What the invariant says of one run and of one row.                      *)
LEMMA TrueRunFacts ==
  ASSUME LogInv, NEW r \in Runs
  PROVE  /\ RunIsTrue(runs[r], sizes, orders)
         /\ runs[r].day \in ClosedDays /\ runs[r].synced \in Nat /\ runs[r].failed \in Nat
         /\ runs[r].fetched \in Nat
         /\ runs[r].from \in Nat
         /\ runs[r].pc \in Counting => DoneOf(runs[r], sizes) \in Nat
<1>1. TypeInv
  BY DEF LogInv
<1>2. runs[r] \in Run
  BY <1>1, RunFacts
<1>3. CASE runs[r].pc = "upsert"
  <2>1. /\ PageOf(sizes, runs[r].day, runs[r].from) \in Nat
        /\ runs[r].todo \in 1..PageOf(sizes, runs[r].day, runs[r].from)
    BY <1>1, <1>3, PageFacts, OrderSyncAssumption DEF PageSize, PageOf
  <2> QED BY <1>2, <1>3, <2>1 DEF Run, DoneOf, LogInv
<1>4. CASE runs[r].pc # "upsert"
  BY <1>2, <1>4 DEF Run, DoneOf, LogInv
<1> QED BY <1>3, <1>4

LEMMA RowFacts ==
  ASSUME LogInv, NEW i \in DOMAIN logs
  PROVE  /\ RowIsTrue(logs[i], sizes, orders)
         /\ logs[i].day \in ClosedDays /\ logs[i].synced \in Nat /\ sizes[logs[i].day] \in Nat
<1>1. logs[i] \in LogRow
  BY ElementOfSeq, LenProperties DEF LogInv, TypeInv, TypeOK
<1>2. logs[i].day \in ClosedDays /\ logs[i].synced \in Nat
  BY <1>1 DEF LogRow
<1>3. sizes[logs[i].day] \in Nat
  BY <1>2, OrderSyncAssumption DEF LogInv, TypeInv, TypeOK
<1> QED BY <1>2, <1>3 DEF LogInv

(* The runs and rows a step leaves alone stay true when the closed days    *)
(* keep their sizes and lose no order.                                     *)
Growing(ss, os, tt, pp) ==
  \A d \in ClosedDays : tt[d] = ss[d] /\ os[d] \subseteq pp[d] /\ pp[d] \subseteq 1..ss[d]

LEMMA TruthIsKept ==
  ASSUME LogInv, NEW tt, NEW pp, Growing(sizes, orders, tt, pp)
  PROVE  /\ \A r \in Runs : RunIsTrue(runs[r], tt, pp)
         /\ \A i \in DOMAIN logs : RowIsTrue(logs[i], tt, pp)
<1>1. ASSUME NEW r \in Runs PROVE RunIsTrue(runs[r], tt, pp)
  <2>1. CASE runs[r].pc \in Counting
    BY <2>1, TrueRunFacts, RunStaysTrue DEF Growing
  <2>2. CASE runs[r].pc \notin Counting
    BY <2>2 DEF RunIsTrue
  <2> QED BY <2>1, <2>2
<1>2. ASSUME NEW i \in DOMAIN logs PROVE RowIsTrue(logs[i], tt, pp)
  BY RowFacts, RowStaysTrue DEF Growing
<1> QED BY <1>1, <1>2

(* What a step that replaces one run has to show.                          *)
LEMMA OneTrueRun ==
  ASSUME LogInv, TypeInv', NEW r \in Runs, NEW run, runs' = [runs EXCEPT ![r] = run],
         Growing(sizes, orders, sizes', orders'), RunIsTrue(run, sizes', orders'),
         \A i \in DOMAIN logs' : RowIsTrue(logs'[i], sizes', orders')
  PROVE  LogInv'
<1>1. ASSUME NEW q \in Runs PROVE RunIsTrue(runs'[q], sizes', orders')
  BY TruthIsKept DEF LogInv, TypeInv, TypeOK
<1> QED BY <1>1 DEF LogInv

LEMMA SameIsGrowing ==
  ASSUME LogInv
  PROVE  Growing(sizes, orders, sizes, orders)
BY DEF LogInv, TypeInv, TypeOK, Growing

LEMMA StartIsTrue ==
  ASSUME LogInv, NEW offset \in 1..LookbackDays, NEW ss, NEW os
  PROVE  RunIsTrue(StartDay(offset), ss, os)
<1>1. Idle \in Run /\ offset \in 0..LookbackDays /\ today - offset \in ClosedDays
  BY IdleInRange, LookbackIsPositive DEF LogInv, TypeInv, TypeOK, ClosedDays
<1>2. /\ StartDay(offset).pc = "create" /\ StartDay(offset).from = 0
      /\ StartDay(offset).synced = 0 /\ StartDay(offset).failed = 0
      /\ StartDay(offset).fetched = 0
  BY <1>1, StartedRun
<1> QED BY <1>2, NothingTallied DEF RunIsTrue, DoneOf, SeenOf

LEMMA IdleIsTrue ==
  ASSUME NEW ss, NEW os
  PROVE  RunIsTrue(Idle, ss, os)
BY DEF RunIsTrue, Idle, Counting

LEMMA LogInit == Init => LogInv
<1> SUFFICES ASSUME Init PROVE LogInv
  OBVIOUS
<1>1. \A r \in Runs : runs[r] = Idle
  BY DEF Init
<1>2. \A r \in Runs : RunIsTrue(runs[r], sizes, orders)
  BY <1>1, IdleIsTrue
<1>3. DOMAIN logs = {}
  BY DEF Init
<1> QED BY <1>2, <1>3, TypeInit DEF LogInv

LEMMA LogFire ==
  ASSUME LogInv, NEW r \in Runs, Fire(r)
  PROVE  LogInv'
<1>1. TypeInv'
  BY TypeFire DEF LogInv
<1>2. LookbackDays \in 1..LookbackDays
  BY LookbackIsPositive
<1>3. RunIsTrue(StartDay(LookbackDays), sizes', orders')
  BY <1>2, StartIsTrue
<1>4. Growing(sizes, orders, sizes', orders')
  BY SameIsGrowing DEF Fire
<1>5. \A i \in DOMAIN logs' : RowIsTrue(logs'[i], sizes', orders')
  BY TruthIsKept, SameIsGrowing DEF Fire
<1> QED BY <1>1, <1>3, <1>4, <1>5, OneTrueRun DEF Fire, Set

(* A run between two pages that changes nothing it has counted.            *)
LEMMA WaitingIsTrue ==
  ASSUME LogInv, NEW r \in Runs, NEW run, runs[r].pc \in {"create", "request"},
         run.pc = "request", run.from = runs[r].from, run.day = runs[r].day,
         run.synced = runs[r].synced, run.failed = runs[r].failed,
         run.fetched = runs[r].fetched
  PROVE  RunIsTrue(run, sizes, orders)
<1>1. /\ DoneOf(run, sizes) = runs[r].from /\ DoneOf(runs[r], sizes) = runs[r].from
      /\ SeenOf(run, sizes) = runs[r].from /\ SeenOf(runs[r], sizes) = runs[r].from
  BY DEF DoneOf, SeenOf
<1>2. RunIsTrue(runs[r], sizes, orders) /\ runs[r].pc \in Counting
  BY TrueRunFacts DEF Counting
<1> QED BY <1>1, <1>2 DEF RunIsTrue

LEMMA LogCreateLog ==
  ASSUME LogInv, NEW r \in Runs, CreateLog(r)
  PROVE  LogInv'
<1>1. TypeInv /\ TypeInv'
  BY TypeCreateLog DEF LogInv
<1>2. Growing(sizes, orders, sizes', orders')
  BY SameIsGrowing DEF CreateLog
<1>3. runs[r].pc = "create" /\ runs[r] \in Run
  BY <1>1, RunFacts DEF CreateLog, At
<1> DEFINE row == [day |-> runs[r].day, status |-> "RUNNING", fetched |-> 0,
                   synced |-> 0, failed |-> 0]
           run == Requesting(runs[r], Len(logs) + 1)
<1>6. ASSUME logs' = Append(logs, row), NEW i \in DOMAIN logs'
      PROVE  RowIsTrue(logs'[i], sizes', orders')
  <2>1. (i \in DOMAIN logs /\ logs'[i] = logs[i]) \/ logs'[i] = row
    BY <1>1, <1>6, RunFacts, AppendProperties
  <2>2. RowIsTrue(row, sizes', orders')
    BY DEF RowIsTrue, Complete
  <2>3. i \in DOMAIN logs => RowIsTrue(logs[i], sizes', orders')
    BY <1>2, TruthIsKept
  <2> QED BY <2>1, <2>2, <2>3
<1>4. CASE logs' = Append(logs, row) /\ Set(r, run)
  <2>1. Len(logs) + 1 \in Nat
    BY <1>1, RunFacts
  <2>2. /\ run.pc = "request" /\ run.from = runs[r].from /\ run.day = runs[r].day
        /\ run.synced = runs[r].synced /\ run.failed = runs[r].failed
        /\ run.fetched = runs[r].fetched
    <3> DEFINE log == Len(logs) + 1
    <3>1. log \in Nat /\ run = Requesting(runs[r], log) /\ runs[r] \in Run
      BY <1>3, <2>1
    <3> HIDE DEF run, log
    <3> QED BY <3>1, RequestingRun
  <2>3. runs' = [runs EXCEPT ![r] = run]
    BY <1>4 DEF Set
  <2> HIDE DEF run
  <2>4. RunIsTrue(run, sizes', orders')
    BY <1>3, <2>2, WaitingIsTrue DEF CreateLog
  <2>5. \A i \in DOMAIN logs' : RowIsTrue(logs'[i], sizes', orders')
    <3> HIDE DEF row
    <3> QED BY <1>4, <1>6
  <2> QED BY <1>1, <1>2, <2>3, <2>4, <2>5, OneTrueRun
<1>5. CASE Set(r, Idle) /\ (logs' = Append(logs, row) \/ UNCHANGED logs)
  <2>1. \A i \in DOMAIN logs' : RowIsTrue(logs'[i], sizes', orders')
    <3> HIDE DEF row
    <3> QED BY <1>2, <1>5, <1>6, TruthIsKept
  <2> QED BY <1>1, <1>2, <1>5, <2>1, IdleIsTrue, OneTrueRun DEF Set
<1> QED BY <1>4, <1>5 DEF CreateLog, OpenLog, Requesting

LEMMA LogReceivePage ==
  ASSUME LogInv, NEW r \in Runs, ReceivePage(r)
  PROVE  LogInv'
<1>1. TypeInv /\ TypeInv'
  BY TypeReceivePage DEF LogInv
<1>2. /\ Growing(sizes, orders, sizes', orders')
      /\ \A i \in DOMAIN logs' : RowIsTrue(logs'[i], sizes', orders')
  BY SameIsGrowing, TruthIsKept DEF ReceivePage
<1> DEFINE got == PageSize(runs[r].day, runs[r].from)
           closing == [runs[r] EXCEPT !.pc = "close"]
           storing == Storing(runs[r], got)
<1>3. runs[r].pc = "request" /\ runs[r] \in Run /\ runs[r].from <= sizes[runs[r].day]
  BY <1>1, RunFacts DEF ReceivePage, At, RunInRange, Counting
<1>4. /\ got \in 0..Limit /\ sizes[runs[r].day] \in Nat
      /\ got < Limit => runs[r].from + got = sizes[runs[r].day]
      /\ got = PageOf(sizes, runs[r].day, runs[r].from)
  BY <1>1, <1>3, RunFacts, PageIsBounded DEF Run, PageSize, PageOf
<1>5. CASE got = 0
  <2>1. /\ closing.pc = "close" /\ closing.from = runs[r].from /\ closing.day = runs[r].day
        /\ closing.synced = runs[r].synced /\ closing.failed = runs[r].failed
        /\ closing.fetched = runs[r].fetched
    BY <1>3 DEF Run
  <2>2. runs' = [runs EXCEPT ![r] = closing]
    BY <1>5 DEF ReceivePage, Goto
  <2>3. runs[r].from = sizes[runs[r].day]
    <3> HIDE DEF got
    <3> QED BY <1>4, <1>5, TrueRunFacts, OrderSyncAssumption
  <2> HIDE DEF closing
  <2>4. RunIsTrue(closing, sizes', orders')
    BY <1>3, <2>1, <2>3, TrueRunFacts
    DEF ReceivePage, RunIsTrue, DoneOf, SeenOf, Counting
  <2> QED BY <1>1, <1>2, <2>2, <2>4, OneTrueRun
<1>6. CASE got # 0
  <2>1. /\ storing.pc = "upsert" /\ storing.todo = got
        /\ storing.from = runs[r].from /\ storing.day = runs[r].day
        /\ storing.synced = runs[r].synced /\ storing.failed = runs[r].failed
        /\ storing.fetched = runs[r].fetched + got
    BY <1>3, <1>4, StoringRun
  <2>2. runs' = [runs EXCEPT ![r] = storing]
    BY <1>6 DEF ReceivePage, Set, Storing
  <2> HIDE DEF storing
  <2>3. /\ DoneOf(storing, sizes') = runs[r].from
        /\ SeenOf(storing, sizes') = runs[r].from + got
    <3> HIDE DEF got
    <3> QED BY <1>4, <2>1, TrueRunFacts DEF ReceivePage, DoneOf, SeenOf
  <2> HIDE DEF got
  <2>4. RunIsTrue(storing, sizes', orders')
    BY <1>3, <2>1, <2>3, TrueRunFacts
    DEF ReceivePage, RunIsTrue, DoneOf, SeenOf, Counting
  <2> QED BY <1>1, <1>2, <2>2, <2>4, OneTrueRun
<1> QED BY <1>5, <1>6

LEMMA LogFailRequest ==
  ASSUME LogInv, NEW r \in Runs, FailRequest(r)
  PROVE  LogInv'
<1>1. TypeInv /\ TypeInv'
  BY TypeFailRequest DEF LogInv
<1>2. /\ Growing(sizes, orders, sizes', orders')
      /\ \A i \in DOMAIN logs' : RowIsTrue(logs'[i], sizes', orders')
  BY SameIsGrowing, TruthIsKept DEF FailRequest
<1>3. runs[r].pc = "request" /\ runs[r] \in Run
  BY <1>1, RunFacts DEF FailRequest, At
<1> DEFINE failing  == [runs[r] EXCEPT !.pc = "fail"]
           retrying == [runs[r] EXCEPT !.attempt = @ + 1]
<1>4. CASE Set(r, retrying) /\ RetriesLeft(runs[r])
  <2>1. /\ retrying.pc = "request" /\ retrying.from = runs[r].from
        /\ retrying.day = runs[r].day /\ retrying.synced = runs[r].synced
        /\ retrying.failed = runs[r].failed /\ retrying.fetched = runs[r].fetched
    BY <1>3, <1>4, RetryingRun
  <2>2. runs' = [runs EXCEPT ![r] = retrying]
    BY <1>4 DEF Set
  <2> HIDE DEF retrying
  <2>3. RunIsTrue(retrying, sizes', orders')
    BY <1>3, <2>1, WaitingIsTrue DEF FailRequest
  <2> QED BY <1>1, <1>2, <2>2, <2>3, OneTrueRun
<1>5. CASE Goto(r, "fail")
  <2>1. failing.pc = "fail" /\ runs' = [runs EXCEPT ![r] = failing]
    BY <1>3, <1>5 DEF Run, Goto
  <2>2. RunIsTrue(failing, sizes', orders')
    BY <2>1 DEF RunIsTrue, Counting
  <2> QED BY <1>1, <1>2, <2>1, <2>2, OneTrueRun
<1> QED BY <1>4, <1>5 DEF FailRequest

LEMMA LogUpsertOrder ==
  ASSUME LogInv, NEW r \in Runs, UpsertOrder(r)
  PROVE  LogInv'
<1>1. TypeInv /\ TypeInv'
  BY TypeUpsertOrder DEF LogInv
<1> DEFINE day  == runs[r].day
           got  == PageSize(day, runs[r].from)
           done == DoneOf(runs[r], sizes)
<1>2. runs[r].pc = "upsert" /\ runs[r] \in Run /\ day \in ClosedDays /\ UNCHANGED <<sizes, logs>>
  BY <1>1, RunFacts DEF UpsertOrder, At, Run
<1>3. /\ got \in 1..Limit /\ runs[r].todo \in 1..got
      /\ got < Limit => runs[r].from + got = sizes[day]
      /\ got = PageOf(sizes, day, runs[r].from)
  BY <1>1, <1>2, PageFacts DEF PageSize, PageOf
<1>4. PICK said \in BOOLEAN, stored \in BOOLEAN :
        /\ said => stored
        /\ runs' = [runs EXCEPT ![r] = Treated(runs[r], said)]
        /\ orders' = IF stored THEN [orders EXCEPT ![day] = @ \cup {NextOrder(runs[r])}]
                     ELSE orders
  BY <1>1, UpsertFacts
<1>5. /\ done \in Nat /\ done = runs[r].from + got - runs[r].todo
      /\ NextOrder(runs[r]) = done + 1
  BY <1>2, <1>3, TrueRunFacts DEF DoneOf, NextOrder, Counting, PageSize, PageOf
<1>6. orders'[day] = IF stored THEN orders[day] \cup {done + 1} ELSE orders[day]
  BY <1>1, <1>2, <1>4, <1>5 DEF TypeInv, TypeOK
<1>7. Growing(sizes, orders, sizes', orders')
  <2>1. \A d \in ClosedDays : orders'[d] \subseteq 1..sizes[d]
    BY <1>1, <1>2 DEF TypeInv, TypeOK, ClosedDays, UpsertOrder
  <2>2. \A d \in ClosedDays : orders[d] \subseteq orders'[d]
    BY <1>1, <1>2, <1>4 DEF TypeInv, TypeOK
  <2> QED BY <1>2, <2>1, <2>2 DEF Growing
<1> DEFINE s == Treated(runs[r], said)
<1>8. /\ s.day = day /\ s.fetched = runs[r].fetched
      /\ s.synced = (IF said THEN runs[r].synced + 1 ELSE runs[r].synced)
      /\ s.failed = (IF said THEN runs[r].failed ELSE runs[r].failed + 1)
      /\ \/ /\ runs[r].todo = 1 /\ s.from = runs[r].from + got
            /\ s.pc = (IF got < Limit THEN "close" ELSE "request")
         \/ /\ runs[r].todo # 1 /\ s.from = runs[r].from /\ s.todo = runs[r].todo - 1
            /\ s.pc = runs[r].pc
  BY <1>2, <1>3, TreatedRun, OrderSyncAssumption DEF Run
<1> HIDE DEF s, got
<1>9. /\ DoneOf(s, sizes') = done + 1 /\ SeenOf(s, sizes') = SeenOf(runs[r], sizes)
      /\ s.pc = "close" => s.from = sizes'[day]
  BY <1>2, <1>3, <1>5, <1>8, TrueRunFacts DEF DoneOf, SeenOf
<1> HIDE DEF done
<1>10. Tallies(s.synced, s.failed, done + 1, orders'[day])
  <2>1. /\ runs[r].synced \in Nat /\ runs[r].failed \in Nat
        /\ Tallies(runs[r].synced, runs[r].failed, done, orders[day])
    BY <1>2, TrueRunFacts DEF RunIsTrue, Counting, done
  <2>2. CASE said
    BY <1>4, <1>5, <1>6, <1>8, <2>1, <2>2, TallyStored
  <2>3. CASE ~said
    <3>1. orders[day] \subseteq orders'[day]
      BY <1>6
    <3>2. Tallies(runs[r].synced, runs[r].failed + 1, done + 1, orders[day])
      BY <1>5, <2>1, TallyFailed
    <3>3. runs[r].failed + 1 \in Nat /\ done + 1 \in Nat
      BY <1>5, <2>1
    <3>4. Tallies(runs[r].synced, runs[r].failed + 1, done + 1, orders'[day])
      BY <2>1, <3>1, <3>2, <3>3, TalliesGrow
    <3> QED BY <1>8, <2>3, <3>4
  <2> QED BY <2>2, <2>3
<1>11. RunIsTrue(s, sizes', orders')
  <2>1. runs[r].fetched = SeenOf(runs[r], sizes)
    BY <1>2, TrueRunFacts DEF RunIsTrue, Counting
  <2> QED BY <1>8, <1>9, <1>10, <2>1 DEF RunIsTrue
<1>12. \A i \in DOMAIN logs' : RowIsTrue(logs'[i], sizes', orders')
  BY <1>2, <1>7, TruthIsKept
<1> QED BY <1>1, <1>4, <1>7, <1>11, <1>12, OneTrueRun DEF s

(* The step that closes a day writes what the run has counted of it.       *)
LEMMA LogCloseDay ==
  ASSUME LogInv, NEW r \in Runs, CloseDay(r)
  PROVE  LogInv'
<1>1. TypeInv /\ TypeInv'
  BY TypeCloseDay DEF LogInv
<1>2. Growing(sizes, orders, sizes', orders') /\ UNCHANGED <<sizes, orders>>
  BY SameIsGrowing DEF CloseDay
<1>3. runs[r].pc = "close" /\ runs[r] \in Run /\ runs[r].log \in DOMAIN logs
  BY <1>1, RunFacts DEF CloseDay, At, RunInRange, Reporting
<1> DEFINE day    == runs[r].day
           status == Verdict(runs[r])
           row    == [day |-> day, status |-> status, fetched |-> runs[r].fetched,
                      synced |-> runs[r].synced, failed |-> runs[r].failed]
           failing == [runs[r] EXCEPT !.pc = "fail"]
<1>6. RowIsTrue(row, sizes, orders)
  <2>1. /\ Tallies(runs[r].synced, runs[r].failed, sizes[day], orders[day])
        /\ runs[r].fetched = sizes[day]
    BY <1>3, TrueRunFacts DEF RunIsTrue, DoneOf, SeenOf, Counting
  <2>2. orders[day] \cap 1..sizes[day] = orders[day]
    BY <1>1, <1>3 DEF TypeInv, TypeOK, Run
  <2>3. runs[r].failed > 0 \/ runs[r].failed = 0
    BY TrueRunFacts
  <2>4. /\ row.day = day /\ row.fetched = sizes[day]
        /\ row.fetched = row.synced + row.failed
        /\ row.synced <= Cardinality(orders[day])
    BY <2>1, <2>2 DEF Tallies
  <2>5. row.status = "SUCCESS" => orders[day] = 1..sizes[day]
    BY <2>1, <2>2, <2>3 DEF Tallies, Verdict
  <2> QED BY <2>4, <2>5 DEF RowIsTrue
<1>7. ASSUME UpdateLog(runs[r], status) \/ UNCHANGED logs, NEW i \in DOMAIN logs'
      PROVE  RowIsTrue(logs'[i], sizes', orders')
  <2>1. i \in DOMAIN logs /\ (logs'[i] = logs[i] \/ logs'[i] = row)
    BY <1>1, <1>3, <1>7, RunFacts DEF UpdateLog
  <2> HIDE DEF row
  <2> QED BY <1>2, <1>6, <2>1, TruthIsKept
<1>8. /\ UpdateLog(runs[r], status) \/ UNCHANGED logs
      /\ Set(r, NextDay(runs[r])) \/ Goto(r, "fail")
  BY DEF CloseDay
<1>9. \A i \in DOMAIN logs' : RowIsTrue(logs'[i], sizes', orders')
  <2> HIDE DEF status
  <2> QED BY <1>7, <1>8
<1>4. CASE Set(r, NextDay(runs[r]))
  <2>1. RunIsTrue(NextDay(runs[r]), sizes', orders')
    <3>1. CASE runs[r].offset > 1
      <4>1. runs[r].offset - 1 \in 1..LookbackDays
        BY <1>3, <3>1, LookbackIsPositive DEF Run
      <4> QED BY <3>1, <4>1, StartIsTrue DEF NextDay
    <3>2. CASE ~(runs[r].offset > 1)
      BY <3>2, IdleIsTrue DEF NextDay
    <3> QED BY <3>1, <3>2
  <2> QED BY <1>1, <1>2, <1>4, <1>9, <2>1, OneTrueRun DEF Set
<1>5. CASE Goto(r, "fail")
  <2>1. failing.pc = "fail" /\ runs' = [runs EXCEPT ![r] = failing]
    BY <1>3, <1>5 DEF Run, Goto
  <2>2. RunIsTrue(failing, sizes', orders')
    BY <2>1 DEF RunIsTrue, Counting
  <2> QED BY <1>1, <1>2, <1>9, <2>1, <2>2, OneTrueRun
<1> QED BY <1>4, <1>5, <1>8

LEMMA LogFailDay ==
  ASSUME LogInv, NEW r \in Runs, FailDay(r)
  PROVE  LogInv'
<1>1. TypeInv /\ TypeInv'
  BY TypeFailDay DEF LogInv
<1>2. Growing(sizes, orders, sizes', orders') /\ UNCHANGED <<sizes, orders>>
  BY SameIsGrowing DEF FailDay
<1>3. runs[r].log \in DOMAIN logs
  BY <1>1, RunFacts DEF FailDay, At, RunInRange, Reporting
<1>4. ASSUME NEW i \in DOMAIN logs' PROVE RowIsTrue(logs'[i], sizes', orders')
  <2>1. i \in DOMAIN logs /\ (logs'[i] = logs[i] \/ logs'[i].status = "FAIL")
    BY <1>1, <1>3, <1>4, RunFacts DEF FailDay, UpdateLog
  <2> QED BY <1>2, <2>1, TruthIsKept DEF RowIsTrue, Complete
<1> QED BY <1>1, <1>2, <1>4, IdleIsTrue, OneTrueRun DEF FailDay, Set

LEMMA LogMissFire ==
  ASSUME LogInv, MissFire
  PROVE  LogInv'
<1>1. TypeInv'
  BY TypeMissFire DEF LogInv
<1> QED BY <1>1, SameIsGrowing, TruthIsKept DEF MissFire, LogInv

LEMMA LogCrash ==
  ASSUME LogInv, Crash
  PROVE  LogInv'
<1>1. TypeInv'
  BY TypeCrash DEF LogInv
<1>2. \A r \in Runs : RunIsTrue(runs'[r], sizes', orders')
  BY IdleIsTrue DEF Crash
<1> QED BY <1>1, <1>2, SameIsGrowing, TruthIsKept DEF Crash, LogInv

LEMMA LogMidnight ==
  ASSUME LogInv, Midnight
  PROVE  LogInv'
<1>1. TypeInv /\ TypeInv'
  BY TypeMidnight DEF LogInv
<1>2. Growing(sizes, orders, sizes', orders')
  BY <1>1, MidnightFacts DEF Growing, TypeInv, TypeOK
<1> QED BY <1>1, <1>2, TruthIsKept DEF Midnight, LogInv

LEMMA LogStep == LogInv /\ [Next]_vars => LogInv'
<1> SUFFICES ASSUME LogInv, [Next]_vars PROVE LogInv'
  OBVIOUS
<1>1. CASE UNCHANGED vars
  <2>1. TypeInv'
    BY <1>1, TypeStep DEF LogInv
  <2> QED BY <1>1, <2>1, SameIsGrowing, TruthIsKept DEF vars, LogInv
<1>2. ASSUME NEW r \in Runs,
             \/ Fire(r) \/ CreateLog(r) \/ ReceivePage(r) \/ FailRequest(r)
             \/ UpsertOrder(r) \/ CloseDay(r) \/ FailDay(r)
      PROVE  LogInv'
  BY <1>2, LogFire, LogCreateLog, LogReceivePage, LogFailRequest, LogUpsertOrder,
     LogCloseDay, LogFailDay
<1> QED BY <1>1, <1>2, LogMissFire, LogCrash, LogMidnight DEF Next

(* A row that says a day was listed to its end counts every order of the   *)
(* day, claims no order that is not stored, and says SUCCESS only of a day *)
(* that is stored whole, however many runs overlap, fail, retry or die     *)
(* (syncYangoOrdersForClosedDay).                                          *)
THEOREM LogCorrect == Spec => []LogIsTrue
<1>1. LogInv => LogIsTrue
  BY DEF LogInv, LogIsTrue, RowIsTrue
<1> QED BY <1>1, LogInit, LogStep, PTL DEF Spec
=============================================================================
