-------------------------- MODULE FleetSync_proofs --------------------------
(***************************************************************************)
(* Proofs about FleetSync, for any park, any number of runs and any        *)
(* bounds.                                                                 *)
(***************************************************************************)
EXTENDS FleetSync, SequenceTheorems, TLAPS

(***************************************************************************)
(* A run that treats a profile carries what the park said of it when the   *)
(* profiles were listed, and the id of a row that was there once: the chat *)
(* may have taken it away since, but an id is not given twice.             *)
(***************************************************************************)
Labels == {"idle", "cars", "profiles", "write", "associate", "close", "open"}

Run == [pc : Labels, cars : SUBSET Vehicles, todo : SUBSET Profiles,
        list : [Profiles -> Descriptions \cup {None}],
        item : Profiles \cup {None}, said : Descriptions \cup {None}, found : Nat]

Listed(run) == \A p \in run.todo : run.list[p] \in Descriptions

Linking(run) == run.pc \in {"associate", "close", "open"}

Holding(run, ids) ==
  run.pc = "write" \/ Linking(run) =>
    /\ run.item \in Profiles
    /\ run.said \in Descriptions
    /\ run.said.phone \in Phones
    /\ run.found = 0 => run.pc = "write" /\ run.said.licence \in Licences
    /\ run.found # 0 => run.found \in ids

RunOK(run, ids) == run \in Run /\ Listed(run) /\ Holding(run, ids)

Ids == DOMAIN drivers

(* The row of a driver, and two of them.                                   *)
Distinct(row, other) ==
  /\ row.profile # other.profile \/ row.profile = None
  /\ row.phone # other.phone
  /\ row.licence # other.licence

TablesOK ==
  /\ drivers \in Seq(DriverRow \cup {Removed})
  /\ \A i, j \in Rows : i # j => Distinct(drivers[i], drivers[j])
  /\ Len(active) = Len(drivers)

CarsOK ==
  /\ linked \subseteq known /\ known \subseteq Vehicles
  /\ active \in Seq(known \cup {None, Gone})

ParkOK == park \in [Profiles -> Descriptions]

RunsOK == runs \in [Runs -> Run] /\ \A r \in Runs : RunOK(runs[r], Ids)

(* The undoing in progress has a driver, whose row may be gone.            *)
Undoings == [pc : ChatLabels, mode : {None, "CREATION", "UPDATE", "UPLOAD"},
             driver : Nat, car : Vehicles \cup {None, Gone}]

Undoable(c, ids) ==
  /\ c \in Undoings /\ c.driver \in ids \cup {0}
  /\ c.pc # "idle" => c.driver \in ids

ChatOK == Undoable(chat, Ids)

FleetInv == ParkOK /\ CarsOK /\ TablesOK /\ RunsOK /\ ChatOK

LEMMA IdsAre ==
  ASSUME TablesOK
  PROVE  /\ Ids = 1..Len(drivers) /\ Len(drivers) \in Nat /\ 0 \notin Ids
         /\ \A i \in Ids : drivers[i] \in DriverRow \cup {Removed}
BY DEF TablesOK, Ids

LEMMA FleetTypes == FleetInv => TypeOK
<1> SUFFICES ASSUME FleetInv PROVE TypeOK
  OBVIOUS
<1>1. chat \in [pc : ChatLabels, mode : {None, "CREATION", "UPDATE", "UPLOAD"},
                driver : 0..Len(drivers), car : Vehicles \cup {None, Gone}]
  <2>1. chat.driver \in 0..Len(drivers)
    BY IdsAre DEF FleetInv, ChatOK, Undoable
  <2> QED BY <2>1 DEF FleetInv, ChatOK, Undoable, Undoings
<1> QED BY <1>1 DEF FleetInv, ParkOK, CarsOK, TablesOK, Distinct, TypeOK

LEMMA IdleRun == ASSUME NEW ids PROVE RunOK(Idle, ids)
BY DEF Idle, Run, RunOK, Listed, Holding, Linking, Labels

LEMMA RowIs ==
  ASSUME TablesOK, NEW i \in Rows
  PROVE  i \in Ids /\ drivers[i] \in DriverRow
BY DEF TablesOK, Ids, Rows

(* Ids are only added.                                                     *)
LEMMA OneRun ==
  ASSUME RunsOK, NEW r \in Runs, NEW run, Set(r, run), Ids \subseteq Ids', RunOK(run, Ids')
  PROVE  RunsOK'
<1>1. /\ runs \in [Runs -> Run] /\ run \in Run
      /\ \A s \in Runs : runs'[s] = IF s = r THEN run ELSE runs[s]
  BY DEF RunsOK, RunOK, Set
<1>2. runs' \in [Runs -> Run]
  BY <1>1 DEF Set
<1>3. ASSUME NEW s \in Runs
      PROVE  RunOK(runs'[s], Ids')
  <2>1. RunOK(runs[s], Ids)
    BY DEF RunsOK
  <2>2. RunOK(runs[s], Ids')
    BY <2>1 DEF RunOK, Holding
  <2> QED BY <1>1, <2>2
<1>4. ASSUME NEW s \in Runs
      PROVE  RunOK(runs[s], Ids)'
  BY <1>3 DEF RunOK, Listed, Holding, Linking, Ids
<1> QED BY <1>2, <1>4 DEF RunsOK

LEMMA RunIs == ASSUME RunsOK, NEW r \in Runs PROVE RunOK(runs[r], Ids)
BY DEF RunsOK

LEMMA NextItemOK ==
  ASSUME RunsOK, NEW r \in Runs, NextItem(r), Ids \subseteq Ids'
  PROVE  RunsOK'
<1> DEFINE run == [runs[r] EXCEPT !.pc = "profiles", !.item = None, !.said = None,
                                  !.found = 0]
<1>1. RunOK(run, Ids')
  BY RunIs DEF RunOK, Run, Labels, Listed, Holding, Linking
<1>2. Set(r, run)
  BY DEF NextItem
<1> HIDE DEF run
<1> QED BY <1>1, <1>2, OneRun

LEMMA TablesKept ==
  ASSUME TablesOK, UNCHANGED <<drivers, active>>
  PROVE  TablesOK' /\ Ids' = Ids
BY DEF TablesOK, Ids, Rows

LEMMA ChatKept ==
  ASSUME ChatOK, UNCHANGED chat, Ids \subseteq Ids'
  PROVE  ChatOK'
BY DEF ChatOK, Undoable, Undoings, Ids

LEMMA CarsKept ==
  ASSUME CarsOK, UNCHANGED <<known, linked, active>>
  PROVE  CarsOK'
BY DEF CarsOK

(***************************************************************************)
(* The lists and the vehicles.                                             *)
(***************************************************************************)
LEMMA CarsStep ==
  ASSUME FleetInv, NEW r \in Runs, ListCars(r) \/ SyncCar(r)
  PROVE  FleetInv'
<1>0. UNCHANGED <<park, drivers, active, chat>>
  BY DEF ListCars, SyncCar, tables
<1>1. ParkOK' /\ TablesOK' /\ Ids' = Ids /\ ChatOK'
  BY <1>0, TablesKept, ChatKept DEF FleetInv, ParkOK
<1>2. CASE ListCars(r)
  <2>1. RunOK([Idle EXCEPT !.pc = "cars", !.cars = Vehicles], Ids')
    BY IdleRun DEF RunOK, Run, Idle, Labels, Listed, Holding, Linking
  <2>2. RunsOK'
    BY <1>1, <1>2, <2>1, IdleRun, OneRun DEF ListCars, FleetInv
  <2> QED BY <1>1, <1>2, <2>2, CarsKept DEF ListCars, tables, FleetInv
<1>3. CASE SyncCar(r)
  <2>1. PICK v \in runs[r].cars :
          /\ Set(r, [runs[r] EXCEPT !.cars = @ \ {v}])
          /\ \/ known' = known \cup {v} /\ linked' = linked \cup {v}
             \/ UNCHANGED <<known, linked>>
    BY <1>3 DEF SyncCar
  <2>2. RunOK(runs[r], Ids) /\ v \in Vehicles
    BY <2>1, RunIs DEF FleetInv, RunOK, Run
  <2>3. RunOK([runs[r] EXCEPT !.cars = @ \ {v}], Ids')
    BY <1>1, <2>2 DEF RunOK, Run, Listed, Holding, Linking
  <2>4. RunsOK'
    BY <1>1, <2>1, <2>3, OneRun DEF FleetInv
  <2>5. linked' \subseteq known' /\ known' \subseteq Vehicles /\ known \subseteq known'
    BY <2>1, <2>2 DEF FleetInv, CarsOK
  <2>6. active' \in Seq(known' \cup {None, Gone})
    BY <1>3, <2>5 DEF SyncCar, FleetInv, CarsOK
  <2> QED BY <1>1, <2>4, <2>5, <2>6 DEF FleetInv, CarsOK
<1> QED BY <1>2, <1>3

LEMMA ListStep ==
  ASSUME FleetInv, NEW r \in Runs, ListDriverProfiles(r) \/ EndRun(r)
  PROVE  FleetInv'
<1>0. UNCHANGED <<park, known, linked, drivers, active, chat>>
  BY DEF ListDriverProfiles, EndRun, tables
<1>1. ParkOK' /\ CarsOK' /\ TablesOK' /\ Ids' = Ids /\ ChatOK'
  BY <1>0, TablesKept, CarsKept, ChatKept DEF FleetInv, ParkOK
<1>2. RunOK([Idle EXCEPT !.pc = "profiles", !.todo = Profiles, !.list = park], Ids')
  BY IdleRun DEF FleetInv, ParkOK, RunOK, Run, Idle, Labels, Listed, Holding, Linking
<1>3. RunsOK'
  BY <1>1, <1>2, IdleRun, OneRun DEF ListDriverProfiles, EndRun, FleetInv
<1> QED BY <1>1, <1>3 DEF FleetInv

LEMMA FindStep ==
  ASSUME FleetInv, NEW r \in Runs, FindDriver(r)
  PROVE  FleetInv'
<1>0. UNCHANGED <<park, known, linked, drivers, active, chat>>
  BY DEF FindDriver, tables
<1>1. ParkOK' /\ CarsOK' /\ TablesOK' /\ Ids' = Ids /\ ChatOK'
  BY <1>0, TablesKept, CarsKept, ChatKept DEF FleetInv, ParkOK
<1>2. PICK p \in runs[r].todo :
        LET said  == runs[r].list[p]
            rows  == RowsFor(p, said)
            next  == [runs[r] EXCEPT !.todo = @ \ {p}, !.list[p] = None]
        IN IF PassedOver(p, said)
           THEN Set(r, next)
           ELSE \E i \in IF rows = {} THEN {0} ELSE rows :
                  Set(r, [next EXCEPT !.pc = "write", !.item = p, !.said = said,
                                     !.found = i])
  BY DEF FindDriver
<1> DEFINE said == runs[r].list[p]
           rows == RowsFor(p, said)
           next == [runs[r] EXCEPT !.todo = @ \ {p}, !.list[p] = None]
<1>3. RunOK(runs[r], Ids) /\ runs[r].pc = "profiles"
  BY RunIs DEF FleetInv, FindDriver, At
<1>4. p \in Profiles /\ said \in Descriptions
  BY <1>2, <1>3 DEF RunOK, Run, Listed
<1>5. next \in Run /\ Listed(next) /\ next.pc = "profiles"
  <2>1. /\ next.todo = runs[r].todo \ {p} /\ next.pc = "profiles"
        /\ next.list = [runs[r].list EXCEPT ![p] = None]
    BY <1>3 DEF RunOK, Run
  <2>2. next \in Run
    BY <1>3, <1>4 DEF RunOK, Run
  <2> HIDE DEF next
  <2>3. Listed(next)
    BY <1>3, <1>4, <2>1 DEF RunOK, Run, Listed
  <2> QED BY <2>1, <2>2, <2>3
<1>6. CASE PassedOver(p, said)
  <2>1. RunOK(next, Ids')
    BY <1>5 DEF RunOK, Holding, Linking
  <2>2. Set(r, next)
    BY <1>2, <1>6
  <2> HIDE DEF next
  <2>3. RunsOK'
    BY <1>1, <2>1, <2>2, OneRun DEF FleetInv
  <2> QED BY <1>1, <2>3 DEF FleetInv
<1>7. CASE ~PassedOver(p, said)
  <2>1. PICK i \in IF rows = {} THEN {0} ELSE rows :
          Set(r, [next EXCEPT !.pc = "write", !.item = p, !.said = said, !.found = i])
    BY <1>2, <1>7
  <2> DEFINE run == [next EXCEPT !.pc = "write", !.item = p, !.said = said, !.found = i]
  <2>2. rows \subseteq Ids
    BY DEF RowsFor, ByProfile, ByPhone, ByLicence, Rows, Ids
  <2>3. 0 \notin Ids /\ Ids \subseteq Nat
    BY IdsAre DEF FleetInv
  <2>4. i = 0 => rows = {}
    BY <2>1, <2>2, <2>3
  <2>5. said.phone \in Phones /\ (i = 0 => said.licence \in Licences)
    BY <1>4, <1>7, <2>4 DEF PassedOver, Descriptions
  <2>6. i \in Nat /\ (i # 0 => i \in Ids)
    BY <2>1, <2>2, <2>3
  <2> HIDE DEF rows
  <2>7. /\ run \in Run /\ run.todo = next.todo /\ run.list = next.list
        /\ run.pc = "write" /\ run.item = p /\ run.said = said /\ run.found = i
    BY <1>4, <1>5, <2>6 DEF Run, Labels
  <2> HIDE DEF next
  <2>8. Set(r, run)
    BY <2>1
  <2> HIDE DEF run
  <2>9. RunOK(run, Ids')
    BY <1>1, <1>4, <1>5, <2>5, <2>6, <2>7 DEF RunOK, Listed, Holding, Linking
  <2>10. RunsOK'
    BY <1>1, <2>8, <2>9, OneRun DEF FleetInv
  <2> QED BY <1>1, <2>10 DEF FleetInv
<1> QED BY <1>6, <1>7

(***************************************************************************)
(* The driver row.                                                         *)
(***************************************************************************)
LEMMA UpdateStep ==
  ASSUME FleetInv, NEW r \in Runs, UpdateDriver(r)
  PROVE  FleetInv'
<1>1. ParkOK' /\ CarsOK' /\ chat' = chat /\ active' = active
  BY CarsKept DEF FleetInv, ParkOK, UpdateDriver
<1> DEFINE i   == runs[r].found
           row == Described(runs[r].item, runs[r].said, drivers[i].licence)
<1>2. /\ RunOK(runs[r], Ids) /\ i \in Ids /\ runs[r].item \in Profiles
      /\ runs[r].said \in Descriptions /\ runs[r].said.phone \in Phones
  BY RunIs DEF FleetInv, UpdateDriver, At, RunOK, Holding
<1>3. CASE /\ i \in Rows /\ Unique(row, i) /\ drivers' = [drivers EXCEPT ![i] = row]
           /\ Set(r, [runs[r] EXCEPT !.pc = "associate"])
  <2>1. row \in DriverRow /\ row.profile # None
    <3>1. drivers[i].licence \in Licences
      <4>1. drivers[i] \in DriverRow
        BY <1>3, RowIs DEF FleetInv
      <4> QED BY <4>1 DEF DriverRow
    <3> QED BY <1>2, <3>1, NoneAssumption DEF Described, DriverRow, Descriptions, None
  <2>2. /\ \A j \in Rows \ {i} : /\ drivers[j].profile # row.profile
                                 /\ drivers[j].phone # row.phone
                                 /\ drivers[j].licence # row.licence
        /\ drivers' = [drivers EXCEPT ![i] = row] /\ i \in Rows
    BY <1>3 DEF Unique
  <2> DEFINE run == [runs[r] EXCEPT !.pc = "associate"]
  <2>3. run \in Run /\ Listed(run) /\ Set(r, run)
    BY <1>2, <1>3 DEF RunOK, Run, Labels, Listed
  <2>4. Holding(run, Ids)
    <3>1. 0 \notin Ids
      BY IdsAre DEF FleetInv
    <3> QED BY <1>2, <3>1 DEF RunOK, Run, Holding, Linking
  <2> HIDE DEF i, row, run
  <2>5. /\ drivers' \in Seq(DriverRow \cup {Removed}) /\ Len(drivers') = Len(drivers)
        /\ Ids' = Ids /\ drivers'[i] = row
        /\ \A j \in Ids \ {i} : drivers'[j] = drivers[j]
    <3>1. drivers \in Seq(DriverRow \cup {Removed}) /\ row \in DriverRow \cup {Removed}
      BY <2>1 DEF FleetInv, TablesOK
    <3> QED BY <1>2, <2>2, <3>1, ExceptSeq DEF Ids
  <2>6. Rows' \subseteq Rows /\ Rows \subseteq Ids
    BY <2>2, <2>5 DEF Rows, Ids
  <2>7. ASSUME NEW j \in Rows, NEW k \in Rows, j # k
        PROVE  Distinct(drivers'[j], drivers'[k])
    <3>1. Distinct(drivers[j], drivers[k])
      BY <2>7 DEF FleetInv, TablesOK
    <3> QED BY <2>1, <2>2, <2>5, <2>6, <2>7, <3>1 DEF Distinct
  <2>8. TablesOK'
    <3>1. \A j, k \in Rows' : j # k => Distinct(drivers'[j], drivers'[k])
      BY <2>6, <2>7
    <3> QED BY <1>1, <2>5, <3>1 DEF FleetInv, TablesOK, Distinct
  <2>9. RunsOK'
    BY <2>3, <2>4, <2>5, OneRun DEF FleetInv, RunOK
  <2> QED BY <1>1, <2>5, <2>8, <2>9, ChatKept DEF FleetInv
<1>4. CASE NextItem(r) /\ UNCHANGED drivers
  <2>1. TablesOK' /\ Ids' = Ids
    BY <1>1, <1>4, TablesKept DEF FleetInv
  <2> QED BY <1>1, <1>4, <2>1, NextItemOK, ChatKept DEF FleetInv
<1> QED BY <1>3, <1>4 DEF UpdateDriver

LEMMA CreateStep ==
  ASSUME FleetInv, NEW r \in Runs, CreateDriver(r)
  PROVE  FleetInv'
<1>1. ParkOK' /\ chat' = chat
  BY DEF FleetInv, ParkOK, CreateDriver
<1> DEFINE row == Described(runs[r].item, runs[r].said, None)
<1>2. /\ RunOK(runs[r], Ids) /\ runs[r].item \in Profiles /\ runs[r].said \in Descriptions
      /\ runs[r].said.phone \in Phones /\ runs[r].said.licence \in Licences
  BY RunIs DEF FleetInv, CreateDriver, At, RunOK, Holding
<1>3. row \in DriverRow /\ row.profile # None
  BY <1>2, NoneAssumption DEF Described, DriverRow, Descriptions, None
<1>4. CASE ~Unique(row, 0) /\ NextItem(r) /\ UNCHANGED <<drivers, active>>
  <2>1. TablesOK' /\ Ids' = Ids
    BY <1>4, TablesKept DEF FleetInv
  <2> QED BY <1>1, <1>4, <2>1, NextItemOK, CarsKept, ChatKept DEF FleetInv, CreateDriver
<1>5. CASE /\ Unique(row, 0)
           /\ drivers' = Append(drivers, row)
           /\ active' = Append(active, None)
           /\ \/ Set(r, [runs[r] EXCEPT !.pc = "associate", !.found = Len(drivers) + 1])
              \/ NextItem(r)
  <2> DEFINE n == Len(drivers)
  <2>0. /\ Ids = 1..n /\ n \in Nat /\ Len(active) = n /\ Rows \subseteq Ids
        /\ drivers \in Seq(DriverRow \cup {Removed})
        /\ active \in Seq(known \cup {None, Gone})
    BY IdsAre, RowIs DEF FleetInv, TablesOK, CarsOK
  <2>1. \A j \in Rows : /\ drivers[j].profile # row.profile
                        /\ drivers[j].phone # row.phone
                        /\ drivers[j].licence # row.licence
    <3>1. 0 \notin Rows
      BY <2>0
    <3> QED BY <1>5, <3>1 DEF Unique
  <2>2. /\ drivers' = Append(drivers, row) /\ active' = Append(active, None)
        /\ known' = known /\ linked' = linked
    BY <1>5 DEF CreateDriver
  <2>6. ASSUME Set(r, [runs[r] EXCEPT !.pc = "associate", !.found = n + 1])
        PROVE  RunsOK'
    <3>0. n + 1 \in Nat
      BY <2>0
    <3>2. Ids' = 1..n + 1
      <4>1. row \in DriverRow \cup {Removed}
        BY <1>3
      <4> QED BY <2>0, <2>2, <4>1, AppendProperties DEF Ids
    <3> HIDE DEF n
    <3> DEFINE run == [runs[r] EXCEPT !.pc = "associate", !.found = n + 1]
    <3>1. /\ run \in Run /\ run.todo = runs[r].todo /\ run.list = runs[r].list
          /\ Set(r, run) /\ run.pc = "associate"
          /\ run.item = runs[r].item /\ run.said = runs[r].said /\ run.found = n + 1
      BY <1>2, <2>6, <3>0 DEF RunOK, Run, Labels
    <3> HIDE DEF run
    <3>3. n + 1 # 0 /\ n + 1 \in Ids' /\ Ids \subseteq Ids'
      BY <2>0, <3>2
    <3>4. RunOK(run, Ids')
      BY <1>2, <3>1, <3>3 DEF RunOK, Listed, Holding, Linking
    <3> QED BY <3>1, <3>3, <3>4, OneRun DEF FleetInv
  <2> HIDE DEF row, n
  <2>3. /\ drivers' \in Seq(DriverRow \cup {Removed}) /\ Len(drivers') = n + 1
        /\ Ids' = 1..n + 1 /\ drivers'[n + 1] = row
        /\ \A j \in Ids : drivers'[j] = drivers[j]
    <3>1. row \in DriverRow \cup {Removed}
      BY <1>3
    <3> QED BY <2>0, <2>2, <3>1, AppendProperties DEF Ids, n
  <2>9. Rows' \subseteq Rows \cup {n + 1}
    BY <2>0, <2>3 DEF Rows, Ids
  <2>4. active' \in Seq(known \cup {None, Gone}) /\ Len(active') = n + 1
    <3> DEFINE cars == known \cup {None, Gone}
    <3>1. None \in cars /\ active \in Seq(cars)
      BY <2>0
    <3> HIDE DEF cars
    <3>2. active' \in Seq(cars) /\ Len(active') = Len(active) + 1
      BY <2>2, <3>1, AppendProperties
    <3> QED BY <2>0, <3>2 DEF cars
  <2>5. TablesOK'
    <3>1. \A j, k \in Rows : j # k => Distinct(drivers[j], drivers[k])
      BY DEF FleetInv, TablesOK
    <3>2. ASSUME NEW j \in Rows', NEW k \in Rows', j # k
          PROVE  Distinct(drivers'[j], drivers'[k])
      <4>1. (j \in Rows \/ j = n + 1) /\ (k \in Rows \/ k = n + 1)
        BY <2>9
      <4>2. CASE j \in Rows /\ k \in Rows
        BY <2>0, <2>3, <3>1, <3>2, <4>2
      <4>3. CASE j \in Rows /\ k = n + 1
        BY <2>0, <2>1, <2>3, <4>3 DEF Distinct
      <4>4. CASE j = n + 1 /\ k \in Rows
        BY <2>0, <2>1, <2>3, <4>4 DEF Distinct
      <4> QED BY <3>2, <4>1, <4>2, <4>3, <4>4
    <3> QED BY <2>3, <2>4, <3>2 DEF TablesOK, Distinct
  <2>7. ASSUME NextItem(r)
        PROVE  RunsOK'
    <3>1. Ids \subseteq Ids'
      BY <2>0, <2>3
    <3> QED BY <2>7, <3>1, NextItemOK DEF FleetInv
  <2>8. CarsOK'
    BY <2>2, <2>4 DEF FleetInv, CarsOK
  <2>10. ChatOK'
    <3>1. Ids \subseteq Ids'
      BY <2>0, <2>3
    <3> QED BY <1>1, <3>1, ChatKept DEF FleetInv
  <2> QED BY <1>1, <1>5, <2>5, <2>6, <2>7, <2>8, <2>10 DEF FleetInv, n
<1> QED BY <1>4, <1>5 DEF CreateDriver

(* An item, or its lookup, fails.                                          *)
LEMMA FailStep ==
  ASSUME FleetInv, NEW r \in Runs, FailItem(r)
  PROVE  FleetInv'
<1>0. UNCHANGED <<park, known, linked, drivers, active, chat>>
  BY DEF FailItem, tables
<1>1. ParkOK' /\ CarsOK' /\ TablesOK' /\ Ids' = Ids /\ ChatOK'
  BY <1>0, TablesKept, CarsKept, ChatKept DEF FleetInv, ParkOK
<1>2. RunOK(runs[r], Ids)
  BY RunIs DEF FleetInv
<1>3. ASSUME At(r, "profiles"), NEW p \in runs[r].todo,
             Set(r, [runs[r] EXCEPT !.todo = @ \ {p}, !.list[p] = None])
      PROVE  RunsOK'
  <2> DEFINE next == [runs[r] EXCEPT !.todo = @ \ {p}, !.list[p] = None]
  <2>1. /\ next.todo = runs[r].todo \ {p} /\ next.pc = "profiles"
        /\ next.list = [runs[r].list EXCEPT ![p] = None]
        /\ next \in Run /\ p \in Profiles
    BY <1>2, <1>3 DEF At, RunOK, Run
  <2>2. Set(r, next)
    BY <1>3
  <2> HIDE DEF next
  <2>3. RunOK(next, Ids')
    BY <1>2, <2>1 DEF RunOK, Run, Listed, Holding, Linking
  <2> QED BY <1>1, <2>2, <2>3, OneRun DEF FleetInv
<1>4. RunsOK'
  BY <1>1, <1>3, NextItemOK DEF FailItem, FleetInv
<1> QED BY <1>1, <1>4 DEF FleetInv

(***************************************************************************)
(* The association.                                                        *)
(***************************************************************************)
LEMMA AssociateStep ==
  ASSUME FleetInv, NEW r \in Runs,
         CheckAssociation(r) \/ CloseAssociation(r) \/ OpenAssociation(r)
  PROVE  FleetInv'
<1>1. /\ ParkOK' /\ drivers' = drivers /\ known' = known /\ linked' = linked
      /\ Ids' = Ids /\ Rows' = Rows /\ chat' = chat
  BY DEF FleetInv, ParkOK, CheckAssociation, CloseAssociation, OpenAssociation, tables,
         Rows, Ids
<1>2. RunOK(runs[r], Ids) /\ Linking(runs[r])
  BY RunIs DEF FleetInv, CheckAssociation, CloseAssociation, OpenAssociation, At, Linking
<1>3. RunsOK'
  <2>1. ASSUME NEW pc \in {"close", "open"}, Set(r, [runs[r] EXCEPT !.pc = pc])
        PROVE  RunsOK'
    <3> DEFINE run == [runs[r] EXCEPT !.pc = pc]
    <3>1. run \in Run /\ Listed(run) /\ Holding(run, Ids')
      BY <1>1, <1>2 DEF RunOK, Run, Labels, Listed, Holding, Linking
    <3>2. Set(r, run)
      BY <2>1
    <3> HIDE DEF run
    <3> QED BY <1>1, <3>1, <3>2, OneRun DEF FleetInv, RunOK
  <2> QED BY <1>1, <2>1, NextItemOK
          DEF FleetInv, CheckAssociation, CloseAssociation, OpenAssociation
<1>4. /\ active' \in Seq(known \cup {None, Gone})
      /\ Len(active') = Len(active)
  <2>1. active \in Seq(known \cup {None, Gone}) /\ runs[r].found \in 1..Len(active)
    <3>1. 0 \notin Ids /\ Ids = 1..Len(active)
      BY IdsAre DEF FleetInv, TablesOK
    <3>2. runs[r].found \in Ids
      BY <1>2 DEF RunOK, Holding, Linking
    <3> QED BY <3>1, <3>2 DEF FleetInv, CarsOK
  <2>2. ASSUME NEW car \in known \cup {None, Gone},
               active' = [active EXCEPT ![runs[r].found] = car]
        PROVE  active' \in Seq(known \cup {None, Gone}) /\ Len(active') = Len(active)
    BY <2>1, <2>2, ExceptSeq
  <2>3. \/ active' = active
        \/ \E car \in known \cup {None, Gone} :
             active' = [active EXCEPT ![runs[r].found] = car]
    <3>1. CASE CheckAssociation(r)
      BY <3>1 DEF CheckAssociation, tables
    <3>2. CASE CloseAssociation(r)
      BY <3>2 DEF CloseAssociation, Closed
    <3>3. CASE OpenAssociation(r)
      <4>1. (IF Car(r) \in known THEN Car(r) ELSE Gone) \in known \cup {None, Gone}
        OBVIOUS
      <4> QED BY <3>3, <4>1 DEF OpenAssociation
    <3> QED BY <3>1, <3>2, <3>3
  <2> QED BY <2>1, <2>2, <2>3
<1>5. TablesOK' /\ CarsOK' /\ ChatOK'
  BY <1>1, <1>4, ChatKept DEF FleetInv, CarsOK, TablesOK, Distinct
<1> QED BY <1>1, <1>3, <1>5 DEF FleetInv

(***************************************************************************)
(* The park and the chat.                                                  *)
(***************************************************************************)
LEMMA RunsKept ==
  ASSUME RunsOK, UNCHANGED runs, Ids' = Ids
  PROVE  RunsOK'
BY DEF RunsOK, RunOK, Listed, Holding, Linking

LEMMA ChangeStep ==
  ASSUME FleetInv, ChangePark
  PROVE  FleetInv'
<1>0. UNCHANGED <<known, linked, drivers, active, runs, chat>>
  BY DEF ChangePark, tables
<1>1. CarsOK' /\ TablesOK' /\ Ids' = Ids
  BY <1>0, CarsKept, TablesKept DEF FleetInv
<1>2. RunsOK' /\ ChatOK'
  BY <1>0, <1>1, RunsKept, ChatKept DEF FleetInv
<1>3. ParkOK'
  BY DEF FleetInv, ParkOK, ChangePark
<1> QED BY <1>1, <1>2, <1>3 DEF FleetInv

LEMMA Continued ==
  ASSUME ChatOK, NEW pc \in ChatLabels, Continue(pc), ~Undoing("idle"), Ids' = Ids
  PROVE  ChatOK'
<1> DEFINE next == [chat EXCEPT !.pc = pc]
<1>1. next \in Undoings /\ next.driver = chat.driver /\ chat.driver \in Ids
  BY DEF ChatOK, Undoable, Undoings, Undoing
<1>2. chat' = next
  BY DEF Continue
<1> HIDE DEF next
<1> QED BY <1>1, <1>2 DEF ChatOK, Undoable

LEMMA Undone ==
  ASSUME StopUndoing
  PROVE  ChatOK'
BY DEF StopUndoing, ChatOK, Undoable, Undoings, NoChat, ChatLabels

(* A step of the chat that closes or opens associations only.              *)
LEMMA AssociationsSet ==
  ASSUME FleetInv, UNCHANGED <<park, known, linked, drivers, runs>>, ChatOK',
         NEW i \in Ids,
         \/ active' = active
         \/ \E car \in known \cup {None, Gone} : active' = [active EXCEPT ![i] = car]
  PROVE  FleetInv'
<1>1. ParkOK' /\ Ids' = Ids /\ Rows' = Rows
  BY DEF FleetInv, ParkOK, Ids, Rows
<1>2. RunsOK'
  BY <1>1, RunsKept DEF FleetInv
<1>3. active \in Seq(known \cup {None, Gone}) /\ i \in 1..Len(active)
  BY IdsAre DEF FleetInv, CarsOK, TablesOK
<1>4. ASSUME NEW car \in known \cup {None, Gone}, active' = [active EXCEPT ![i] = car]
      PROVE  active' \in Seq(known \cup {None, Gone}) /\ Len(active') = Len(active)
  BY <1>3, <1>4, ExceptSeq
<1>5. active' \in Seq(known \cup {None, Gone}) /\ Len(active') = Len(active)
  BY <1>3, <1>4
<1> QED BY <1>1, <1>2, <1>5 DEF FleetInv, CarsOK, TablesOK, Distinct

LEMMA ChatStep ==
  ASSUME FleetInv, ChatUndoes \/ ChatFails
  PROVE  FleetInv'
<1>0. UNCHANGED <<park, known, linked, drivers, active, runs>>
  BY DEF ChatUndoes, ChatFails, tables
<1>1. ParkOK' /\ CarsOK' /\ TablesOK' /\ Ids' = Ids
  BY <1>0, CarsKept, TablesKept DEF FleetInv, ParkOK
<1>2. RunsOK'
  BY <1>0, <1>1, RunsKept DEF FleetInv
<1>3. CASE ChatUndoes
  <2>1. PICK i \in Rows, pc \in {"car", "driver", "close"},
             mode \in {"CREATION", "UPDATE", "UPLOAD"} :
          chat' = [pc |-> pc, mode |-> mode, driver |-> i, car |-> active[i]]
    BY <1>3 DEF ChatUndoes
  <2>2. i \in Ids /\ i \in Nat
    BY RowIs, IdsAre DEF FleetInv
  <2>3. active[i] \in Vehicles \cup {None, Gone}
    <3>1. i \in 1..Len(active)
      BY <2>2, IdsAre DEF FleetInv, TablesOK
    <3> QED BY <3>1 DEF FleetInv, CarsOK
  <2>4. PICK car \in Vehicles \cup {None, Gone} : car = active[i]
    BY <2>3
  <2>5. ChatOK'
    BY <1>1, <2>1, <2>2, <2>4 DEF ChatOK, Undoable, Undoings, ChatLabels
  <2> QED BY <1>1, <1>2, <2>5 DEF FleetInv
<1>4. CASE ChatFails
  BY <1>1, <1>2, <1>4, Undone DEF ChatFails, FleetInv
<1> QED BY <1>3, <1>4

LEMMA RemoveCarStep ==
  ASSUME FleetInv, RemoveCar
  PROVE  FleetInv'
<1>0. ParkOK' /\ drivers' = drivers /\ runs' = runs /\ Ids' = Ids /\ Rows' = Rows
  BY DEF FleetInv, ParkOK, RemoveCar, Rows, Ids
<1>1. ChatOK'
  <2>1. ~Undoing("idle")
    BY DEF RemoveCar, Undoing
  <2>2. StopUndoing \/ \E pc \in ChatLabels : Continue(pc)
    BY DEF RemoveCar, ChatLabels
  <2> QED BY <1>0, <2>1, <2>2, Undone, Continued DEF FleetInv
<1>2. CarsOK' /\ Len(active') = Len(active)
  <2>1. CASE UNCHANGED <<known, linked, active>>
    BY <2>1, CarsKept DEF FleetInv
  <2>2. CASE /\ known' = known \ {chat.car}
             /\ linked' = linked \ {chat.car}
             /\ active' = [i \in DOMAIN active |->
                             IF active[i] = chat.car THEN Gone ELSE active[i]]
    <3>1. /\ active \in Seq(known \cup {None, Gone}) /\ DOMAIN active = 1..Len(active)
          /\ Len(active) \in Nat
      BY DEF FleetInv, CarsOK
    <3>2. \A i \in 1..Len(active) : active[i] \in known \cup {None, Gone}
      BY <3>1
    <3>3. active' \in [1..Len(active) -> known' \cup {None, Gone}]
      BY <2>2, <3>1, <3>2
    <3>4. active' \in Seq(known' \cup {None, Gone}) /\ Len(active') = Len(active)
      BY <3>1, <3>3
    <3> QED BY <2>2, <3>4 DEF FleetInv, CarsOK
  <2> QED BY <2>1, <2>2 DEF RemoveCar
<1>3. TablesOK' /\ RunsOK'
  BY <1>0, <1>2, RunsKept DEF FleetInv, TablesOK, Distinct
<1> QED BY <1>0, <1>1, <1>2, <1>3 DEF FleetInv

LEMMA RemoveDriverStep ==
  ASSUME FleetInv, RemoveDriver
  PROVE  FleetInv'
<1>0. ParkOK' /\ CarsOK' /\ runs' = runs /\ active' = active
  BY CarsKept DEF FleetInv, ParkOK, RemoveDriver
<1>1. PICK i \in Ids : drivers' = [drivers EXCEPT ![i] = Removed]
  BY DEF RemoveDriver, Undoing, FleetInv, ChatOK, Undoable
<1>2. /\ drivers' \in Seq(DriverRow \cup {Removed}) /\ Len(drivers') = Len(drivers)
      /\ Ids' = Ids /\ drivers'[i] = Removed
      /\ \A j \in Ids \ {i} : drivers'[j] = drivers[j]
  <2>1. drivers \in Seq(DriverRow \cup {Removed}) /\ Removed \in DriverRow \cup {Removed}
    BY DEF FleetInv, TablesOK
  <2> QED BY <1>1, <2>1, ExceptSeq DEF Ids
<1>3. Rows' \subseteq Rows \ {i} /\ Rows \subseteq Ids
  BY <1>2 DEF Rows, Ids
<1>4. \A j, k \in Rows' : j # k => Distinct(drivers'[j], drivers'[k])
  BY <1>2, <1>3 DEF FleetInv, TablesOK
<1>5. TablesOK'
  BY <1>0, <1>2, <1>4 DEF FleetInv, TablesOK, Distinct
<1>6. RunsOK'
  BY <1>0, <1>2, RunsKept DEF FleetInv
<1>7. ChatOK'
  BY <1>2, Continued DEF RemoveDriver, Undoing, ChatLabels, FleetInv
<1> QED BY <1>0, <1>5, <1>6, <1>7 DEF FleetInv

LEMMA AssociationStep ==
  ASSUME FleetInv, RemoveAssociation \/ Reopen
  PROVE  FleetInv'
<1>1. UNCHANGED <<park, known, linked, drivers, runs>> /\ ~Undoing("idle")
  BY DEF RemoveAssociation, Reopen, Undoing
<1>2. chat.driver \in Ids /\ Ids' = Ids
  BY <1>1 DEF Undoing, FleetInv, ChatOK, Undoable, Ids
<1>3. \/ active' = active
      \/ \E car \in known \cup {None, Gone} : active' = [active EXCEPT ![chat.driver] = car]
  BY DEF RemoveAssociation, Reopen
<1>4. StopUndoing \/ \E pc \in ChatLabels : Continue(pc)
  BY DEF RemoveAssociation, Reopen, ChatLabels
<1>5. ChatOK'
  BY <1>1, <1>2, <1>4, Undone, Continued DEF FleetInv
<1> QED BY <1>1, <1>2, <1>3, <1>5, AssociationsSet

LEMMA FleetInit == Init => FleetInv
<1> SUFFICES ASSUME Init PROVE FleetInv
  OBVIOUS
<1>1. ParkOK
  BY DEF Init, ParkOK
<1>2. RunsOK /\ ChatOK
  <2>1. \A ids : Idle \in Run /\ RunOK(Idle, ids)
    BY IdleRun DEF RunOK
  <2>2. ChatOK
    BY DEF Init, ChatOK, Undoable, Undoings, NoChat, ChatLabels
  <2> QED BY <2>1, <2>2 DEF Init, RunsOK
<1>3. CASE drivers = << >> /\ active = << >>
  BY <1>1, <1>2, <1>3 DEF Init, FleetInv, CarsOK, TablesOK, Rows
<1>4. ASSUME NEW p \in Profiles \cup {None}, NEW n \in Phones, NEW l \in Licences,
             NEW v \in known \cup {None},
             drivers = <<[profile |-> p, phone |-> n, licence |-> l]>>, active = <<v>>
      PROVE  FleetInv
  <2>1. [profile |-> p, phone |-> n, licence |-> l] \in DriverRow
    BY DEF DriverRow
  <2>2. drivers \in Seq(DriverRow \cup {Removed}) /\ Len(drivers) = 1 /\ DOMAIN drivers = {1}
    BY <1>4, <2>1
  <2>3. active \in Seq(known \cup {None, Gone}) /\ Len(active) = 1
    BY <1>4
  <2> QED BY <1>1, <1>2, <2>2, <2>3 DEF Init, FleetInv, CarsOK, TablesOK, Rows
<1> QED BY <1>3, <1>4 DEF Init

LEMMA FleetNext == FleetInv /\ [Next]_vars => FleetInv'
<1> SUFFICES ASSUME FleetInv, [Next]_vars PROVE FleetInv'
  OBVIOUS
<1>1. CASE UNCHANGED vars
  <2>0. UNCHANGED <<park, known, linked, drivers, active, runs, chat>>
    BY <1>1 DEF vars, tables
  <2>1. CarsOK' /\ TablesOK' /\ Ids' = Ids /\ ParkOK'
    BY <2>0, CarsKept, TablesKept DEF FleetInv, ParkOK
  <2>2. RunsOK' /\ ChatOK'
    BY <2>0, <2>1, RunsKept, ChatKept DEF FleetInv
  <2> QED BY <2>1, <2>2 DEF FleetInv
<1>2. CASE Chat
  BY <1>2, ChatStep, RemoveCarStep, RemoveDriverStep, AssociationStep DEF Chat
<1> QED BY <1>1, <1>2, CarsStep, ListStep, FindStep, UpdateStep, CreateStep, FailStep,
           AssociateStep, ChangeStep
        DEF Next, Step

(* The driver table keeps its three unique columns under any number of     *)
(* overlapping runs, each writing by a lookup made before from a list that *)
(* the park has outdated, while the chat takes rows, cars and associations *)
(* away between the calls of a run: no row is written without a phone or a *)
(* licence, or with those of another.                                      *)
THEOREM TypeCorrect == Spec => []TypeOK
BY FleetInit, FleetNext, FleetTypes, PTL DEF Spec
=============================================================================
