----------------------------- MODULE FleetSync -----------------------------
(***************************************************************************)
(* The hourly copy of the Yango park into the fleet tables: syncYangoData  *)
(* of rabbitmq.service.ts.  A run lists the vehicles, then the driver      *)
(* profiles, and treats them one by one from the list it was given, which  *)
(* the park may have outdated meanwhile; an item that fails is skipped; a  *)
(* list that fails ends the run.  The next run starts on the hour, whether *)
(* or not this one has ended.  Meanwhile the chat takes cars, drivers and  *)
(* associations away, call by call, from under the run.                    *)
(*                                                                         *)
(* A list is one page here.  A vehicle stands for its plate as well; names *)
(* and the closed associations of a driver are left out.                   *)
(***************************************************************************)
EXTENDS Integers, Sequences

CONSTANTS
  Profiles,     \* profile ids of the park
  Phones,       \* phone numbers
  Licences,     \* licence numbers
  Vehicles,     \* vehicle ids of the park
  Runs,         \* bound: runs in progress at once
  MaxChanges,   \* bound: changes of the park, or of the tables by the chat
  MaxFailures   \* bound: lists and items that fail by themselves

ASSUME BoundsAssumption == MaxChanges \in Nat /\ MaxFailures \in Nat
ASSUME NoneAssumption ==
  {"none", "gone"} \cap (Profiles \cup Phones \cup Licences \cup Vehicles) = {}

VARIABLES
  park,      \* what the park says of each profile
  known,     \* CarInfo: the vehicles that have a row
  linked,    \* those whose row has its yangoCarId
  drivers,   \* DriverPersonnalInfo: per id, the row, or Removed
  active,    \* DriverCar: per driver id, the car of its row without endDate
  runs,      \* the runs in progress
  chat,      \* the undoing in progress
  changes,   \* changes of the park, and of the tables by the chat, so far
  failures   \* failures so far

tables == <<known, linked, drivers, active>>
vars == <<park, tables, runs, chat, changes, failures>>

None == "none"
Gone == "gone"  \* a car that an association names and that has no row
Removed == [profile |-> None, phone |-> None, licence |-> None]
Rows == {i \in DOMAIN drivers : drivers[i] # Removed}

Idle == [pc |-> "idle", cars |-> {}, todo |-> {}, list |-> [p \in Profiles |-> None],
         item |-> None, said |-> None, found |-> 0]

At(r, pc) == runs[r].pc = pc
Set(r, run) == runs' = [runs EXCEPT ![r] = run]

(* The end of an item, by success, by `continue` or by a caught error.     *)
NextItem(r) == Set(r, [runs[r] EXCEPT !.pc = "profiles", !.item = None, !.said = None,
                                      !.found = 0])

NoChat == [pc |-> "idle", mode |-> None, driver |-> 0, car |-> None]

FailOnce == failures < MaxFailures /\ failures' = failures + 1

(***************************************************************************)
(* The run, and the vehicles.                                              *)
(***************************************************************************)
ListCars(r) ==
  /\ At(r, "idle")
  /\ \/ Set(r, [Idle EXCEPT !.pc = "cars", !.cars = Vehicles]) /\ UNCHANGED failures
     \/ Set(r, Idle) /\ FailOnce
  /\ UNCHANGED <<park, tables, chat, changes>>

(* A vehicle that has no row gets one, one that has is linked to it.  Of   *)
(* two runs that create the same row one fails, to the same effect.        *)
SyncCar(r) ==
  /\ At(r, "cars")
  /\ \E v \in runs[r].cars :
       /\ Set(r, [runs[r] EXCEPT !.cars = @ \ {v}])
       /\ \/ /\ known' = known \cup {v}
             /\ linked' = linked \cup {v}
             /\ UNCHANGED failures
          \/ FailOnce /\ UNCHANGED <<known, linked>>
  /\ UNCHANGED <<park, drivers, active, chat, changes>>

ListDriverProfiles(r) ==
  /\ At(r, "cars")
  /\ runs[r].cars = {}
  /\ \/ Set(r, [Idle EXCEPT !.pc = "profiles", !.todo = Profiles, !.list = park])
        /\ UNCHANGED failures
     \/ Set(r, Idle) /\ FailOnce
  /\ UNCHANGED <<park, tables, chat, changes>>

EndRun(r) ==
  /\ At(r, "profiles")
  /\ runs[r].todo = {}
  /\ Set(r, Idle)
  /\ UNCHANGED <<park, tables, chat, changes, failures>>

(***************************************************************************)
(* One profile.  A row that was found may have been taken away when it is  *)
(* written: the update then fails.                                         *)
(***************************************************************************)
ByProfile(p)  == {i \in Rows : drivers[i].profile = p}
ByPhone(n)    == {i \in Rows : drivers[i].phone = n}
ByLicence(l)  == {i \in Rows : drivers[i].licence = l}

(* The row of a profile: the one that has its id, or else its phone, or    *)
(* else its licence number, whoever it belonged to.                        *)
FaultyRowsFor(p, said) == ByProfile(p)

RowsFor(p, said) ==
  IF ByProfile(p) # {} THEN ByProfile(p)
  ELSE IF ByPhone(said.phone) # {} THEN ByPhone(said.phone)
  ELSE ByLicence(said.licence)

(* A profile without phone is passed over.  One without licence that is    *)
(* not found before is looked up by an undefined licence, which Prisma     *)
(* refuses.                                                                *)
FaultyPassedOver(p, said) == said.phone = None

PassedOver(p, said) ==
  said.phone = None \/ (RowsFor(p, said) = {} /\ said.licence = None)

(* The lookups are one step: only an overlapping run could write a driver  *)
(* between them, and a row that the chat takes away between them is taken  *)
(* away after them here.                                                   *)
FindDriver(r) ==
  /\ At(r, "profiles")
  /\ \E p \in runs[r].todo :
       LET said  == runs[r].list[p]
           rows  == RowsFor(p, said)
           next  == [runs[r] EXCEPT !.todo = @ \ {p}, !.list[p] = None]
       IN IF PassedOver(p, said)
          THEN Set(r, next)
          ELSE \E i \in IF rows = {} THEN {0} ELSE rows :
                 Set(r, [next EXCEPT !.pc = "write", !.item = p, !.said = said,
                                    !.found = i])
  /\ UNCHANGED <<park, tables, chat, changes, failures>>

(* An undefined licence leaves the column as it is.                        *)
Described(p, said, old) ==
  [profile |-> p, phone |-> said.phone,
   licence |-> IF said.licence = None THEN old ELSE said.licence]

(* The three unique columns.                                               *)
Unique(row, i) ==
  \A j \in Rows \ {i} :
    /\ drivers[j].profile # row.profile
    /\ drivers[j].phone # row.phone
    /\ drivers[j].licence # row.licence

UpdateDriver(r) ==
  /\ At(r, "write")
  /\ runs[r].found # 0
  /\ LET i   == runs[r].found
         row == Described(runs[r].item, runs[r].said, drivers[i].licence)
     IN IF i \in Rows /\ Unique(row, i)
        THEN /\ drivers' = [drivers EXCEPT ![i] = row]
             /\ Set(r, [runs[r] EXCEPT !.pc = "associate"])
        ELSE NextItem(r) /\ UNCHANGED drivers
  /\ UNCHANGED <<park, known, linked, active, chat, changes, failures>>

(* The row of the licence, not kept here, may then clash with an older     *)
(* one: the driver stays, the association is left to the next run.         *)
CreateDriver(r) ==
  /\ At(r, "write")
  /\ runs[r].found = 0
  /\ LET row == Described(runs[r].item, runs[r].said, None)
     IN \/ /\ Unique(row, 0)
           /\ drivers' = Append(drivers, row)
           /\ active' = Append(active, None)
           /\ \/ Set(r, [runs[r] EXCEPT !.pc = "associate", !.found = Len(drivers) + 1])
              \/ NextItem(r)
        \/ ~Unique(row, 0) /\ NextItem(r) /\ UNCHANGED <<drivers, active>>
  /\ UNCHANGED <<park, known, linked, chat, changes, failures>>

(* Any call may fail by itself: the catch goes on to the next item.        *)
FailItem(r) ==
  /\ FailOnce
  /\ \/ /\ At(r, "profiles")
        /\ \E p \in runs[r].todo :
             Set(r, [runs[r] EXCEPT !.todo = @ \ {p}, !.list[p] = None])
     \/ /\ \E pc \in {"write", "associate", "close", "open"} : At(r, pc)
        /\ NextItem(r)
  /\ UNCHANGED <<park, tables, chat, changes>>

(***************************************************************************)
(* ensureDriverCarAssociation.                                             *)
(***************************************************************************)
Car(r) == runs[r].said.car

CheckAssociation(r) ==
  /\ At(r, "associate")
  /\ IF Car(r) \notin linked \/ active[runs[r].found] = Car(r)
     THEN NextItem(r)
     ELSE Set(r, [runs[r] EXCEPT !.pc = "close"])
  /\ UNCHANGED <<park, tables, chat, changes, failures>>

Closed(r) == [active EXCEPT ![runs[r].found] = None]

CloseAssociation(r) ==
  /\ At(r, "close")
  /\ active' = Closed(r)
  /\ Set(r, [runs[r] EXCEPT !.pc = "open"])
  /\ UNCHANGED <<park, known, linked, drivers, chat, changes, failures>>

(* unique_active_driver: a driver has one association without endDate; the *)
(* row of the car, found before, and that of the driver may be gone, since *)
(* no foreign key holds them.                                              *)
OpenAssociation(r) ==
  /\ At(r, "open")
  /\ active' = IF active[runs[r].found] # None THEN active
               ELSE [active EXCEPT ![runs[r].found] = IF Car(r) \in known THEN Car(r) ELSE Gone]
  /\ NextItem(r)
  /\ UNCHANGED <<park, known, linked, drivers, chat, changes, failures>>

(***************************************************************************)
(* The park, which gives a phone and a licence to one profile at most.     *)
(***************************************************************************)
Descriptions == [phone : Phones \cup {None}, licence : Licences \cup {None},
                 car : Vehicles \cup {None}]
IsPark(f) ==
  \A p, q \in Profiles : p # q =>
    /\ f[p].phone = f[q].phone => f[p].phone = None
    /\ f[p].licence = f[q].licence => f[p].licence = None

ChangePark ==
  /\ changes < MaxChanges
  /\ changes' = changes + 1
  /\ \E p \in Profiles, d \in Descriptions :
       LET said == [park EXCEPT ![p] = d]
       IN said # park /\ IsPark(said) /\ park' = said
  /\ UNCHANGED <<tables, runs, chat, failures>>

(***************************************************************************)
(* The chat.  deleteInfoCollected undoes a conversation of a driver that   *)
(* fails or falls silent, whoever wrote the rows: it takes away the car of *)
(* the open association unless it is linked to Yango, and then, in mode    *)
(* CREATION, the driver and an association of the driver, or, in mode      *)
(* UPDATE, the open association, to open the one that was closed last, of  *)
(* any car.  The catch of an upload (getCarRegistrationData) takes away    *)
(* the association, then the car, even if linked, and re-opens likewise.   *)
(***************************************************************************)
Undoing(pc) == chat.pc = pc
Continue(pc) == chat' = [chat EXCEPT !.pc = pc]
StopUndoing == chat' = NoChat

(* What is undone is found first.  An association whose car is gone ends   *)
(* it at once, as an upload without association does.                      *)
ChatUndoes ==
  /\ Undoing("idle")
  /\ changes < MaxChanges
  /\ changes' = changes + 1
  /\ \E i \in Rows :
       LET begin(mode, pc) == chat' = [pc |-> pc, mode |-> mode, driver |-> i,
                                       car |-> active[i]]
       IN \/ /\ active[i] \in known \ linked
             /\ \E mode \in {"CREATION", "UPDATE"} : begin(mode, "car")
          \/ /\ active[i] \in linked \cup {None}
             /\ begin("CREATION", "driver") \/ begin("UPDATE", "close")
          \/ /\ active[i] # None
             /\ begin("UPLOAD", "close")
  /\ UNCHANGED <<park, tables, runs, failures>>

(* Other associations may name the car.  A car that is gone ends it.       *)
RemoveCar ==
  /\ Undoing("car")
  /\ IF chat.car \notin known THEN StopUndoing /\ UNCHANGED <<known, linked, active>>
     ELSE /\ known' = known \ {chat.car}
          /\ linked' = linked \ {chat.car}
          /\ active' = [i \in DOMAIN active |-> IF active[i] = chat.car THEN Gone ELSE active[i]]
          /\ Continue(CASE chat.mode = "CREATION" -> "driver"
                        [] chat.mode = "UPDATE"   -> "close"
                        [] OTHER                  -> "reopen")
  /\ UNCHANGED <<park, drivers, runs, changes, failures>>

(* With the row of the licence, which is not kept here.                    *)
RemoveDriver ==
  /\ Undoing("driver")
  /\ drivers' = [drivers EXCEPT ![chat.driver] = Removed]
  /\ Continue("close")
  /\ UNCHANGED <<park, known, linked, active, runs, changes, failures>>

(* In mode CREATION the association may be a closed one; otherwise it is   *)
(* the one found first, which a run may have closed since.                 *)
RemoveAssociation ==
  /\ Undoing("close")
  /\ LET i    == chat.driver
         same == chat.car # None /\ active[i] \in {chat.car, Gone}
         none == [active EXCEPT ![i] = None]
     IN IF chat.mode = "CREATION"
        THEN active' \in {active, none} /\ StopUndoing
        ELSE /\ active' = IF same THEN none ELSE active
             /\ Continue(IF chat.mode = "UPDATE" THEN "reopen" ELSE "car")
  /\ UNCHANGED <<park, known, linked, drivers, runs, changes, failures>>

(* If there is a closed one, and no run has opened another meanwhile.      *)
Reopen ==
  /\ Undoing("reopen")
  /\ \/ /\ active[chat.driver] = None
        /\ \E car \in known \cup {Gone} : active' = [active EXCEPT ![chat.driver] = car]
     \/ UNCHANGED active
  /\ StopUndoing
  /\ UNCHANGED <<park, known, linked, drivers, runs, changes, failures>>

(* A call fails, and is swallowed, or the process dies.                    *)
ChatFails ==
  /\ ~Undoing("idle")
  /\ StopUndoing
  /\ UNCHANGED <<park, tables, runs, changes, failures>>

(* Some cars and one driver at most have come through the chat before, the *)
(* driver with or without its profile.                                     *)
Init ==
  /\ park \in [Profiles -> Descriptions] /\ IsPark(park)
  /\ known \in SUBSET Vehicles
  /\ linked = {}
  /\ \/ drivers = << >> /\ active = << >>
     \/ \E p \in Profiles \cup {None}, n \in Phones, l \in Licences, v \in known \cup {None} :
          /\ drivers = <<[profile |-> p, phone |-> n, licence |-> l]>>
          /\ active = <<v>>
  /\ runs = [r \in Runs |-> Idle]
  /\ chat = NoChat
  /\ changes = 0
  /\ failures = 0

Step(r) ==
  \/ ListCars(r) \/ SyncCar(r) \/ ListDriverProfiles(r) \/ EndRun(r)
  \/ FindDriver(r) \/ UpdateDriver(r) \/ CreateDriver(r)
  \/ CheckAssociation(r) \/ CloseAssociation(r) \/ OpenAssociation(r) \/ FailItem(r)

Chat ==
  \/ ChatUndoes \/ RemoveCar \/ RemoveDriver \/ RemoveAssociation \/ Reopen
  \/ ChatFails

Next == (\E r \in Runs : Step(r)) \/ ChangePark \/ Chat

Spec == Init /\ [][Next]_vars

(* Cron starts a run every hour, and the event loop goes on with it.       *)
Fairness == \A r \in Runs : WF_vars(Step(r))

FairSpec == Spec /\ Fairness

(***************************************************************************)
(* Properties.                                                             *)
(***************************************************************************)
ChatLabels == {"idle", "car", "driver", "close", "reopen"}
DriverRow == [profile : Profiles \cup {None}, phone : Phones, licence : Licences]

(* The tables and their unique columns; the chat may take rows away, but   *)
(* none comes to hold a profile, a phone or a licence of another.          *)
TypeOK ==
  /\ park \in [Profiles -> Descriptions]
  /\ linked \subseteq known /\ known \subseteq Vehicles
  /\ drivers \in Seq(DriverRow \cup {Removed})
  /\ active \in Seq(known \cup {None, Gone})
  /\ Len(active) = Len(drivers)
  /\ chat \in [pc : ChatLabels, mode : {None, "CREATION", "UPDATE", "UPLOAD"},
               driver : 0..Len(drivers), car : Vehicles \cup {None, Gone}]
  /\ \A i, j \in Rows : i # j =>
       /\ drivers[i].profile # drivers[j].profile \/ drivers[i].profile = None
       /\ drivers[i].phone # drivers[j].phone
       /\ drivers[i].licence # drivers[j].licence

Mirrored(p) ==
  \E i \in ByProfile(p) :
    /\ drivers[i].phone = park[p].phone
    /\ park[p].licence \in {None, drivers[i].licence}
    /\ park[p].car # None => active[i] = park[p].car

(* The rows that hold something of a profile.                              *)
Holders(p) ==
  {i \in Rows :
     \/ drivers[i].profile = p
     \/ drivers[i].phone = park[p].phone
     \/ drivers[i].licence = park[p].licence}

(* What may keep a profile out for ever: it has no phone, it is new and    *)
(* has no licence, or its id, phone and licence are on different rows.     *)
Kept(p) ==
  \/ park[p].phone = None
  \/ Holders(p) = {} /\ park[p].licence = None
  \/ \E i, j \in Holders(p) : i # j

(* Once the park stays as it is, the tables come to say of every driver    *)
(* what the park says, and keep saying it, although items and lists fail,  *)
(* a run works on a list that is out of date, and the chat takes away the  *)
(* association, the car or the row of a driver under it; only a driver who *)
(* lacks a phone or a licence, or whose are on two rows, is left out       *)
(* (syncYangoData, when a run ends within its hour).                       *)
ParkIsMirrored == <>[](\A p \in Profiles : Mirrored(p) \/ Kept(p))
=============================================================================
