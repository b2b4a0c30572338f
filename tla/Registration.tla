---------------------------- MODULE Registration ----------------------------
(***************************************************************************)
(* The fleet tables as the chat writes them: the uploads of                *)
(* ocr-space.service.ts, the three Yango workers of rabbitmq.service.ts    *)
(* call by call, and deleteInfoCollected, which undoes what a conversation *)
(* that fails has collected.                                               *)
(*                                                                         *)
(* A user waits for the answer to a message before the next one, so that a *)
(* user is one computation; the computations of different users interleave *)
(* and meet in the cars and the licence numbers.  The job of a user ends   *)
(* before the five minutes of silence after which the undertaker comes.  A *)
(* phone number belongs to one user, who has verified it (module Otp).     *)
(* What a conversation says before its first document is the stage "menu"; *)
(* strikes are counted in module Conversation: here a bad answer may end   *)
(* any conversation, and one that does not end it changes nothing.  Every  *)
(* awaited call of an upload, a worker or an undoing may throw, and so may *)
(* the first call of an abort; an undoing writes all it has to or nothing. *)
(* The park (external) holds what Yango was told by these workers; files   *)
(* and the associations of drivers without row are left out.               *)
(***************************************************************************)
EXTENDS Integers, Sequences

CONSTANTS
  Users,             \* WhatsApp numbers
  Phones,            \* phone numbers
  Owner,             \* who holds a phone number
  Licences,          \* licence numbers
  Plates,            \* plate numbers
  MaxConversations,  \* bound: conversations begun
  MaxFaults          \* bound: crashes of the process, and calls that throw

ASSUME OwnerAssumption == Owner \in [Phones -> Users]
ASSUME PhonesAssumption == "none" \notin Phones
ASSUME RegistrationBounds == MaxConversations \in Nat /\ MaxFaults \in Nat

VARIABLES
  drivers,  \* DriverPersonnalInfo in creation order; a row holds the phone of
            \* its licence row, if it has one (card), the car of its open
            \* association, and the cars of its closed ones, the one updated
            \* last first (past)
  cars,     \* CarInfo
  lastCar,  \* the last id given to a car
  park,     \* Yango: the profiles created, with their phone and their car
  at,       \* the conversation of each user, and the computation that serves it
  told,     \* observer: the last closing message of each user
  confirmed,  \* observer: the profiles whose drivers were told that they are in,
              \* and not told otherwise by the same worker
  begun,    \* conversations begun so far
  faults    \* crashes and exceptions so far

vars == <<drivers, cars, lastCar, park, at, told, confirmed, begun, faults>>
tables == <<drivers, cars, lastCar>>

None == 0
Nobody == [stage |-> "none", pc |-> "await", flow |-> "none", mode |-> "UPDATE",
           phone |-> "none", new |-> "none", plate |-> "none", car |-> None,
           profile |-> None]

Silence == [text |-> "none", phone |-> "none", plate |-> "none", car |-> None]

(* What a computation was about is forgotten with it.                      *)
Idle(conv) == [conv EXCEPT !.pc = "await", !.mode = "UPDATE", !.plate = "none", !.car = None,
                           !.profile = None]

At(u, pc) == at[u].pc = pc
Awaits(u, stage) == at[u].stage = stage /\ At(u, "await")
Set(u, conv) == at' = [at EXCEPT ![u] = conv]
Goto(u, pc) == at' = [at EXCEPT ![u].pc = pc]

(* The closing message, with what it is about.                             *)
Tell(u, text, phone) ==
  told' = [told EXCEPT ![u] = [text |-> text, phone |-> phone, plate |-> at[u].plate,
                               car |-> at[u].car]]

(* A call throws, or the process dies.                                     *)
Fault == faults < MaxFaults /\ faults' = faults + 1

(***************************************************************************)
(* Lookups.                                                                *)
(***************************************************************************)
ByPhone(p) == {i \in DOMAIN drivers : drivers[i].phone = p}
ByLicence(l) == {i \in DOMAIN drivers : drivers[i].licence = l}
ByCard(p) == {i \in DOMAIN drivers : drivers[i].card = p}
ByPlate(plate) == {c \in cars : c.plate = plate}
Row(id) == {c \in cars : c.id = id}
OnYango(id) == \E c \in Row(id) : c.yango

(* The driver row of the number given in the conversation.                 *)
Mine(u) == CHOOSE i \in ByPhone(at[u].phone) : TRUE
Driver(u) == drivers[Mine(u)]

ByWha(u) == {i \in DOMAIN drivers : drivers[i].wha = u}

FaultyNewest(u) == CHOOSE i \in ByWha(u) : \A j \in ByWha(u) : i <= j

(* findDriverPersonalInfoByWhaPhoneNumber: orderBy createdAt desc.         *)
Newest(u) == CHOOSE i \in ByWha(u) : \A j \in ByWha(u) : i >= j

(***************************************************************************)
(* The dialogue before the documents.                                      *)
(***************************************************************************)
Start(u) ==
  /\ Awaits(u, "none")
  /\ begun < MaxConversations
  /\ begun' = begun + 1
  /\ Set(u, [Nobody EXCEPT !.stage = "menu"])
  /\ told' = [told EXCEPT ![u] = Silence]
  /\ UNCHANGED <<tables, park, confirmed, faults>>

(* A new number must have no driver, a known one must have one.            *)
GiveNumber(u) ==
  /\ Awaits(u, "menu")
  /\ \E p \in Phones :
       /\ Owner[p] = u
       /\ \/ /\ ByPhone(p) = {}
             /\ Set(u, [at[u] EXCEPT !.stage = "front", !.flow = "register", !.phone = p])
          \/ /\ ByPhone(p) # {}
             /\ Set(u, [at[u] EXCEPT !.stage = "photo", !.flow = "change", !.phone = p])
          \/ /\ ByPhone(p) # {}
             /\ \E q \in Phones :
                  /\ Owner[q] = u /\ ByPhone(q) = {}
                  /\ Set(u, [at[u] EXCEPT !.stage = "waiting", !.pc = "number",
                                          !.flow = "move", !.phone = p, !.new = q])
  /\ UNCHANGED <<tables, park, told, confirmed, begun, faults>>

(* The offers end, or are stopped, without undoing anything.               *)
Leave(u) ==
  /\ Awaits(u, "menu")
  /\ Set(u, Nobody)
  /\ UNCHANGED <<tables, park, told, confirmed, begun, faults>>

(***************************************************************************)
(* Endings.  abortConversation tells the user and then undoes, in the mode *)
(* of its caller; strikes and the undertaker undo in mode UPDATE.          *)
(***************************************************************************)
Abort(u, mode) ==
  /\ Set(u, [Idle(at[u]) EXCEPT !.pc = "judge", !.mode = mode])
  /\ told' = [told EXCEPT ![u] =
                 IF at[u].flow = "register"
                 THEN [Silence EXCEPT !.text = "retry", !.phone = at[u].phone] ELSE Silence]

(* A document is refused: a first bad answer, or the second.               *)
Refuse(u) ==
  \/ Set(u, Idle(at[u])) /\ UNCHANGED told
  \/ Abort(u, "UPDATE")

(* Two bad answers, or five minutes of silence.                            *)
GiveUp(u) ==
  /\ at[u].stage # "none" /\ At(u, "await")
  /\ \/ Abort(u, "UPDATE")
     \/ /\ Set(u, [Idle(at[u]) EXCEPT !.pc = "judge"])
        /\ told' = [told EXCEPT ![u] = Silence]
  /\ UNCHANGED <<tables, park, confirmed, begun, faults>>

Without(i) == [j \in 1..Len(drivers) - 1 |-> IF j < i THEN drivers[j] ELSE drivers[j + 1]]

(* The open association goes, the last of the closed ones is opened again. *)
Reopened(d) ==
  IF d.past = << >> THEN [d EXCEPT !.car = None]
  ELSE [d EXCEPT !.car = Head(d.past), !.past = Tail(d.past)]

(* What deleteInfoCollected does after the car: in mode CREATION licence,  *)
(* driver and association go, in mode UPDATE the open association does.    *)
Undone(u) ==
  LET i == Newest(u)
  IN IF at[u].mode = "CREATION" THEN Without(i)
     ELSE [drivers EXCEPT ![i] = Reopened(drivers[i])]

(* deleteInfoCollected up to the car: without driver it returns, at an     *)
(* association whose car has no row it fails, and the error is swallowed.  *)
Judge(u) ==
  /\ At(u, "judge")
  /\ LET car == drivers[Newest(u)].car
     IN IF ByWha(u) = {} \/ (car # None /\ Row(car) = {})
        THEN Goto(u, "end") /\ UNCHANGED drivers
        ELSE IF car = None \/ OnYango(car)
        THEN Goto(u, "end") /\ drivers' = Undone(u)
        ELSE Goto(u, "forget") /\ UNCHANGED drivers
  /\ UNCHANGED <<cars, lastCar, park, told, confirmed, begun, faults>>

(* The car goes, unless somebody was faster: then nothing else goes.       *)
Forget(u) ==
  /\ At(u, "forget")
  /\ LET row == Row(drivers[Newest(u)].car)
     IN /\ cars' = cars \ row
        /\ drivers' = IF row = {} THEN drivers ELSE Undone(u)
  /\ Goto(u, "end")
  /\ UNCHANGED <<lastCar, park, told, confirmed, begun, faults>>

(* What deleteInfoCollected throws before it writes is swallowed there.     *)
UndoThrows(u) ==
  /\ at[u].pc \in {"judge", "forget"}
  /\ Fault
  /\ Goto(u, "end")
  /\ UNCHANGED <<tables, park, told, confirmed, begun>>

End(u) ==
  /\ At(u, "end")
  /\ Set(u, Nobody)
  /\ UNCHANGED <<tables, park, told, confirmed, begun, faults>>

(***************************************************************************)
(* The uploads.                                                            *)
(***************************************************************************)
NewDriver(u, l, dated) ==
  [wha |-> u, phone |-> at[u].phone, licence |-> l,
   card |-> IF dated THEN at[u].phone ELSE "none", profile |-> None, car |-> None,
   past |-> << >>]

(* The front of the licence: its number and the phone must be new, as that *)
(* of a driver and as that of a licence row.  The driver is created, then  *)
(* the licence row, which fails without a date of delivery: then the       *)
(* driver row stays, and the photo is refused.                             *)
ReadFront(u) ==
  /\ Awaits(u, "front")
  /\ \E l \in Licences, dated \in BOOLEAN :
       IF ByLicence(l) # {} \/ ByPhone(at[u].phone) # {} \/ ByCard(at[u].phone) # {}
       THEN Refuse(u) /\ UNCHANGED drivers
       ELSE /\ drivers' = Append(drivers, NewDriver(u, l, dated))
            /\ IF dated THEN Goto(u, "advance") /\ UNCHANGED told ELSE Refuse(u)
  /\ UNCHANGED <<cars, lastCar, park, confirmed, begun, faults>>

(* The back updates the licence row of the phone.                          *)
ReadBack(u) ==
  /\ Awaits(u, "back")
  /\ IF ByCard(at[u].phone) # {}
     THEN Goto(u, "advance") /\ UNCHANGED told
     ELSE Refuse(u)
  /\ UNCHANGED <<tables, park, confirmed, begun, faults>>

(* Before a new association a change of car closes the open one.           *)
Link(u) == IF at[u].flow = "change" THEN "close" ELSE "associate"

(* The registration of a car: not the car the driver has.  The row of the  *)
(* plate is taken, whoever uses it; of the two lookups the last one counts. *)
ReadPlate(u) ==
  /\ Awaits(u, "photo")
  /\ \E plate \in Plates :
       LET found == ByPlate(plate)
       IN IF ByPhone(at[u].phone) = {} \/ \E c \in found : Driver(u).car = c.id
          THEN Refuse(u)
          ELSE IF found = {}
          THEN Set(u, [at[u] EXCEPT !.pc = "create", !.plate = plate]) /\ UNCHANGED told
          ELSE \E c \in found :
                 /\ Set(u, [at[u] EXCEPT !.pc = Link(u), !.plate = plate, !.car = c.id])
                 /\ UNCHANGED told
  /\ UNCHANGED <<tables, park, confirmed, begun, faults>>

FaultyClashes(plate) == FALSE

(* plateNumber is unique: somebody may have created the row meanwhile.     *)
Clashes(plate) == ByPlate(plate) # {}

CreateCar(u) ==
  /\ At(u, "create")
  /\ IF Clashes(at[u].plate)
     THEN Goto(u, "undo") /\ UNCHANGED <<cars, lastCar>>
     ELSE /\ lastCar' = lastCar + 1
          /\ cars' = cars \cup {[id |-> lastCar', plate |-> at[u].plate, yango |-> FALSE]}
          /\ Set(u, [at[u] EXCEPT !.pc = Link(u), !.car = lastCar'])
  /\ UNCHANGED <<drivers, park, told, confirmed, begun, faults>>

Closed(d) == IF d.car = None THEN d ELSE [d EXCEPT !.car = None, !.past = <<d.car>> \o @]

(* updateEndDateByDriverId.                                                *)
Close(u) ==
  /\ At(u, "close")
  /\ drivers' = [drivers EXCEPT ![Mine(u)] = Closed(@)]
  /\ Goto(u, "associate")
  /\ UNCHANGED <<cars, lastCar, park, told, confirmed, begun, faults>>

(* unique_active_driver refuses a second open association.                 *)
Associate(u) ==
  /\ At(u, "associate")
  /\ IF Driver(u).car # None
     THEN Goto(u, "undo") /\ UNCHANGED drivers
     ELSE Goto(u, "advance") /\ drivers' = [drivers EXCEPT ![Mine(u)].car = at[u].car]
  /\ UNCHANGED <<cars, lastCar, park, told, confirmed, begun, faults>>

UploadThrows(u) ==
  /\ at[u].pc \in {"create", "close", "associate"}
  /\ Fault
  /\ Goto(u, "undo")
  /\ UNCHANGED <<tables, park, told, confirmed, begun>>

(* The catch of the upload removes the association the driver has and its  *)
(* car, and opens the last closed one; a car without row stops it halfway. *)
Undo(u) ==
  /\ At(u, "undo")
  /\ LET d == Driver(u)
     IN IF d.car = None
        THEN UNCHANGED <<drivers, cars>>
        ELSE /\ cars' = cars \ Row(d.car)
             /\ drivers' = [drivers EXCEPT ![Mine(u)] =
                              IF Row(d.car) = {} THEN [d EXCEPT !.car = None] ELSE Reopened(d)]
  /\ Refuse(u)
  /\ UNCHANGED <<lastCar, park, confirmed, begun, faults>>

NextStage == [front |-> "back", back |-> "photo", photo |-> "waiting"]

(* saveMessage; after the last document the job is pushed.                 *)
Advance(u) ==
  /\ At(u, "advance")
  /\ Set(u, [at[u] EXCEPT !.stage = NextStage[@],
                          !.pc = IF at[u].stage = "photo" THEN "take" ELSE "await"])
  /\ UNCHANGED <<tables, park, told, confirmed, begun, faults>>

(***************************************************************************)
(* The workers.  Yango accepts, refuses, or an exception is thrown: then   *)
(* it may have accepted all the same.                                      *)
(***************************************************************************)
Answers == {"accepted", "refused", "thrown"}

FaultyPassed(answer) == answer # "thrown"
Passed(answer) == answer = "accepted"

Done(answer) == IF answer = "thrown" THEN BOOLEAN ELSE {answer = "accepted"}

Fail(u) == Abort(u, IF at[u].flow = "register" THEN "CREATION" ELSE "UPDATE")

OpenCar(d) == {d.car} \ {None}
PastCars(d) == {d.past[k] : k \in DOMAIN d.past}

FaultyJobCars(u) == OpenCar(Driver(u)) \cup PastCars(Driver(u))

(* The car of the job: that of any association of a driver who registers,  *)
(* that of the open association of a driver who changes car.               *)
JobCars(u) ==
  IF at[u].flow = "register" THEN OpenCar(Driver(u)) \cup PastCars(Driver(u))
                             ELSE OpenCar(Driver(u))

(* The beginning of handleCreateYangoProfile and of handleCreateYangoCar.  *)
TakeJob(u) ==
  /\ At(u, "take")
  /\ \/ /\ JobCars(u) = {}
        /\ Fail(u)
     \/ \E id \in JobCars(u) :
          IF Row(id) = {} THEN Fail(u)
          ELSE /\ \E c \in Row(id) :
                    Set(u, [at[u] EXCEPT !.car = id, !.plate = c.plate,
                                         !.pc = IF ~c.yango THEN "vehicle"
                                                ELSE IF at[u].flow = "register" THEN "profile"
                                                ELSE "bind"])
               /\ UNCHANGED told
  /\ UNCHANGED <<tables, park, confirmed, begun, faults>>

(* The association with the previous car, made again before the abort.     *)
Restored(d) == [Closed(d) EXCEPT !.car = Head(d.past)]

(* createCar, for the car of the open association as it is now.            *)
CreateVehicle(u) ==
  /\ At(u, "vehicle")
  /\ \E answer \in IF Row(Driver(u).car) = {} THEN {"thrown"} ELSE Answers :
       IF Passed(answer)
       THEN /\ Goto(u, IF at[u].flow = "register" THEN "profile" ELSE "bind")
            /\ UNCHANGED <<drivers, told>>
       ELSE /\ Fail(u)
            /\ drivers' =
                 IF answer = "refused" /\ at[u].flow = "change" /\ Driver(u).past # << >>
                 THEN [drivers EXCEPT ![Mine(u)] = Restored(@)]
                 ELSE drivers
  /\ UNCHANGED <<cars, lastCar, park, confirmed, begun, faults>>

(* createProfile, from the licence row; a profile whose answer is lost     *)
(* stays at Yango, unknown to everything here.                             *)
CreateProfile(u) ==
  /\ At(u, "profile")
  /\ \E answer \in IF ByCard(at[u].phone) # {} THEN Answers ELSE {"thrown"} :
       IF Passed(answer)
       THEN /\ park' = Append(park, [phone |-> at[u].phone, plate |-> "none"])
            /\ Set(u, [at[u] EXCEPT !.pc = "bind", !.profile = Len(park) + 1])
            /\ UNCHANGED told
       ELSE Fail(u) /\ UNCHANGED park
  /\ UNCHANGED <<tables, confirmed, begun, faults>>

Profile(u) == IF at[u].flow = "register" THEN at[u].profile ELSE Driver(u).profile

(* bindingDriverToCar; Yango refuses a profile it does not know.           *)
Bind(u) ==
  /\ At(u, "bind")
  /\ \E answer \in Answers, done \in BOOLEAN :
       /\ IF Profile(u) = None THEN answer # "accepted" /\ ~done ELSE done \in Done(answer)
       /\ park' = IF done THEN [park EXCEPT ![Profile(u)].plate = at[u].plate] ELSE park
       /\ IF Passed(answer)
          THEN Goto(u, IF at[u].flow = "register" THEN "save" ELSE "keep") /\ UNCHANGED told
          ELSE Fail(u)
  /\ UNCHANGED <<tables, confirmed, begun, faults>>

(* The driver row takes the profile.                                       *)
Save(u) ==
  /\ At(u, "save")
  /\ drivers' = [drivers EXCEPT ![Mine(u)].profile = at[u].profile]
  /\ Goto(u, "keep")
  /\ UNCHANGED <<cars, lastCar, park, told, confirmed, begun, faults>>

(* The car row takes its id at Yango; if it is gone the update throws.     *)
SaveCar(u) ==
  /\ At(u, "keep")
  /\ IF Row(at[u].car) = {}
     THEN Fail(u) /\ UNCHANGED cars
     ELSE /\ cars' = {IF c.id = at[u].car THEN [c EXCEPT !.yango = TRUE] ELSE c : c \in cars}
          /\ Goto(u, "announce") /\ UNCHANGED told
  /\ UNCHANGED <<drivers, lastCar, park, confirmed, begun, faults>>

(* getDriverProfile and updateDriverPhone.                                 *)
MoveNumber(u) ==
  /\ At(u, "number")
  /\ \E answer \in Answers, done \in BOOLEAN :
       /\ IF Driver(u).profile = None THEN answer # "accepted" /\ ~done
                                      ELSE done \in Done(answer)
       /\ park' = IF done THEN [park EXCEPT ![Driver(u).profile].phone = at[u].new] ELSE park
       /\ IF Passed(answer) THEN Goto(u, "move") /\ UNCHANGED told ELSE Fail(u)
  /\ UNCHANGED <<tables, confirmed, begun, faults>>

(* The driver row takes the new number.                                    *)
SaveNumber(u) ==
  /\ At(u, "move")
  /\ drivers' = [drivers EXCEPT ![Mine(u)].phone = at[u].new]
  /\ Goto(u, "licence")
  /\ UNCHANGED <<cars, lastCar, park, told, confirmed, begun, faults>>

(* The licence row of the old number takes the new one, which is unique;   *)
(* without such a row the update throws.                                   *)
SaveLicence(u) ==
  /\ At(u, "licence")
  /\ IF ByCard(at[u].phone) = {} \/ ByCard(at[u].new) # {}
     THEN Fail(u) /\ UNCHANGED drivers
     ELSE /\ \E i \in ByCard(at[u].phone) : drivers' = [drivers EXCEPT ![i].card = at[u].new]
          /\ Goto(u, "announce") /\ UNCHANGED told
  /\ UNCHANGED <<cars, lastCar, park, confirmed, begun, faults>>

(* The success is told, with the tables written.                           *)
Closing == [register |-> "welcome", change |-> "changed", move |-> "moved"]

Announce(u) ==
  /\ At(u, "announce")
  /\ Tell(u, Closing[at[u].flow], IF at[u].flow = "move" THEN at[u].new ELSE at[u].phone)
  /\ confirmed' = IF at[u].flow = "move" THEN confirmed ELSE confirmed \cup {Profile(u)}
  /\ Goto(u, "told")
  /\ UNCHANGED <<tables, park, begun, faults>>

(* The history is closed, and the messages go.                             *)
Conclude(u) ==
  /\ At(u, "told")
  /\ Goto(u, "end")
  /\ UNCHANGED <<tables, park, told, confirmed, begun, faults>>

Working == {"take", "vehicle", "profile", "bind", "save", "keep", "number", "move", "licence",
            "announce", "told"}

(* The catch of a worker is around all its calls, those after the success  *)
(* was told too: the request log of that message, the history.  It aborts, *)
(* so that a driver who was told to be in is told that this failed.        *)
WorkThrows(u) ==
  /\ at[u].pc \in Working
  /\ Fault
  /\ Fail(u)
  /\ confirmed' = IF at[u].flow = "register" THEN confirmed \ {at[u].profile} ELSE confirmed
  /\ UNCHANGED <<tables, park, begun>>

(* The abort throws as well: nothing is told, nothing undone.              *)
AbortThrows(u) ==
  /\ at[u].pc \in Working
  /\ Fault
  /\ Set(u, Idle(at[u]))
  /\ UNCHANGED <<tables, park, told, confirmed, begun>>

(***************************************************************************)
(* The process dies: every computation is gone, a job that was taken too,  *)
(* and the conversations are where their rows say.                         *)
(***************************************************************************)
Crash ==
  /\ Fault
  /\ \E u \in Users : ~At(u, "await")
  /\ at' = [u \in Users |-> IF At(u, "await") THEN at[u] ELSE Idle(at[u])]
  /\ UNCHANGED <<tables, park, told, confirmed, begun>>

(* One driver at most, with or without a car, is in before.                *)
Init ==
  /\ \/ drivers = << >> /\ cars = {} /\ lastCar = 0 /\ park = << >> /\ confirmed = {}
     \/ \E p \in Phones, l \in Licences, plate \in Plates \cup {"none"} :
          /\ lastCar = IF plate = "none" THEN 0 ELSE 1
          /\ cars = {[id |-> k, plate |-> plate, yango |-> TRUE] : k \in 1..lastCar}
          /\ drivers = <<[wha |-> Owner[p], phone |-> p, licence |-> l, card |-> p,
                          profile |-> 1, car |-> lastCar, past |-> << >>]>>
          /\ park = <<[phone |-> p, plate |-> plate]>>
          /\ confirmed = {1}
  /\ at = [u \in Users |-> Nobody]
  /\ told = [u \in Users |-> Silence]
  /\ begun = 0
  /\ faults = 0

Next ==
  \/ \E u \in Users :
       \/ Start(u) \/ GiveNumber(u) \/ Leave(u)
       \/ GiveUp(u) \/ Judge(u) \/ Forget(u) \/ UndoThrows(u) \/ End(u)
       \/ ReadFront(u) \/ ReadBack(u) \/ ReadPlate(u) \/ CreateCar(u) \/ Close(u)
       \/ Associate(u) \/ UploadThrows(u) \/ Undo(u) \/ Advance(u)
       \/ TakeJob(u) \/ CreateVehicle(u) \/ CreateProfile(u) \/ Bind(u) \/ Save(u)
       \/ SaveCar(u) \/ MoveNumber(u) \/ SaveNumber(u) \/ SaveLicence(u)
       \/ Announce(u) \/ Conclude(u) \/ WorkThrows(u) \/ AbortThrows(u)
  \/ Crash

Spec == Init /\ [][Next]_vars

(***************************************************************************)
(* Properties.                                                             *)
(***************************************************************************)
Stages == {"none", "menu", "front", "back", "photo", "waiting"}
Labels == {"await", "judge", "forget", "end", "advance", "create", "close", "associate", "undo"}
          \cup Working
CarIds == 0..lastCar
DriverRow == [wha : Users, phone : Phones, licence : Licences, card : Phones \cup {"none"},
              profile : 0..Len(park), car : CarIds, past : Seq(CarIds \ {None})]
CarRow == [id : CarIds \ {None}, plate : Plates, yango : BOOLEAN]

(* The tables and their unique columns, which the code relies on when two  *)
(* users give the same plate or licence at once, and when a change of      *)
(* number stops between the driver row and the licence row: a phone, a     *)
(* licence, the phone of a licence, a profile, a plate and an id have one  *)
(* row, of the user who holds the phone.                                   *)
TypeOK ==
  /\ drivers \in Seq(DriverRow)
  /\ \A i, j \in DOMAIN drivers : i # j =>
       /\ drivers[i].phone # drivers[j].phone
       /\ drivers[i].licence # drivers[j].licence
       /\ drivers[i].card = drivers[j].card => drivers[i].card = "none"
       /\ drivers[i].profile = drivers[j].profile => drivers[i].profile = None
  /\ \A i \in DOMAIN drivers : Owner[drivers[i].phone] = drivers[i].wha
  /\ cars \subseteq CarRow
  /\ \A c, d \in cars : c # d => c.id # d.id /\ c.plate # d.plate
  /\ \A k \in DOMAIN park : park[k] \in [phone : Phones, plate : Plates \cup {"none"}]
  /\ \A u \in Users : at[u].stage \in Stages /\ at[u].pc \in Labels
  /\ \A u \in Users :
       told[u].text \in {"none", "retry", "welcome", "changed", "moved"}
  /\ confirmed \subseteq DOMAIN park

(* The driver row that a closing message is about, if it is complete.      *)
Subject(u) ==
  {i \in ByPhone(told[u].phone) :
     drivers[i].wha = u /\ drivers[i].card # "none" /\ drivers[i].profile # None}

AtYango(i) == park[drivers[i].profile]

(* "Votre inscription chez MBP est validée" (seeder/constants.ts:199): as  *)
(* long as the user starts nothing new, the driver has a profile at Yango  *)
(* with the number they proved, bound to the car they drive here, whatever *)
(* other users do with the same car (handleCreateYangoProfile).            *)
WelcomeIsTrue ==
  \A u \in Users : told[u].text = "welcome" =>
    \E i \in Subject(u) :
      /\ AtYango(i) = [phone |-> told[u].phone, plate |-> told[u].plate]
      /\ drivers[i].car = told[u].car

(* "Votre nouveau véhicule immatriculé ... est associé à votre compte"     *)
(* (seeder/constants.ts:275): the car of the open association is the one   *)
(* Yango has bound to the profile (handleCreateYangoCar).                  *)
ChangedIsTrue ==
  \A u \in Users : told[u].text = "changed" =>
    \E i \in Subject(u) :
      AtYango(i).plate = told[u].plate /\ drivers[i].car = told[u].car

(* "Votre numéro a été mis à jour avec succès" (seeder/constants.ts:354):  *)
(* at Yango, in the driver row and in a licence row of the user, although  *)
(* the three are written one after the other (handleUpdateYangoDriverInfo). *)
MovedIsTrue ==
  \A u \in Users : told[u].text = "moved" =>
    /\ \E i \in Subject(u) : AtYango(i).phone = told[u].phone
    /\ \E i \in ByCard(told[u].phone) : drivers[i].wha = u

(* The worker that tells a driver to be in may fail afterwards: then it    *)
(* says so, and undoes the registration.  But for that, however this and   *)
(* later conversations end, nothing takes the row of a driver who was told *)
(* to be in, although an undoing finds the row by the WhatsApp number      *)
(* alone (handleCreateYangoProfile, deleteInfoCollected).                  *)
ConfirmedIsKept ==
  \A p \in confirmed :
    \E i \in DOMAIN drivers : drivers[i].profile = p /\ drivers[i].card # "none"

(* "Pour reéssayer envoyer "Start"" (seeder/constants.ts:184): the number  *)
(* of a registration that failed is not refused as already associated with *)
(* a driver (deleteInfoCollected, handlePhoneNumberStep).                  *)
RetryIsWelcome ==
  \A u \in Users :
    told[u].text = "retry" /\ at[u].stage = "none" => ByPhone(told[u].phone) = {}
=============================================================================
