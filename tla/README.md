# A verification of mbp_chatbot

mbp_chatbot is a NestJS service through which drivers register with a Yango
partner over WhatsApp: they answer questions, verify a phone number by SMS,
send photos of their documents, and the service creates or updates their
profile at Yango. Cron jobs bury silent conversations and copy the park and its
orders from Yango. This directory holds TLA+ modules for it, the TLC
configurations that check them, and the proofs TLAPS checks. Paths below are
relative to the root of the repository.

## 1. The system

Everything runs in one Node process. The unit of concurrency is an
asynchronous computation: a handler started by a message of a queue or by cron,
which other computations may overtake at every `await`. The queues are consumed
without acknowledgement and without a limit on what is in progress. There are
no transactions: each Prisma call commits by itself.

| Component | State | Operations | Talks to |
|---|---|---|---|
| Step catalogue (`seeder/constants.ts`, `step.service.ts`) | tables Flow, Step | seeding, lookups by level and flow | read by every handler, some of which compute with step ids |
| Conversation engine (`rabbitmq.service.ts` 100-1050, 1708-1736) | tables Conversation, HistoryConversation, User | handle a message, back, stop, abort, bury | catalogue, codes, OCR, fleet tables, Yango queue, WhatsApp queue |
| Yango jobs (`rabbitmq.service.ts` 1184-1706) | jobs in one queue | create a profile, add a car, change a number | Yango API, fleet tables, conversation |
| One-time codes (`otp.service.ts`, `otp-verification`) | table OtpVerification | generate, send, verify, renew | SMS gateway |
| Registration, fleet tables (`ocr-space.service.ts`, `driver-*`, `car-info`, `document-file`) | DriverPersonnalInfo, DriverLicenseInfo, CarInfo, DriverCar, DocumentFile | uploads, associations, `deleteInfoCollected` | OCR, OpenAI |
| Park synchronisation (`rabbitmq.service.ts` 1738-1750, 1936-2129) | the fleet tables | hourly copy of vehicles and profiles | Yango API |
| Order synchronisation (`rabbitmq.service.ts` 1752-1934) | DriverOrder, SyncJobLog | list the closed days every eight hours | Yango API, with retries |
| Webhook, WhatsApp client, broker | queues | receive, send | RabbitMQ, Whapi |
| Request log, CRUD controllers | table RequestLog | append; one Prisma call each | nothing |

What is hard:

* **Interleaving.** Two messages of one user are handled at once, each with the
  conversation row that was the newest when it arrived (`lastConversation`).
  Workers and the undertaker (`deleteOldConversations`) touch the same rows.
  `badResponseCount` is written from the snapshot.
* **Order.** Replies leave before the rows are changed; delays of ten seconds
  sit between a row and the code it announces.
* **Crashes and losses.** A crash loses the message, leaves rows half way, and
  nothing resumes them. Errors of the WhatsApp API are swallowed.
* **Arithmetic on ids.** `step.id + 1` and `stepId - 1` stand for the next and
  the previous step, across flows.
* **Time.** Five minutes of silence, three minutes of a code, midnight during a
  run, runs that overlap.
* **Partial failure.** An item or a day that fails inside a loop, a Yango call
  that fails after another succeeded.

What makes each component correct:

* conversation: no question is skipped, whatever interleaves; nothing is asked
  of Yango before every question of the flow is answered; an abort is earned by
  two bad answers; the history says nothing that did not happen; a
  conversation ends; what the texts promise is true;
* codes: the number used is the user's own, and was verified; expiry and renewal
  are as the texts say;
* order synchronisation: a log that says a day was listed is true; a day is
  not left behind lightly;
* park synchronisation: the tables come to say what the park says;
* registration: what a closing message says is true here and at Yango; nothing
  takes a driver who was told to be in, but the worker that said so, failed
  afterwards and says that too; a plate, a phone, a licence and a profile keep
  one row each whatever two users do at once; a registration that failed can be
  tried again (it cannot always, see below);
* order log: a report is opened, given one verdict or none, which only an error
  found afterwards turns into FAIL, and a success is one (the abstract module
  `Ledger`).

## 2. The modules

| Module | Models |
|---|---|
| `Steps` | the catalogue: ids, levels, flows, lookups, next step |
| `Conversation` (extends `Steps`) | the conversation engine, the undertaker, the life of a Yango job |
| `Conversation_proofs` | types and aborts of `Conversation`, proved |
| `ConversationPath_proofs` (extends `Conversation_proofs`) | the steps a conversation goes through, proved |
| `Otp` | one-time codes and the two handlers that use them |
| `Otp_proofs` | theorems about `Otp` |
| `Registration` | the uploads, the Yango workers call by call, and what a failed conversation undoes |
| `Registration_proofs` | theorems about `Registration` |
| `OrderSync` | the order synchronisation |
| `OrderSync_proofs` | theorems about `OrderSync` |
| `Ledger` | what the order log promises, in the abstract; `OrderSync` implements it |
| `Ledger_proofs` (extends `OrderSync_proofs`) | the proof that it does |
| `Outage_proofs` (extends `Ledger_proofs`) | the proof that only an outage loses a day |
| `FleetSync` | the park synchronisation |
| `FleetSync_proofs` | theorems about `FleetSync` |
| `MC_Conversation`, `MC_Otp`, `MC_Registration`, `MC_OrderSync`, `MC_FleetSync` | small instances for TLC |

### Steps

The seeder inserts `INITIAL_STEPS` in the order of the array, so on a fresh
database an id is a position. `Levels` and `FlowOf` give the level and flow of
each id. The sets `PhoneSteps`, `OtpSteps`, `DocumentSteps` say which handler a
step belongs to (the `switch` statements of `getFirstFlowSteps` and its
siblings), `NextStep` what a handler passes to `saveMessage`.

### Conversation

State: `convs`, `hist`, `users` are the tables; `stale` holds the rows whose
`updatedAt` is more than five minutes old; `threads` are the computations in
progress, `jobs` the queue of Yango jobs, `shown` the last message a user
received. `strikes` and `passed` are observers: no guard reads them.

A thread has a program counter `pc` that names the next await, the snapshot
`conv` it started with, and where to go after a shared subroutine (`after` for
`saveMessage`, `edit` for `editHistoryConversation`). One action is the code
between two awaits that matter: a database write that another thread can see,
or a read whose answer another thread can outdate. So `saveMessage` is
`CreateHistory`/`FindHistory`/`UpdateHistory`, `CreateConversation`,
`EmitPrompt`; `updateMessage` is `Strike` followed by a reply or by the chain of
`abortConversation` (history, `TellError`, `TellRetry`, `RemoveAll`);
`deleteOldConversations` is `StartRun`, `Visit`, `Bury`, `TellTimeout`, and the
history.

What the fleet tables, the OCR, the codes and Yango answer is a free choice
(`CheckDriver`, `VerifyOtp`, `ReadDocument`, `Work`): the properties hold
whatever they say. A message is a text with one meaning, a photo, or another
medium. Wording is left out, except which message invites to send Start.

### Otp

The clock is in minutes. `codes` is the table in creation order, `numbers` the
numbers in the rows of the code step of each user, `stage` what the newest row
waits for. `findFirst` without `orderBy` is a free choice among the numbers,
made once to verify one (`FindNumber`) and again to register one (`Register`).
Users are impatient: several handlers and jobs of one user may be under way, so
two rows of the code step may be there, a code may be judged after its
conversation was buried, and a job may read the number of the conversation that
followed (`jobs`, `Bury`, `EndJob`). `given` and `proved` are observers: the
numbers saved for the user, and those whose code was typed, since the bot last
forgot the user with nothing of theirs under way. `isUsed` is written and never
read, so it is not there.

### Registration

State: `drivers` is the table of drivers in creation order; a row holds its
licence row (`card`), the car of its open association and those of the closed
ones, the one updated last first. `cars` is CarInfo, `park` what Yango was told
by these workers. `at` is the conversation of each user with the computation
that serves it; `told` the last closing message, `confirmed` the profiles whose
drivers were told that they are in (observers).

A user is one computation here, because a user waits for each answer; users
interleave at every await that another user can notice, and meet in cars and
licence numbers. The uploads are `ReadFront`, `ReadBack`, `ReadPlate` and
`CreateCar`, `Close`, `Associate`, `Undo` (`processOcrResponse` and what it
calls); `Advance` is the `saveMessage` after them. The three workers are
`TakeJob`, `CreateVehicle`, `CreateProfile`, `Bind`, `Save` (register),
`SaveCar`, and `MoveNumber`, `SaveNumber` (the driver row), `SaveLicence` (the
licence row); all three end with `Announce` and `Conclude`. A call to Yango is
accepted, refused, or throws, and then it may have had its effect or not.
`Abort` is `abortConversation` and its mode; `Judge` and `Forget` are
`deleteInfoCollected` before and after the check of the car, since the row of a
car may go, or be told to Yango, in between.

What goes wrong by itself is a fault (`MaxFaults`). `Crash` drops the
computations: a job that was taken is gone, a conversation is where its rows
say. Any awaited call of an upload may throw (`UploadThrows`), of an undoing
(`UndoThrows`), or of a worker (`WorkThrows`), also after the success was
announced: the catch around the worker then aborts in its mode, and a driver
who was just told to be in is told that this failed, and removed. That is the
case `confirmed` leaves out. `AbortThrows` is an abort whose first call throws:
nothing is said and nothing undone. Two things are coarser than the code: an
abort fails at its first call or goes through, and an undoing writes all it has
to or nothing (it is not split between the licence row and the driver row).

### OrderSync

`today` is the UTC day, `orders` and `logs` the two tables, `runs` the runs in
progress with their position (day, page, orders of the page that remain,
counters, retries). A request fails by a transient error (retried) or another
one (the day fails, and with it the run); an upsert may fail and is counted; a
write of the log may fail with or without effect, so that the row of a day may
get its verdict and then FAIL; a crash ends every run. `trouble` counts what
failed.

`KeepsTheLedger` is the refinement: with `stored` for the orders and the day and
status of each log row for `reports`, every step of `OrderSync` is a step of
`Ledger` or changes none of the three.

### FleetSync

`park` is what Yango says, `drivers` the table with its three unique columns,
`active` the car of each driver's association without `endDate` (one at most:
the index `unique_active_driver`). A run works on the list it received while
the park changes. The lookups by profile, phone and licence and the unique
columns are kept, since what happens to a profile depends on them. Items are
treated in any order.

The chat undoes a conversation under a run that may be anywhere, call by call.
`ChatUndoes` finds what is undone: the driver, the open association, its car,
and the mode. Then `RemoveCar`, `RemoveDriver` (mode CREATION, with the licence
row, which is not kept), `RemoveAssociation` and `Reopen` follow one after the
other, in the order of `deleteInfoCollected`, or of the catch of an upload, and
`ChatFails` may end it anywhere. A row that is taken away is `Removed`, so that
ids are not used twice; a run that has found it fails at its update, or opens
an association of a driver who is gone. An association may name a car without
row (`Gone`): no foreign key holds either.

## 3. The runs

| Run | Shows | Bounds |
|---|---|---|
| `races` | `TypeOK`, `AbortIsEarned`, `NoStepSkipped`, `HistoryIsReached` with two handlers and an undertaker | 1 user, every kind of message, 3 messages: a first message, then two handled at once at the menu or at the first step of a flow. Two strikes and the abort fit in three messages. |
| `flows` | `NoStepSkipped`, `YangoIsEarned`, `HistoryIsReached` along whole flows, with a worker | 1 handler, 8 messages: the longest flow (registration) reaches Yango in 7 and changes its mind once. |
| `silence` | `SilentUserIsForgotten` | 3 messages, 1 crash, messages may be lost. |
| `otp` | `TypeOK`, `NumberIsHis` | one impatient user, 2 handlers, 1 job, 2 numbers, 2 codes generated, 4 minutes: a code expires and is renewed, two rows of the code step are there at once, and a job outlives its conversation. Symmetric in handlers, codes, numbers. |
| `order_pages` | `TypeOK`, `LogIsTrue`, `KeepsTheLedger` | pages of 2; days of 2 orders (a full last page) or 3 (a short one); lookback 2; 2 overlapping runs; 1 retry; 2 troubles (failed requests or writes of the log, a crash). Midnights are in the next run and in the theorems. |
| `order_outage` | `LostOnlyByOutage` | lookback 2, 2 runs a day, 5 days, 6 troubles: days 0 and 1 may be lost, by an outage of a day. The trouble is counted since the beginning, not only in the days of the lookback. |
| `park` | `TypeOK`, `ParkIsMirrored` | 2 profiles, phones, licences and vehicles, a first driver from the chat in either car, 1 change (of the park, or an undoing by the chat in any mode, call by call), 1 failure: takeover of a row by phone or licence, clashes of unique columns, an outdated list, a switch between two cars, an association, a car or a driver that goes under a run. |
| `registration` | `TypeOK`, `WelcomeIsTrue`, `ChangedIsTrue`, `MovedIsTrue`, `ConfirmedIsKept` | 2 users, one with two numbers, 3 licences, 2 plates; a driver with or without car may be in before; 2 conversations and 1 fault (a crash or a call that throws) in all: two users at work on one car, or a driver who is in and then fails with another number, changes car or number. Symmetric in licences and plates. |

Symmetry is not sound for liveness, so `park` reduces its initial states by hand
(`ReducedInit`): profiles, phones and licences are interchangeable, so the first
driver may be taken to hold the first of each; the second profile is complete
at first, and has the second car.

Users do not interact in `Conversation` except through the threads they share
and the undertaker's list, which is why one user is enough there; the proofs
hold for any number. The observers, the messages and the ids grow with the
number of messages only, so bounding messages bounds the state space; no other
counter needs a bound except crashes. `passed`, what a user has answered, is
never taken back: `NoStepSkipped`, `HistoryIsReached` and `YangoIsEarned` accept
an answer of an earlier conversation of the same user. Deadlock is not checked: with its
messages, days or changes used up the model may really stop.

Every property is known to fail on at least one plausible bug; those bugs are
the definitions called `Faulty...`, each next to the definition it spoils.

### What does not hold

| Run | The repository says | The code does |
|---|---|---|
| `invited` | "Envoyez "Start" pour démarrer un nouveau processus." (`seeder/constants.ts:81`) | the message leaves before the rows of the offers flow are deleted; a Start that arrives in between finds the level-2 row, falls in the default branch and is a bad answer (`rabbitmq.service.ts:283`) |
| `otp_renewal` | "Code expiré. Un nouveau code vous a été envoyé." (`seeder/constants.ts:244`) | `response === 'OTP_NOT_FOUND' \|\| 'OTP_INVALID'` is always true, so the user is told that the code is wrong (`rabbitmq.service.ts:407`) |
| `registration_retry` | "Pour reéssayer envoyer "Start"" (`seeder/constants.ts:184`) | a front photo without legible date creates the driver row and fails on the licence row (`ocr-space.service.ts:226-246`); two bad answers abort in mode UPDATE, which removes no driver (`rabbitmq.service.ts:1090`): the number is refused as already taken ever after |
| `otp_retry` | "Erreur lors de l'envoie du OTP. Veuillez reéssayer." (`rabbitmq.service.ts:370`) | the row already waits for a code, so a number typed again is a wrong code |

One divergence needs no run: the SMS says "Il expire dans 2 minutes."
(`otp.service.ts:38`), the row is given three (`otp.service.ts:32`).

Met while modelling, and part of what the properties say or assume. Two numbers
typed in a row leave two rows of the code step, and then the number registered
may be one whose code was not typed; no text promises otherwise, and
`NumberIsHis` says what remains: the number is the user's own typing, and its
code or that of another number of theirs was typed. `ParkIsMirrored` needs a
run to end within its hour (with runs that overlap for ever, one may keep
closing what the other opened). A new profile without licence never gets a row,
because the lookup by an undefined licence throws before the fallback of line
2072 is reached. A worker that throws after it told a driver to be in removes
that driver, and says so.

Met in `Registration`, where no text of the repository promises otherwise, so
that no run states it: after a change of car that Yango refuses, the abort
re-opens the association with the refused car; a driver who is in and starts a
conversation that falls silent loses the open association until the next park
synchronisation; a car row may be deleted under the association of another
driver (`rabbitmq.service.ts:1078`, `ocr-space.service.ts:313`); the confidence
of a front photo is read from a misspelt field, `percenrtage`
(`ocr-space.service.ts:92`), and never refuses one.

### Fairness

`Conversation`: weak fairness of each computation in progress (the event loop
resumes every await; a request is taken to answer or to fail in the end), of the consumers, of the
undertaker's cron, and of time. Nothing makes a user send a message. The
undertaker's fairness is weak fairness of its start, since cron fires every
minute whether or not the last run has ended.
`FleetSync`: weak fairness of each run, by the same argument; a failure is
bounded, since a list that always fails can show nothing. The other modules
have safety properties only.

## 4. The proofs

Every invariant that a passing run checks is a theorem, for all values of the
constants, and so is the refinement `KeepsTheLedger`. The assumptions are those
the modules state about their constants: natural bounds, threads that are
disjoint, a set of known messages, `None` apart from the data, an owner for each
phone, and a finite set of runs (`RunsAssumption`; a crash counts the runs it
ends). TLC agreed with the two largest inductive invariants, `Inv` of
`Registration_proofs` and `OutageInv`, on small instances before they were proved.

### Conversation

* `TypeCorrect`: `Spec => []TypeOK`. `TypeOK` is not inductive: a thread writes
  what it carries, so one must know what it carries at each `pc`. `TypeInv` adds
  `ThreadsOK`: at the labels that answer, push or count, the snapshot is a real
  row; at the labels of `saveMessage` the step is a seeded one; at those of
  `editHistoryConversation` the step computed by subtraction is one
  (`EditStep`), and the history row found is still there. The lemmas about the
  catalogue (`NextStepExists`, `PreviousExists`...) say that the steps the code
  looks up exist; then there is one lemma for each group of actions.
* `AbortEarned`: `Spec => []AbortIsEarned`. The count in the table may lag behind
  the bad answers (two handlers write the same value) and may go back. `StrikeInv`
  says that every copy of a row, in the table, in a thread or in a job, has a
  count that is at most the strikes counted against that row, and that a thread
  that aborts has seen its second. Most actions change neither counts nor
  strikes: `GentleStep` disposes of them.
* `StepsEarned`, `HistoryEarned`: `Spec => []NoStepSkipped` and
  `Spec => []HistoryIsReached`. A thread saves a step some time after it read the
  answer, from a snapshot that others may have outdated. `PathInv` says that
  every copy of a row, and every step a thread is about to save, is one the user
  has reached (`Reached`: every question before it was answered). What was
  answered is never taken back, so an outdated copy stays true; ids are not used
  twice and the rows that "back" removes, or whose history is edited, are of the
  thread's own user, so no thread vouches for another's row.
* `YangoEarned`: `Spec => []YangoIsEarned`. `AskedInv` adds that a thread at the
  labels that push a job, the jobs, and the workers carry rows whose flow is
  complete, and that what was shown to a user was earned then.

### One-time codes

* `TypeCorrect`: `Spec => []TypeOK`; `TypeInv` says what a handler carries where.
* `NumberHisOwn`: `Spec => []NumberIsHis`, for users as impatient as they like.
  `HisInv` says what each thread carries for its user (`Carries`): a number
  that is saved or verified is among those given, and one that is accepted was
  verified with a code sent for it; and what each user holds (`Holds`): rows
  only of given numbers, and, past the code or with a job under way, a proved
  number. The observers begin anew only when nothing of the user is under way,
  which is what makes both facts last. Codes that were sent stay sent
  (`CodesKept`), and a step of one user leaves the others alone.

### Registration

One inductive invariant, `Inv`, carries five theorems: `TypeCorrect` (`TypeOK`),
`WelcomeTrue` (`WelcomeIsTrue`), `ChangedTrue` (`ChangedIsTrue`), `MovedTrue`
(`MovedIsTrue`) and `ConfirmedKept` (`ConfirmedIsKept`). None of the five
properties is inductive, nor are they together: a closing message is true
because of what the calls to Yango before it did, in an order that other users
interleave. `Inv` says

* of the tables (`TablesOK`): distinct drivers differ in phone, licence, licence
  row and profile, distinct cars in plate and id; a row and its licence row are
  of the user who holds their phones, and one that has a profile has its
  licence row; a confirmed profile has a row;
* of each user (`UserOK`): where the conversation stands (`ControlOK`); which
  row the computation relies on, and that it is there (`RowOK`, with `Driving`
  and `Settled` for the labels where it is still that of the phone); that
  somebody who registers works on the newest of their rows, also while the
  worker saves and announces (`Saved`), and that what an abort would remove is
  not confirmed (`NewOK`); what Yango was told so far, that a profile given but
  not saved is of one user, and that a number that is moved is at Yango
  (`Moved`, `Known`) and in a licence row (`Carded`) before it is announced
  (`YangoOK`); and that the last closing message is true (`ClosingOK`).

It speaks of the rows, not of their places in the table, so that a removal needs
no renumbering. `OtherUser` says once that a step of one user leaves the rows,
profiles and promises of the others alone; `StepOf` then judges every action by
what it does to the user who takes it. The newest row is found by a
well-founded order on places (`WellFoundedInduction`).

### Order synchronisation

* `TypeCorrect`: `Spec => []TypeOK`. `TypeInv` adds what the steps rely on
  (`RunInRange`): a run that lists is within its day, what it has left of a page
  is part of that page, and one that reports has a row. `OneRun` says once what a
  step that replaces one run must show; midnight adds a day and keeps the others.
* `LogCorrect`: `Spec => []LogIsTrue`. Nothing in `LogIsTrue` speaks of a run
  halfway, so `LogInv` adds `RunIsTrue`: the counters of a run tally with the
  orders 1 to `DoneOf(run)` of its day (stored and failed make up all of them, as
  many are stored as it says, all if none failed), and a run that closes has
  reached the end of the day. Rows and runs stay true while the orders of a day
  only grow within its size (`TruthIsKept`), which is why overlapping runs do no
  harm.
* `LedgerIsKept`: `Spec => KeepsTheLedger`, the refinement. A verdict other than
  FAIL needs an open report, so `OwnInv` adds that a run that lists owns its row: it is RUNNING,
  on the day of the run, and no other run has it. Creating a row is `Open`, an
  upsert `Store` (or nothing), closing and failing a day `Decide`, midnight
  `CloseADay`; the other steps change nothing of the ledger.
* `LostByOutage`: `Spec => []LostOnlyByOutage`. `LostOnlyByOutage` compares a day
  that is gone with trouble of days ago, so `OutageInv` keeps an account for each
  day. The day is charged `LostRun` for every cron time that comes while it is
  the first of the lookback (`Begun`); the charge of a day that is not listed is
  met by the trouble there was and by what the runs still on it as their first
  day have left to suffer before they give it up (`Owed`, a finite set, counted).
  A step that makes a run owe less brings as much trouble (`RunPays`); a run gets
  past its first day only by listing it, and a listed day stays listed, since its
  row is no longer RUNNING and so has no owner to overwrite it (`OwnInv`). When the
  lookback has left a day behind and no run is on it, nothing is owed and the day
  is charged for a whole day of runs.

### Park synchronisation

* `TypeCorrect`: `Spec => []TypeOK`, which includes the three unique columns of
  the driver table. A run writes a profile from a list that the park has outdated
  meanwhile, to a row it looked up some awaits ago and that the chat may have
  removed. `FleetInv` adds `RunOK`: the run carries what the park could say, with
  a phone, and with a licence if the row is to be a new one; and the id it found
  was given to a row once. What two runs write is kept apart by the unique
  columns, which the write itself checks against the rows that are left. That
  the owner of an association has a row is neither stated nor so.

### Only model-checked

The two liveness properties, `SilentUserIsForgotten` and `ParkIsMirrored`:
fairness and ENABLED are out of reach of the prover. The properties of the
`violation` runs are false. Induction over data and recursive operators are out
of its reach too; no module here needs them.

## 5. Not modelled

* DocumentFile rows: written by the uploads and the workers, read by the back
  office only.
* `Registration` composed with the undertaker and with two computations of one
  user: it assumes that a user waits for each answer, that a job ends before the
  five minutes of silence, and that a phone number belongs to one user, who has
  verified it (`Otp`). `Conversation` has those interleavings without the fleet
  tables. A run of `flows` with an undertaker is out of reach: the product of a
  whole flow, a worker and a burial does not end in minutes.
* The WhatsApp number of a driver, which the park synchronisation overwrites
  with the phone of the park (`rabbitmq.service.ts:2012`).
* OCR, OpenAI, WhatsApp and Yango clients beyond success and failure; the
  webhook; RabbitMQ itself: pure input and output. The code gives RabbitMQ no
  acknowledgements, so a message taken is a message gone.
* The request log and the generated controllers: nothing reads the one, nothing
  uses the others.
* The seeder's crashes; migrations; deployment scripts.

## 6. What could come next

An abstract conversation (`answered`, a set of steps per user) that
`Conversation` implements by `passed`, proved from `PathInv`; action properties
of `Registration` that `Inv` already implies (a confirmed profile keeps its row
through every single step); `Registration` composed with `FleetSync` on the
driver table, whose product is beyond TLC here.

## 7. Running it

    tlc -config MC_Conversation_races.cfg MC_Conversation
    tlapm ConversationPath_proofs.tla

Each module named `..._proofs` is checked by itself; one that extends another
takes its theorems as proved there. `Registration_proofs` takes a few minutes.

`PROJECT.json` lists the runs, the lines each definition stands for, the bugs
each property catches, and the hazards with the properties that cover them.
