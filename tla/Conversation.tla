---------------------------- MODULE Conversation ----------------------------
(***************************************************************************)
(* The conversation engine of rabbitmq.service.ts: every WhatsApp message  *)
(* taken from RabbitMQ starts an asynchronous handler, handlers of several *)
(* messages interleave at every await, and they race the workers that talk *)
(* to Yango and the cron job that buries silent conversations.             *)
(*                                                                         *)
(* A handler, a worker or an undertaker run is a thread; between two       *)
(* actions of a thread the code awaits a database or network call.  A      *)
(* thread keeps the row it read when it started (lastConversation), and    *)
(* works with that snapshot to its end.                                    *)
(*                                                                         *)
(* What the fleet tables, Yango, the OCR service and the OTP service       *)
(* answer is chosen freely here.                                           *)
(*                                                                         *)
(* A definition whose name begins with Faulty is a plausible bug of the    *)
(* definition that follows it: substituted for it, it breaks a property.   *)
(***************************************************************************)
EXTENDS Steps, Sequences, FiniteSets

CONSTANTS
  Users,          \* WhatsApp numbers (whaPhoneNumber)
  Handlers,       \* threads running handleMessageReceived
  Workers,        \* threads running a Yango job taken from its queue
  Undertakers,    \* overlapping runs of deleteOldConversations
  Sendable,       \* the messages users may send, among Messages
  MaxMessages,    \* bound: messages users send in all
  MaxCrashes,     \* bound: times the process dies and restarts
  Lossy           \* whether messages to users and jobs may be lost

ASSUME UsersAssumption == "none" \notin Users
ASSUME ThreadsAssumption ==
  /\ Handlers \cap Workers = {}
  /\ Handlers \cap Undertakers = {}
  /\ Workers \cap Undertakers = {}
ASSUME BoundsAssumption == MaxMessages \in Nat /\ MaxCrashes \in Nat
ASSUME LossyAssumption == Lossy \in BOOLEAN

VARIABLES
  convs,     \* the Conversation table: a set of rows
  stale,     \* ids of the rows not updated for five minutes
  hist,      \* the HistoryConversation table, in creation order
  users,     \* the User table: numbers registered with role USER
  threads,   \* the asynchronous computations of the process
  jobs,      \* Yango jobs in their queue: the snapshots they carry
  shown,     \* the last message each user received
  received,  \* number of messages consumed so far
  crashes,   \* number of crashes so far
  strikes,   \* observer: bad answers counted against each row ever created
  passed     \* observer: the steps each user has answered correctly

tables == <<convs, stale, hist, users>>
observers == <<strikes, passed>>
vars == <<tables, threads, jobs, shown, received, crashes, observers>>

Threads == Handlers \cup Workers \cup Undertakers

(***************************************************************************)
(* Rows, threads and messages.                                             *)
(***************************************************************************)
NoUser == "none"
NoRow(u) == [id |-> 0, wha |-> u, step |-> 0, bad |-> 0]

Idle == [pc |-> "idle", conv |-> NoRow(NoUser), step |-> 0, after |-> "end",
         edit |-> "none", found |-> 0, phones |-> {}]

RowsOf(u) == {r \in convs : r.wha = u}
HasRow(id) == \E r \in convs : r.id = id

(* findManyByWhaPhoneNumber(...)[0] and findLastOneByWhaPhoneNumber: the   *)
(* newest row, by id and by createdAt.                                     *)
Newest(u) == {r \in RowsOf(u) : \A q \in RowsOf(u) : q.id <= r.id}

LastConversation(u) ==
  IF Newest(u) = {} THEN NoRow(u) ELSE CHOOSE r \in Newest(u) : TRUE

(* What a message can be: a text with one meaning for the handlers, a      *)
(* usable photo, or any other medium (an oversized photo, a sound...).     *)
Texts == {"start", "back", "stop", "zero", "one", "two", "three",
          "phone", "code", "junk"}
Messages == Texts \cup {"image", "media"}
ASSUME SendableAssumption == Sendable \subseteq Messages

(* The menu looks for a digit anywhere in the text, 0 first: a phone       *)
(* number or a code may select anything.                                   *)
MenuChoices(m) ==
  CASE m = "zero"  -> {"Offres"}
    [] m = "one"   -> {"Inscription"}
    [] m = "two"   -> {"Changement"}
    [] m = "three" -> {"Modification"}
    [] m \in {"phone", "code"} -> Flows \cup {NoFlow}
    [] OTHER -> {NoFlow}

ErrorShown == -1
NothingShown == 0

(***************************************************************************)
(* How a thread moves on.                                                  *)
(***************************************************************************)
At(t, pc) == threads[t].pc = pc
Wha(t) == threads[t].conv.wha

Goto(t, pc) == threads' = [threads EXCEPT ![t].pc = pc]

(* saveMessage(stepId = s), after which the handler goes on as "after"     *)
(* says.                                                                   *)
GotoSave(t, s, after) ==
  threads' = [threads EXCEPT ![t].pc = "create", ![t].step = s, ![t].after = after]

(* The end of a handler.  handleExistingConversation closes by making sure *)
(* the user is registered (find, then create under a unique constraint);   *)
(* a handler that returned early or threw ("mute") does not get there.     *)
Finish(t) ==
  /\ threads' = [threads EXCEPT ![t] = Idle]
  /\ users' = IF t \in Handlers /\ threads[t].after # "mute"
              THEN users \cup {Wha(t)} ELSE users

Fail(t) ==
  /\ threads' = [threads EXCEPT ![t] = Idle]
  /\ users' = users

(* A message leaves for u.  Errors of the queue and of the WhatsApp API    *)
(* are caught and logged: the message may be lost.                         *)
Deliver(u, s) ==
  \/ shown' = [shown EXCEPT ![u] = s]
  \/ Lossy /\ shown' = shown

Accept(u, s) == passed' = [passed EXCEPT ![u] = @ \cup {s}]

(***************************************************************************)
(* newMessage: the handler of one message, up to its first await after the *)
(* snapshot.                                                               *)
(***************************************************************************)
Receive(t, u, pc, step, after) ==
  /\ At(t, "idle")
  /\ received < MaxMessages
  /\ received' = received + 1
  /\ threads' = [threads EXCEPT ![t] =
       [Idle EXCEPT !.pc = pc, !.conv = LastConversation(u),
                    !.step = step, !.after = after]]
  /\ UNCHANGED <<tables, jobs, shown, crashes, strikes>>

Current(u) == LastConversation(u).step

HandleNewConversation(t, u) ==
  /\ Current(u) = 0
  /\ Receive(t, u, "create", MenuStep, "mute")
  /\ UNCHANGED passed

HandleMenu(t, u, m) ==
  /\ Current(u) = MenuStep
  /\ m \in Texts
  /\ \E flow \in MenuChoices(m) :
       IF flow = NoFlow
       THEN /\ Receive(t, u, "strike", 0, "end")
            /\ UNCHANGED passed
       ELSE /\ Receive(t, u, "create", StepAt(1, flow), "end")
            /\ Accept(u, MenuStep)

HandleBackOrStop(t, u, m) ==
  /\ FlowOf(Current(u)) = "Offres"
  /\ \/ m = "back" /\ Receive(t, u, "back", 0, "mute")
     \/ m = "stop" /\ Receive(t, u, "removeAll", 0, "mute")
  /\ UNCHANGED passed

HandleOfferChoice(t, u, m) ==
  /\ Current(u) = OfferStep
  /\ m \in Texts \ {"back", "stop"}
  /\ IF m \in {"one", "two"}
     THEN /\ Receive(t, u, "create", StepAt(IF m = "one" THEN 2 ELSE 3, "Offres"), "success")
          /\ Accept(u, Current(u))
     ELSE Receive(t, u, "strike", 0, "end") /\ UNCHANGED passed

HandlePhoneNumber(t, u, m) ==
  /\ Current(u) \in PhoneSteps
  /\ Receive(t, u, IF m = "phone" THEN "driver" ELSE "strike", 0, "end")
  /\ UNCHANGED passed

HandleOtp(t, u, m) ==
  /\ Current(u) \in OtpSteps
  /\ m \in Texts
  /\ Receive(t, u, "otp", 0, "end")
  /\ UNCHANGED passed

HandleDocument(t, u, m) ==
  /\ Current(u) \in DocumentSteps
  /\ Receive(t, u, IF m = "image" THEN "ocr" ELSE "strike", 0, "end")
  /\ UNCHANGED passed

(* The number change waits for Yango: every text is acknowledged again.    *)
HandleThirdFlowFinal(t, u, m) ==
  /\ Current(u) = PhoneAckStep
  /\ m \in Texts
  /\ Receive(t, u, "create", Current(u), "end")
  /\ UNCHANGED passed

(* The default branch of the three switches: no answer is expected, the    *)
(* text is counted as a bad one.  Level 7 of the change of car has a case  *)
(* of its own (handleSecondFlowFinalStep); it is counted in here, since no *)
(* conversation comes to stand there: only the worker sends that text.     *)
Unexpected == StepIds \ (PhoneSteps \cup OtpSteps \cup DocumentSteps
                 \cup {MenuStep, OfferStep, PhoneAckStep})

HandleUnexpected(t, u, m) ==
  /\ Current(u) \in Unexpected
  /\ m \in Texts
  /\ FlowOf(Current(u)) = "Offres" => m \notin {"back", "stop"}
  /\ Receive(t, u, "strike", 0, "end")
  /\ UNCHANGED passed

(* No conversation and no "start"; or a message without text where the     *)
(* code reads text.body, a TypeError the controller catches.               *)
HandleIgnored(t, u, m) ==
  /\ At(t, "idle")
  /\ received < MaxMessages
  /\ \/ Current(u) = 0 /\ m # "start"
     \/ /\ m \notin Texts
        /\ Current(u) \in StepIds \ (PhoneSteps \cup DocumentSteps)
  /\ received' = received + 1
  /\ UNCHANGED <<tables, threads, jobs, shown, crashes, observers>>

NewMessage(t, u, m) ==
  \/ m = "start" /\ HandleNewConversation(t, u)
  \/ HandleMenu(t, u, m)
  \/ HandleBackOrStop(t, u, m)
  \/ HandleOfferChoice(t, u, m)
  \/ HandlePhoneNumber(t, u, m)
  \/ HandleOtp(t, u, m)
  \/ HandleDocument(t, u, m)
  \/ HandleThirdFlowFinal(t, u, m)
  \/ HandleUnexpected(t, u, m)
  \/ HandleIgnored(t, u, m)

(***************************************************************************)
(* The judgement of an answer, after the await it needs.                   *)
(***************************************************************************)
(* Is the number typed the number of a driver?  The first and third flow   *)
(* want a free number, the others a registered one.                        *)
CheckDriver(t) ==
  /\ At(t, "driver")
  /\ LET step == threads[t].conv.step
     IN \E known \in BOOLEAN :
          IF known = (step \in KnownDriverSteps)
          THEN GotoSave(t, NextStep(step), "otp") /\ Accept(Wha(t), step)
          ELSE Goto(t, "strike") /\ UNCHANGED passed
  /\ UNCHANGED <<tables, jobs, shown, received, crashes, strikes>>

(* The verdict of verifyOtp for the number kept in the user's phone row; a *)
(* missing row is a TypeError, and so ends a failed regeneration of an     *)
(* expired code.                                                           *)
VerifyOtp(t) ==
  /\ At(t, "otp")
  /\ LET step == threads[t].conv.step
         phoneRow == \E r \in RowsOf(Wha(t)) : r.step = PhoneRowStep(step)
     IN \/ /\ phoneRow
           /\ GotoSave(t, NextStep(step), IF Level(step) = 4 THEN "push" ELSE "end")
           /\ Accept(Wha(t), step)
           /\ UNCHANGED users
        \/ /\ phoneRow
           /\ Goto(t, "strike")
           /\ UNCHANGED <<passed, users>>
        \/ Fail(t) /\ UNCHANGED passed
  /\ UNCHANGED <<convs, stale, hist, jobs, shown, received, crashes, strikes>>

(* The OCR accepts the photo, refuses it, or the call throws.              *)
ReadDocument(t) ==
  /\ At(t, "ocr")
  /\ LET step == threads[t].conv.step
     IN \/ /\ GotoSave(t, NextStep(step), IF step \in CarSteps THEN "push" ELSE "end")
           /\ Accept(Wha(t), step)
           /\ UNCHANGED users
        \/ Goto(t, "strike") /\ UNCHANGED <<passed, users>>
        \/ Finish(t) /\ UNCHANGED passed
  /\ UNCHANGED <<convs, stale, hist, jobs, shown, received, crashes, strikes>>

(***************************************************************************)
(* editHistoryConversation: a new row for the menu step; otherwise the     *)
(* latest row found at the step before (at the step itself when the        *)
(* conversation fails) is updated to the payload.                          *)
(***************************************************************************)
FaultyEditStep(th) == IF th.edit = "progress" THEN th.step + 1 ELSE th.conv.step
FaultyAbortStep(th) == th.step

EditStep(th) == IF th.edit = "progress" THEN th.step ELSE th.conv.step

LookupStep(th) ==
  IF th.edit \in {"error", "timeLimit"} THEN EditStep(th) ELSE EditStep(th) - 1

Status(edit) == CASE edit = "progress" -> "IN_PROGRESS"
                  [] edit = "success"  -> "SUCCEEDED"
                  [] OTHER             -> "FAIL"

Reason(edit) == CASE edit = "success"   -> "NORMAL_FINISH"
                  [] edit = "error"     -> "ERROR"
                  [] edit = "timeLimit" -> "TIME_LIMIT_REACHED"
                  [] OTHER              -> "NONE"

GotoEdit(t, edit, step) ==
  threads' = [threads EXCEPT
    ![t].edit = edit,
    ![t].pc = IF step = MenuStep THEN "histNew" ELSE "histFind"]

AfterEdit(edit) == CASE edit = "progress" -> "emit"
                     [] edit = "success"  -> "removeAll"
                     [] edit = "error"    -> "tellError"
                     [] OTHER             -> "visit"

HistoryAt(u, step) ==
  {i \in DOMAIN hist : hist[i].wha = u /\ hist[i].step = step}

Latest(S) ==
  LET last == {i \in S : \A j \in S : j <= i}
  IN  IF last = {} THEN 0 ELSE CHOOSE i \in last : TRUE

CreateHistory(t) ==
  /\ At(t, "histNew")
  /\ LET th == threads[t]
     IN /\ hist' = Append(hist, [wha |-> th.conv.wha, step |-> EditStep(th),
                                 status |-> Status(th.edit), reason |-> Reason(th.edit)])
        /\ Goto(t, AfterEdit(th.edit))
  /\ UNCHANGED <<convs, stale, users, jobs, shown, received, crashes, observers>>

FindHistory(t) ==
  /\ At(t, "histFind")
  /\ LET th == threads[t]
         row == Latest(HistoryAt(th.conv.wha, LookupStep(th)))
     IN threads' = [threads EXCEPT
          ![t].found = row,
          ![t].pc = IF row = 0 THEN AfterEdit(th.edit) ELSE "histUpdate"]
  /\ UNCHANGED <<tables, jobs, shown, received, crashes, observers>>

UpdateHistory(t) ==
  /\ At(t, "histUpdate")
  /\ LET th == threads[t]
         old == hist[th.found]
     IN /\ hist' = [hist EXCEPT ![th.found] =
             [old EXCEPT !.step = EditStep(th),
                         !.status = Status(th.edit),
                         !.reason = IF th.edit = "progress" THEN old.reason
                                    ELSE Reason(th.edit)]]
        /\ threads' = [threads EXCEPT ![t].pc = AfterEdit(th.edit), ![t].found = 0]
  /\ UNCHANGED <<convs, stale, users, jobs, shown, received, crashes, observers>>

(***************************************************************************)
(* saveMessage: the row, the history, and after a delay the next prompt.   *)
(***************************************************************************)
CreateConversation(t) ==
  /\ At(t, "create")
  /\ LET row == [id |-> Len(strikes) + 1, wha |-> Wha(t),
                 step |-> threads[t].step, bad |-> 0]
     IN /\ convs' = convs \cup {row}
        /\ strikes' = Append(strikes, 0)
  /\ GotoEdit(t, "progress", threads[t].step)
  /\ UNCHANGED <<stale, hist, users, jobs, shown, received, crashes, passed>>

EmitPrompt(t) ==
  /\ At(t, "emit")
  /\ Deliver(Wha(t), threads[t].step)
  /\ LET after == threads[t].after
     IN \/ after \in {"end", "mute"} /\ Finish(t)
        \/ after = "otp" /\ Goto(t, "sendOtp") /\ UNCHANGED users
        \/ after = "push" /\ Goto(t, "push") /\ UNCHANGED users
        \/ /\ after = "success"
           /\ GotoEdit(t, "success", threads[t].conv.step)
           /\ UNCHANGED users
  /\ UNCHANGED <<convs, stale, hist, jobs, received, crashes, observers>>

(* generateAndSendOtp, ten seconds later.  A failed SMS is a bad answer to *)
(* the question before.                                                    *)
SendOtp(t) ==
  /\ At(t, "sendOtp")
  /\ \/ Finish(t)
     \/ Goto(t, "strike") /\ UNCHANGED users
  /\ UNCHANGED <<convs, stale, hist, jobs, shown, received, crashes, observers>>

(* push...ToQueue: an error of the queue is caught, the job is lost.       *)
PushJob(t) ==
  /\ At(t, "push")
  /\ \/ jobs' = Append(jobs, threads[t].conv)
     \/ Lossy /\ jobs' = jobs
  /\ Finish(t)
  /\ UNCHANGED <<convs, stale, hist, shown, received, crashes, observers>>

(***************************************************************************)
(* updateMessage and abortConversation.                                    *)
(***************************************************************************)
FaultyMaxStrikes == 1

MaxStrikes == 2

(* The count written is the snapshot's plus one.  Updating a row deleted   *)
(* meanwhile throws, and updateMessage swallows the exception.             *)
Strike(t) ==
  /\ At(t, "strike")
  /\ LET c == threads[t].conv
         bad == c.bad + 1
     IN IF HasRow(c.id)
        THEN /\ convs' = {IF r.id = c.id THEN [r EXCEPT !.bad = bad] ELSE r : r \in convs}
             /\ stale' = stale \ {c.id}
             /\ strikes' = [strikes EXCEPT ![c.id] = @ + 1]
             /\ IF bad >= MaxStrikes THEN GotoEdit(t, "error", c.step)
                                     ELSE Goto(t, "tellError")
             /\ UNCHANGED users
        ELSE Finish(t) /\ UNCHANGED <<convs, stale, strikes>>
  /\ UNCHANGED <<hist, jobs, shown, received, crashes, passed>>

TellError(t) ==
  /\ At(t, "tellError")
  /\ Deliver(Wha(t), ErrorShown)
  /\ IF threads[t].edit = "error" THEN Goto(t, "tellRetry") /\ UNCHANGED users
                                  ELSE Finish(t)
  /\ UNCHANGED <<convs, stale, hist, jobs, received, crashes, observers>>

TellRetry(t) ==
  /\ At(t, "tellRetry")
  /\ Deliver(Wha(t), RetryStep)
  /\ Goto(t, "removeAll")
  /\ UNCHANGED <<tables, jobs, received, crashes, observers>>

(* removeAllByPhoneNumber, the last statement of an abort and of a         *)
(* success; after "stop" the farewell follows.                             *)
RemoveRows(u) ==
  /\ convs' = convs \ RowsOf(u)
  /\ stale' = stale \ {r.id : r \in RowsOf(u)}

RemoveAll(t) ==
  /\ At(t, "removeAll")
  /\ RemoveRows(Wha(t))
  /\ IF threads[t].edit = "none" THEN Goto(t, "tellStopped") /\ UNCHANGED users
                                 ELSE Finish(t)
  /\ UNCHANGED <<hist, jobs, shown, received, crashes, observers>>

TellStopped(t) ==
  /\ At(t, "tellStopped")
  /\ Deliver(Wha(t), StoppedStep)
  /\ Finish(t)
  /\ UNCHANGED <<convs, stale, hist, jobs, received, crashes, observers>>

(***************************************************************************)
(* "back": the newest row, looked up again, is deleted, and the step       *)
(* before that row's step is saved.                                        *)
(***************************************************************************)
HasPrevious(s) == Level(s) = 1 \/ HasStep(Level(s) - 1, FlowOf(s))

Previous(s) ==
  IF Level(s) = 1 THEN MenuStep ELSE StepAt(Level(s) - 1, FlowOf(s))

FindLast(t) ==
  /\ At(t, "back")
  /\ LET last == LastConversation(Wha(t))
     IN IF last.id = 0 THEN Fail(t)
        ELSE /\ threads' = [threads EXCEPT ![t].pc = "backRemove", ![t].found = last.id]
             /\ UNCHANGED users
  /\ UNCHANGED <<convs, stale, hist, jobs, shown, received, crashes, observers>>

RemoveLast(t) ==
  /\ At(t, "backRemove")
  /\ LET id == threads[t].found
     IN IF HasRow(id)
        THEN LET row == CHOOSE r \in convs : r.id = id
             IN /\ convs' = convs \ {row}
                /\ stale' = stale \ {id}
                /\ IF HasPrevious(row.step)
                   THEN /\ threads' = [threads EXCEPT ![t].pc = "create", ![t].found = 0,
                                                      ![t].step = Previous(row.step)]
                        /\ UNCHANGED users
                   ELSE Fail(t)
        ELSE Fail(t) /\ UNCHANGED <<convs, stale>>
  /\ UNCHANGED <<hist, jobs, shown, received, crashes, observers>>

(***************************************************************************)
(* The three Yango workers, as the conversation sees them: they need the   *)
(* rows that carry the numbers typed, and end with a success message or    *)
(* with abortConversation.                                                 *)
(***************************************************************************)
PhoneRowsNeeded(flow) ==
  CASE flow = "Inscription" -> {StepAt(1, flow) + 1}
    [] flow = "Changement"  -> {StepAt(2, flow)}
    [] OTHER                -> {StepAt(2, flow), StepAt(4, flow)}

SuccessStep(flow) ==
  CASE flow = "Inscription" -> WelcomeStep
    [] flow = "Changement"  -> CarChangedStep
    [] OTHER                -> PhoneChangedStep

TakeJob(t) ==
  /\ At(t, "idle")
  /\ jobs # << >>
  /\ threads' = [threads EXCEPT ![t].pc = "work", ![t].conv = Head(jobs)]
  /\ jobs' = Tail(jobs)
  /\ UNCHANGED <<tables, shown, received, crashes, observers>>

Work(t) ==
  /\ At(t, "work")
  /\ LET c == threads[t].conv
         ready == \A s \in PhoneRowsNeeded(FlowOf(c.step)) :
                    \E r \in RowsOf(c.wha) : r.step = s
     IN \/ ready /\ Goto(t, "announce")
        \/ GotoEdit(t, "error", c.step)
  /\ UNCHANGED <<tables, jobs, shown, received, crashes, observers>>

Announce(t) ==
  /\ At(t, "announce")
  /\ Deliver(Wha(t), SuccessStep(FlowOf(threads[t].conv.step)))
  /\ GotoEdit(t, "success", threads[t].conv.step)
  /\ UNCHANGED <<tables, jobs, received, crashes, observers>>

(***************************************************************************)
(* deleteOldConversations, every minute, whether or not the last run has   *)
(* ended.  The phones are listed once; each is then looked up again.       *)
(***************************************************************************)
StartRun(t) ==
  /\ At(t, "idle")
  /\ convs # {}
  /\ threads' = [threads EXCEPT ![t] =
       [Idle EXCEPT !.pc = "visit", !.phones = {r.wha : r \in convs}]]
  /\ UNCHANGED <<tables, jobs, shown, received, crashes, observers>>

FaultyIsOld(r) == r.id \in stale /\ r.step # MenuStep

(* The cutoff is computed once, when the run starts; here a row is judged  *)
(* when it is visited, so a row that turns old during a run may be buried  *)
(* by that run and not by the next.                                        *)
IsOld(r) == r.id \in stale

Visit(t) ==
  /\ At(t, "visit")
  /\ \E u \in threads[t].phones :
       LET last == LastConversation(u)
           rest == [Idle EXCEPT !.pc = "visit", !.phones = threads[t].phones \ {u}]
       IN threads' = [threads EXCEPT ![t] =
            IF IsOld(last) THEN [rest EXCEPT !.pc = "bury", !.conv = last] ELSE rest]
  /\ UNCHANGED <<tables, jobs, shown, received, crashes, observers>>

EndRun(t) ==
  /\ At(t, "visit")
  /\ threads[t].phones = {}
  /\ Fail(t)
  /\ UNCHANGED <<convs, stale, hist, jobs, shown, received, crashes, observers>>

Bury(t) ==
  /\ At(t, "bury")
  /\ RemoveRows(Wha(t))
  /\ Goto(t, "tellTimeout")
  /\ UNCHANGED <<hist, users, jobs, shown, received, crashes, observers>>

TellTimeout(t) ==
  /\ At(t, "tellTimeout")
  /\ Deliver(Wha(t), TimeoutStep)
  /\ GotoEdit(t, "timeLimit", threads[t].conv.step)
  /\ UNCHANGED <<tables, jobs, received, crashes, observers>>

(***************************************************************************)
(* The environment: five silent minutes, and the death of the process.     *)
(* The queues are consumed without acknowledgement, so what a thread was   *)
(* doing, and the message or job it came from, is gone.                    *)
(***************************************************************************)
FiveMinutesPass(u) ==
  /\ \E r \in RowsOf(u) : r.id \notin stale
  /\ stale' = stale \cup {r.id : r \in RowsOf(u)}
  /\ UNCHANGED <<convs, hist, users, threads, jobs, shown, received, crashes, observers>>

Crash ==
  /\ crashes < MaxCrashes
  /\ crashes' = crashes + 1
  /\ threads' = [t \in Threads |-> Idle]
  /\ UNCHANGED <<tables, jobs, shown, received, observers>>

Init ==
  /\ convs = {}
  /\ stale = {}
  /\ hist = << >>
  /\ users = {}
  /\ threads = [t \in Threads |-> Idle]
  /\ jobs = << >>
  /\ shown = [u \in Users |-> NothingShown]
  /\ received = 0
  /\ crashes = 0
  /\ strikes = << >>
  /\ passed = [u \in Users |-> {}]

(* What a handler, a worker and an undertaker run do once started.         *)
Resume(t) ==
  \/ CheckDriver(t) \/ VerifyOtp(t) \/ ReadDocument(t)
  \/ CreateHistory(t) \/ FindHistory(t) \/ UpdateHistory(t)
  \/ CreateConversation(t) \/ EmitPrompt(t) \/ SendOtp(t) \/ PushJob(t)
  \/ Strike(t) \/ TellError(t) \/ TellRetry(t) \/ RemoveAll(t) \/ TellStopped(t)
  \/ FindLast(t) \/ RemoveLast(t)
  \/ Work(t) \/ Announce(t)
  \/ Visit(t) \/ EndRun(t) \/ Bury(t) \/ TellTimeout(t)

Next ==
  \/ \E t \in Handlers, u \in Users, m \in Sendable : NewMessage(t, u, m)
  \/ \E t \in Workers : TakeJob(t)
  \/ \E t \in Undertakers : StartRun(t)
  \/ \E t \in Threads : Resume(t)
  \/ \E u \in Users : FiveMinutesPass(u)
  \/ Crash

Spec == Init /\ [][Next]_vars

(* Node's event loop resumes every pending await, the consumers take what  *)
(* the queues hold, the cron job fires every minute and time passes.       *)
Fairness ==
  /\ \A t \in Threads : WF_vars(Resume(t))
  /\ \A t \in Workers : WF_vars(TakeJob(t))
  /\ \A t \in Undertakers : WF_vars(StartRun(t))
  /\ \A u \in Users : WF_vars(FiveMinutesPass(u))

FairSpec == Spec /\ Fairness

(***************************************************************************)
(* Properties.                                                             *)
(***************************************************************************)
Row == [id : Nat \ {0}, wha : Users, step : StepIds, bad : Nat]
Snapshot == Row \cup {NoRow(u) : u \in Users \cup {NoUser}}
HistoryRow == [wha : Users, step : StepIds,
               status : {"IN_PROGRESS", "SUCCEEDED", "FAIL"},
               reason : {"NONE", "NORMAL_FINISH", "ERROR", "TIME_LIMIT_REACHED"}]
Labels == {"idle", "driver", "otp", "ocr", "create", "histNew", "histFind",
           "histUpdate", "emit", "sendOtp", "push", "strike", "tellError",
           "tellRetry", "removeAll", "tellStopped", "back", "backRemove",
           "work", "announce", "visit", "bury", "tellTimeout"}
Thread == [pc : Labels, conv : Snapshot, step : {0} \cup StepIds,
           after : {"end", "mute", "otp", "push", "success"},
           edit : {"none", "progress", "success", "error", "timeLimit"},
           found : Nat, phones : SUBSET Users]

(* The tables hold well-formed rows of known users and seeded steps, and   *)
(* the threads well-formed snapshots (schema.prisma, and the types the     *)
(* handlers pass to each other).                                           *)
TypeOK ==
  /\ convs \subseteq Row
  /\ stale \subseteq Nat \ {0}
  /\ hist \in Seq(HistoryRow)
  /\ users \subseteq Users
  /\ threads \in [Threads -> Thread]
  /\ jobs \in Seq(Row)
  /\ shown \in [Users -> {ErrorShown, NothingShown} \cup StepIds]
  /\ received \in Nat
  /\ crashes \in Nat
  /\ strikes \in Seq(Nat)
  /\ passed \in [Users -> SUBSET StepIds]

(* A conversation is aborted for bad answers only when two answers have    *)
(* been counted against its row, however the handlers of several messages  *)
(* interleave and however old their snapshots are (updateMessage).         *)
AbortIsEarned ==
  \A t \in Handlers :
    threads[t].edit = "error" => strikes[threads[t].conv.id] >= 2

(* The steps that ask something on the way to step s.                      *)
Asking == PhoneSteps \cup OtpSteps \cup DocumentSteps \cup {OfferStep}
Path ==
  [s \in StepIds |->
     (IF s = MenuStep THEN {} ELSE {MenuStep})
       \cup {p \in Asking : FlowOf(p) = FlowOf(s) /\ Level(p) < Level(s)}]

(* No step is skipped: whoever stands at a step has answered every earlier *)
(* question of that flow, whatever the order in which handlers, "back",    *)
(* aborts and burials touch the rows; in this conversation or in an        *)
(* earlier one, since what a user has answered is never forgotten here.    *)
NoStepSkipped == \A r \in convs : Path[r.step] \subseteq passed[r.wha]

(* Yango is asked to do something only for a user who has answered every   *)
(* question of the flow, the code sent by SMS included, and nobody is told *)
(* that it was done otherwise (push...ToQueue, handleCreateYangoProfile,   *)
(* handleCreateYangoCar, handleUpdateYangoDriverInfo).                     *)
FlowSteps == [flow \in Flows |-> {s \in Asking : FlowOf(s) = flow}]
YangoIsEarned ==
  /\ \A i \in DOMAIN jobs : FlowSteps[FlowOf(jobs[i].step)] \subseteq passed[jobs[i].wha]
  /\ \A u \in Users, flow \in Flows \ {"Offres"} :
       shown[u] = SuccessStep(flow) => FlowSteps[flow] \subseteq passed[u]

(* The history never records a step its user has not reached, although the *)
(* row to update is found by arithmetic on step ids and may be another     *)
(* conversation's (editHistoryConversation).                               *)
HistoryIsReached ==
  \A i \in DOMAIN hist : Path[hist[i].step] \subseteq passed[hist[i].wha]

(* Every conversation is eventually over: a user who falls silent, or      *)
(* whose handler died with the process, does not keep rows for ever        *)
(* (deleteOldConversations).                                               *)
SilentUserIsForgotten == \A u \in Users : RowsOf(u) # {} ~> RowsOf(u) = {}

(* What the catalogue promises: 'Envoyez "Start" pour demarrer un nouveau  *)
(* processus' (seeder/constants.ts).  Whoever reads it and sends "Start"   *)
(* is heard, and not taken to answer the conversation that is ending.      *)
InvitedUserCanStart ==
  \A u \in Users : shown[u] \in Inviting => \A r \in RowsOf(u) : r.step = MenuStep
=============================================================================
