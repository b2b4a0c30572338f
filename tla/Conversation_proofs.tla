------------------------ MODULE Conversation_proofs ------------------------
(***************************************************************************)
(* Proofs about Conversation, for any users, threads and bounds.           *)
(***************************************************************************)
EXTENDS Conversation, SequenceTheorems, TLAPS

(***************************************************************************)
(* The catalogue: the steps the code looks up exist.                       *)
(***************************************************************************)
LEMMA StepAtExists ==
  ASSUME NEW level, NEW flow, HasStep(level, flow)
  PROVE  /\ StepAt(level, flow) \in StepIds
         /\ Level(StepAt(level, flow)) = level
         /\ FlowOf(StepAt(level, flow)) = flow
BY DEF StepAt, HasStep

LEMMA CatalogueLevels ==
  /\ Level(1) = 0 /\ Level(2) = 1 /\ Level(3) = 2 /\ Level(4) = 3 /\ Level(5) = 4
  /\ Level(6) = 1 /\ Level(7) = 2 /\ Level(8) = 3 /\ Level(9) = 4 /\ Level(10) = 5
  /\ Level(11) = 14 /\ Level(12) = 15 /\ Level(13) = 19 /\ Level(14) = 20 /\ Level(15) = 24
  /\ Level(16) = 1 /\ Level(17) = 2 /\ Level(18) = 3 /\ Level(19) = 6 /\ Level(20) = 7
  /\ Level(21) = 1 /\ Level(22) = 2 /\ Level(23) = 3 /\ Level(24) = 4 /\ Level(25) = 5
  /\ Level(26) = 6 /\ Level(27) = 99 /\ Level(28) = 100
BY DEF Level, Levels

LEMMA FixedSteps ==
  /\ MenuStep \in StepIds /\ RetryStep \in StepIds /\ WelcomeStep \in StepIds
  /\ TimeoutStep \in StepIds /\ OfferStep \in StepIds /\ StoppedStep \in StepIds
  /\ PhoneAckStep \in StepIds /\ PhoneChangedStep \in StepIds /\ CarChangedStep \in StepIds
BY CatalogueLevels DEF MenuStep, RetryStep, WelcomeStep, TimeoutStep, OfferStep, StoppedStep,
  PhoneAckStep, PhoneChangedStep, CarChangedStep, StepAt, StepAtLevel, StepIds, FlowOf

LEMMA MenuIsOne == MenuStep = 1
BY CatalogueLevels DEF MenuStep, StepAtLevel, StepIds

LEMMA NextStepExists ==
  ASSUME NEW s \in PhoneSteps \cup OtpSteps \cup DocumentSteps
  PROVE  NextStep(s) \in StepIds
<1> DEFINE f == FlowOf(s)
<1>1. s \in StepIds
  BY DEF PhoneSteps, OtpSteps, DocumentSteps
<1>2. CASE s \in CarSteps
  <2>1. HasStep(19, "Inscription") /\ HasStep(6, "Changement")
    BY CatalogueLevels DEF HasStep, StepIds, FlowOf
  <2>2. f \in {"Inscription", "Changement"}
    BY <1>2 DEF CarSteps, DocumentSteps
  <2> QED BY <1>2, <2>1, <2>2, StepAtExists DEF NextStep
<1>3. CASE s \notin CarSteps
  <2>1. HasStep(Level(s) + 1, f)
    BY <1>1, <1>3, CatalogueLevels
    DEF HasStep, StepIds, FlowOf, PhoneSteps, OtpSteps, DocumentSteps, CarSteps, Flows, NoFlow
  <2> QED BY <1>3, <2>1, StepAtExists DEF NextStep
<1> QED BY <1>2, <1>3

LEMMA PreviousExists ==
  ASSUME NEW s \in StepIds, HasPrevious(s)
  PROVE  Previous(s) \in StepIds
BY FixedSteps, StepAtExists DEF HasPrevious, Previous

LEMMA FirstStepExists ==
  ASSUME NEW flow \in Flows
  PROVE  StepAt(1, flow) \in StepIds
<1>1. HasStep(1, flow)
  BY CatalogueLevels DEF HasStep, StepIds, FlowOf, Flows
<1> QED BY <1>1, StepAtExists

(***************************************************************************)
(* What a thread carries at each of its labels.                            *)
(***************************************************************************)
Answering == {"driver", "otp", "ocr", "strike", "sendOtp", "push", "tellError",
              "tellRetry", "work", "announce", "bury", "tellTimeout"}
Editing == {"histNew", "histFind", "histUpdate"}

ThreadOK(th) ==
  /\ th.pc \notin {"idle", "visit"} => th.conv.wha \in Users
  /\ th.pc \in Answering => th.conv \in Row
  /\ th.pc \in {"create", "emit"} => th.step \in StepIds
  /\ th.after \in {"otp", "push", "success"} => th.conv \in Row
  /\ th.edit \in {"success", "error", "timeLimit"} => th.conv \in Row
  /\ th.pc \in Editing => th.edit # "none" /\ EditStep(th) \in StepIds
  /\ th.pc = "driver" => th.conv.step \in PhoneSteps
  /\ th.pc = "otp" => th.conv.step \in OtpSteps
  /\ th.pc = "ocr" => th.conv.step \in DocumentSteps

ThreadsOK == \A t \in Threads :
  /\ ThreadOK(threads[t])
  /\ threads[t].pc = "histUpdate" => threads[t].found \in DOMAIN hist

TypeInv == TypeOK /\ ThreadsOK

LEMMA IdleOK == Idle \in Thread /\ ThreadOK(Idle)
BY DEF Idle, Thread, ThreadOK, Snapshot, Labels, Answering, Editing, NoRow

LEMMA LastConversationType ==
  ASSUME TypeOK, NEW u \in Users
  PROVE  /\ LastConversation(u) \in Snapshot
         /\ LastConversation(u).wha = u
         /\ LastConversation(u).id # 0 => LastConversation(u) \in convs
         /\ LastConversation(u).step # 0 => LastConversation(u) \in convs
         /\ LastConversation(u) \in convs => LastConversation(u) \in Row
<1>1. CASE Newest(u) = {}
  BY <1>1 DEF LastConversation, NoRow, Snapshot, TypeOK
<1>2. CASE Newest(u) # {}
  <2>1. LastConversation(u) \in Newest(u)
    BY <1>2 DEF LastConversation
  <2> QED BY <2>1 DEF Newest, RowsOf, Snapshot, TypeOK
<1> QED BY <1>1, <1>2

(* Replacing one thread by a well-formed one, while the history does not   *)
(* shrink, keeps the threads well formed.                                  *)
LEMMA OneThread ==
  ASSUME TypeInv, NEW t \in Threads, NEW th \in Thread,
         threads' = [threads EXCEPT ![t] = th],
         DOMAIN hist \subseteq DOMAIN hist',
         ThreadOK(th),
         th.pc = "histUpdate" => th.found \in DOMAIN hist'
  PROVE  threads' \in [Threads -> Thread] /\ ThreadsOK'
<1>1. threads \in [Threads -> Thread]
  BY DEF TypeInv, TypeOK
<1>2. ASSUME NEW s \in Threads
      PROVE  /\ ThreadOK(threads'[s])
             /\ threads'[s].pc = "histUpdate" => threads'[s].found \in DOMAIN hist'
  <2>1. CASE s = t
    BY <1>1, <2>1
  <2>2. CASE s # t
    <3>1. threads'[s] = threads[s]
      BY <1>1, <2>2
    <3> QED BY <3>1 DEF TypeInv, ThreadsOK
  <2> QED BY <2>1, <2>2
<1> QED BY <1>1, <1>2 DEF ThreadsOK

LEMMA ThreadIsOK ==
  ASSUME TypeInv, NEW t \in Threads
  PROVE  /\ threads[t] \in Thread
         /\ ThreadOK(threads[t])
         /\ threads[t].pc = "histUpdate" => threads[t].found \in DOMAIN hist
BY DEF TypeInv, TypeOK, ThreadsOK

LEMMA RowFacts ==
  ASSUME NEW r \in Row
  PROVE  /\ r.id \in Nat \ {0} /\ r.wha \in Users /\ r.step \in StepIds /\ r.bad \in Nat
         /\ r \in Snapshot
BY DEF Row, Snapshot

(* The ways a thread moves on keep it well formed.                         *)
LEMMA GotoType ==
  ASSUME TypeInv, NEW t \in Threads, NEW pc \in Labels \ {"histUpdate"}, Goto(t, pc),
         DOMAIN hist \subseteq DOMAIN hist',
         ThreadOK([threads[t] EXCEPT !.pc = pc])
  PROVE  threads' \in [Threads -> Thread] /\ ThreadsOK'
<1> DEFINE th == [threads[t] EXCEPT !.pc = pc]
<1>1. th \in Thread /\ th.pc # "histUpdate"
  BY ThreadIsOK DEF Thread
<1>2. threads' = [threads EXCEPT ![t] = th]
  BY DEF Goto
<1> HIDE DEF th
<1> QED BY <1>1, <1>2, OneThread DEF th

LEMMA IdleType ==
  ASSUME TypeInv, NEW t \in Threads, threads' = [threads EXCEPT ![t] = Idle],
         DOMAIN hist \subseteq DOMAIN hist'
  PROVE  threads' \in [Threads -> Thread] /\ ThreadsOK'
<1>1. Idle.pc # "histUpdate"
  BY DEF Idle
<1> QED BY <1>1, IdleOK, OneThread

LEMMA FinishType ==
  ASSUME TypeInv, NEW t \in Threads, Finish(t), threads[t].conv.wha \in Users,
         DOMAIN hist \subseteq DOMAIN hist'
  PROVE  threads' \in [Threads -> Thread] /\ ThreadsOK' /\ users' \subseteq Users
<1>1. users' \subseteq Users
  BY DEF Finish, Wha, TypeInv, TypeOK
<1> QED BY <1>1, IdleType DEF Finish

LEMMA SaveType ==
  ASSUME TypeInv, NEW t \in Threads, NEW s \in StepIds, NEW after \in {"end", "otp", "push"},
         GotoSave(t, s, after), threads[t].conv \in Row,
         DOMAIN hist \subseteq DOMAIN hist'
  PROVE  threads' \in [Threads -> Thread] /\ ThreadsOK'
<1> DEFINE th == [threads[t] EXCEPT !.pc = "create", !.step = s, !.after = after]
<1>1. th \in Thread /\ th.pc # "histUpdate"
  BY ThreadIsOK DEF Thread, Labels
<1>2. ThreadOK(th)
  BY ThreadIsOK, RowFacts DEF ThreadOK, Thread, Answering, Editing
<1>3. threads' = [threads EXCEPT ![t] = th]
  BY DEF GotoSave
<1> HIDE DEF th
<1> QED BY <1>1, <1>2, <1>3, OneThread DEF th

LEMMA EditType ==
  ASSUME TypeInv, NEW t \in Threads, NEW step,
         NEW edit \in {"progress", "success", "error", "timeLimit"}, GotoEdit(t, edit, step),
         threads[t].conv.wha \in Users,
         IF edit = "progress" THEN threads[t].step \in StepIds ELSE threads[t].conv \in Row,
         DOMAIN hist \subseteq DOMAIN hist'
  PROVE  threads' \in [Threads -> Thread] /\ ThreadsOK'
<1> DEFINE pc == IF step = MenuStep THEN "histNew" ELSE "histFind"
           th == [threads[t] EXCEPT !.edit = edit, !.pc = pc]
<1>1. th \in Thread /\ th.pc # "histUpdate"
  BY ThreadIsOK DEF Thread, Labels
<1>2. ThreadOK(th)
  BY ThreadIsOK, RowFacts DEF ThreadOK, Thread, Answering, Editing, EditStep
<1>3. threads' = [threads EXCEPT ![t] = th]
  BY DEF GotoEdit
<1> HIDE DEF th
<1> QED BY <1>1, <1>2, <1>3, OneThread DEF th

(* What follows editHistoryConversation.                                   *)
LEMMA AfterEditOK ==
  ASSUME NEW th \in Thread, ThreadOK(th), th.pc \in Editing
  PROVE  /\ AfterEdit(th.edit) \in Labels \ {"histUpdate"}
         /\ ThreadOK([th EXCEPT !.pc = AfterEdit(th.edit)])
         /\ ThreadOK([th EXCEPT !.pc = AfterEdit(th.edit), !.found = 0])
BY RowFacts DEF Thread, ThreadOK, AfterEdit, Editing, Answering, Labels, EditStep

(***************************************************************************)
(* Each action preserves the type invariant.                               *)
(***************************************************************************)
LEMMA InitType == Init => TypeInv
<1> SUFFICES ASSUME Init PROVE TypeInv
  OBVIOUS
<1>1. TypeOK
  BY IdleOK DEF Init, TypeOK, NothingShown
<1>2. ThreadsOK
  <2>1. Idle.pc = "idle"
    BY DEF Idle
  <2> QED BY <2>1, IdleOK DEF Init, ThreadsOK
<1> QED BY <1>1, <1>2 DEF TypeInv

LEMMA AcceptType ==
  ASSUME TypeInv, NEW u \in Users, NEW s \in StepIds, Accept(u, s)
  PROVE  passed' \in [Users -> SUBSET StepIds]
BY DEF Accept, TypeInv, TypeOK

(* A handler starts: what its snapshot must be at each first label.        *)
LEMMA ReceiveType ==
  ASSUME TypeInv, NEW t \in Threads, NEW u \in Users,
         NEW pc \in {"create", "strike", "back", "removeAll", "driver", "otp", "ocr"},
         NEW step \in {0} \cup StepIds, NEW after \in {"end", "mute", "success"},
         Receive(t, u, pc, step, after),
         pc = "create" => step \in StepIds,
         (pc \in {"strike", "driver", "otp", "ocr"} \/ after = "success") => Current(u) \in StepIds,
         pc = "driver" => Current(u) \in PhoneSteps,
         pc = "otp" => Current(u) \in OtpSteps,
         pc = "ocr" => Current(u) \in DocumentSteps,
         passed' \in [Users -> SUBSET StepIds]
  PROVE  TypeInv'
<1> DEFINE c == LastConversation(u)
           th == [Idle EXCEPT !.pc = pc, !.conv = c, !.step = step, !.after = after]
<1>1. c \in Snapshot /\ c.wha = u /\ (c.step # 0 => c \in Row)
  BY LastConversationType DEF TypeInv
<1>2. c.step = Current(u) /\ 0 \notin StepIds
  BY DEF Current, StepIds
<1>3. th \in Thread /\ th.pc # "histUpdate"
  BY <1>1 DEF Idle, Thread, Labels
<1>4. ThreadOK(th)
  BY <1>1, <1>2 DEF Idle, ThreadOK, Answering, Editing
<1>5. threads' = [threads EXCEPT ![t] = th]
  BY DEF Receive
<1>6. UNCHANGED <<tables, jobs, shown, crashes, strikes>> /\ received' = received + 1
  BY DEF Receive
<1> HIDE DEF th, c
<1>7. threads' \in [Threads -> Thread] /\ ThreadsOK'
  BY <1>3, <1>4, <1>5, <1>6, OneThread DEF tables
<1> QED BY <1>6, <1>7 DEF TypeInv, TypeOK, tables

LEMMA NewMessageType ==
  ASSUME TypeInv, NEW t \in Handlers, NEW u \in Users, NEW m \in Sendable, NewMessage(t, u, m)
  PROVE  TypeInv'
<1>0. /\ t \in Threads
      /\ passed \in [Users -> SUBSET StepIds]
  BY DEF Threads, TypeInv, TypeOK
<1>1. CASE HandleNewConversation(t, u)
  BY <1>0, <1>1, FixedSteps, ReceiveType DEF HandleNewConversation
<1>2. CASE HandleMenu(t, u, m)
  <2>1. Current(u) \in StepIds
    BY <1>2, FixedSteps DEF HandleMenu
  <2>2. PICK flow \in MenuChoices(m) :
          IF flow = NoFlow
          THEN /\ Receive(t, u, "strike", 0, "end")
               /\ UNCHANGED passed
          ELSE /\ Receive(t, u, "create", StepAt(1, flow), "end")
               /\ Accept(u, MenuStep)
    BY <1>2 DEF HandleMenu
  <2>3. CASE flow = NoFlow
    BY <1>0, <2>1, <2>2, <2>3, ReceiveType
  <2>4. CASE flow # NoFlow
    <3>1. flow \in Flows
      BY <2>4 DEF MenuChoices, Flows
    <3> QED BY <1>0, <2>2, <2>4, <3>1, FirstStepExists, AcceptType, FixedSteps, ReceiveType
  <2> QED BY <2>3, <2>4
<1>3. CASE HandleBackOrStop(t, u, m)
  BY <1>0, <1>3, ReceiveType DEF HandleBackOrStop
<1>4. CASE HandleOfferChoice(t, u, m)
  <2>1. Current(u) \in StepIds
    BY <1>4, FixedSteps DEF HandleOfferChoice
  <2>2. CASE m \in {"one", "two"}
    <3>1. StepAt(IF m = "one" THEN 2 ELSE 3, "Offres") \in StepIds
      <4>1. HasStep(2, "Offres") /\ HasStep(3, "Offres")
        BY CatalogueLevels DEF HasStep, StepIds, FlowOf
      <4> QED BY <4>1, StepAtExists
    <3>2. Receive(t, u, "create", StepAt(IF m = "one" THEN 2 ELSE 3, "Offres"), "success")
      BY <1>4, <2>2 DEF HandleOfferChoice
    <3>3. passed' \in [Users -> SUBSET StepIds]
      BY <1>4, <2>1, <2>2, AcceptType DEF HandleOfferChoice
    <3> QED BY <1>0, <2>1, <3>1, <3>2, <3>3, ReceiveType
  <2>3. CASE m \notin {"one", "two"}
    BY <1>0, <1>4, <2>1, <2>3, ReceiveType DEF HandleOfferChoice
  <2> QED BY <2>2, <2>3
<1>5. CASE HandlePhoneNumber(t, u, m)
  BY <1>0, <1>5, ReceiveType DEF HandlePhoneNumber, PhoneSteps
<1>6. CASE HandleOtp(t, u, m)
  BY <1>0, <1>6, ReceiveType DEF HandleOtp, OtpSteps
<1>7. CASE HandleDocument(t, u, m)
  BY <1>0, <1>7, ReceiveType DEF HandleDocument, DocumentSteps
<1>8. CASE HandleThirdFlowFinal(t, u, m)
  BY <1>0, <1>8, FixedSteps, ReceiveType DEF HandleThirdFlowFinal
<1>9. CASE HandleUnexpected(t, u, m)
  BY <1>0, <1>9, ReceiveType DEF HandleUnexpected, Unexpected
<1>10. CASE HandleIgnored(t, u, m)
  BY <1>10 DEF HandleIgnored, TypeInv, TypeOK, ThreadsOK, tables, observers
<1> QED BY <1>1, <1>2, <1>3, <1>4, <1>5, <1>6, <1>7, <1>8, <1>9, <1>10 DEF NewMessage

LEMMA JudgeType ==
  ASSUME TypeInv, NEW t \in Threads, CheckDriver(t) \/ VerifyOtp(t) \/ ReadDocument(t)
  PROVE  TypeInv'
<1> DEFINE step == threads[t].conv.step
<1>1. ThreadOK(threads[t]) /\ threads[t] \in Thread
  BY ThreadIsOK
<1>2. /\ threads[t].pc \in {"driver", "otp", "ocr"}
      /\ step \in PhoneSteps \cup OtpSteps \cup DocumentSteps
  BY <1>1 DEF ThreadOK, CheckDriver, VerifyOtp, ReadDocument, At
<1>3. threads[t].conv \in Row /\ Wha(t) \in Users /\ step \in StepIds
  BY <1>1, <1>2, RowFacts DEF ThreadOK, Answering, Wha
<1>4. NextStep(step) \in StepIds
  BY <1>2, NextStepExists
<1>5. ThreadOK([threads[t] EXCEPT !.pc = "strike"])
  BY <1>1, <1>3, RowFacts DEF ThreadOK, Answering, Editing, Thread
<1>6. UNCHANGED <<convs, stale, hist, jobs, shown, received, crashes, strikes>>
  BY DEF CheckDriver, VerifyOtp, ReadDocument, tables
<1>7. ASSUME Goto(t, "strike"), UNCHANGED <<passed, users>>
      PROVE  TypeInv'
  <2>1. threads' \in [Threads -> Thread] /\ ThreadsOK'
    BY <1>5, <1>6, <1>7, GotoType DEF Labels
  <2> QED BY <2>1, <1>6, <1>7 DEF TypeInv, TypeOK
<1>8. ASSUME NEW after \in {"end", "otp", "push"}, GotoSave(t, NextStep(step), after),
             Accept(Wha(t), step), UNCHANGED users
      PROVE  TypeInv'
  <2>1. threads' \in [Threads -> Thread] /\ ThreadsOK'
    BY <1>3, <1>4, <1>6, <1>8, SaveType
  <2>2. passed' \in [Users -> SUBSET StepIds]
    BY <1>3, <1>8, AcceptType
  <2> QED BY <2>1, <2>2, <1>6, <1>8 DEF TypeInv, TypeOK
<1>9. ASSUME Finish(t) \/ Fail(t), UNCHANGED passed
      PROVE  TypeInv'
  <2>1. threads' \in [Threads -> Thread] /\ ThreadsOK' /\ users' \subseteq Users
    BY <1>3, <1>6, <1>9, FinishType, IdleType DEF Fail, Wha, TypeInv, TypeOK
  <2> QED BY <2>1, <1>6, <1>9 DEF TypeInv, TypeOK
<1>10. CASE CheckDriver(t)
  BY <1>7, <1>8, <1>10 DEF CheckDriver, tables
<1>11. CASE VerifyOtp(t)
  BY <1>7, <1>8, <1>9, <1>11 DEF VerifyOtp
<1>12. CASE ReadDocument(t)
  BY <1>7, <1>8, <1>9, <1>12 DEF ReadDocument
<1> QED BY <1>10, <1>11, <1>12

LEMMA HistoryType ==
  ASSUME TypeInv, NEW t \in Threads, CreateHistory(t) \/ FindHistory(t) \/ UpdateHistory(t)
  PROVE  TypeInv'
<1> DEFINE th == threads[t]
<1>1. th \in Thread /\ ThreadOK(th) /\ th.pc \in Editing
  BY ThreadIsOK DEF CreateHistory, FindHistory, UpdateHistory, At, Editing
<1>2. /\ th.conv.wha \in Users /\ EditStep(th) \in StepIds
      /\ Status(th.edit) \in {"IN_PROGRESS", "SUCCEEDED", "FAIL"}
      /\ Reason(th.edit) \in {"NONE", "NORMAL_FINISH", "ERROR", "TIME_LIMIT_REACHED"}
  BY <1>1 DEF ThreadOK, Editing, Status, Reason
<1>3. hist \in Seq(HistoryRow)
  BY DEF TypeInv, TypeOK
<1>4. CASE CreateHistory(t)
  <2>1. PICK row \in HistoryRow : hist' = Append(hist, row)
    BY <1>2, <1>4 DEF CreateHistory, HistoryRow
  <2>2. hist' \in Seq(HistoryRow) /\ DOMAIN hist \subseteq DOMAIN hist'
    BY <1>3, <2>1
  <2>3. threads' \in [Threads -> Thread] /\ ThreadsOK'
    <3>1. Goto(t, AfterEdit(th.edit))
      BY <1>4 DEF CreateHistory
    <3> HIDE DEF th
    <3> QED BY <1>1, <2>2, <3>1, AfterEditOK, GotoType DEF th
  <2> QED BY <1>4, <2>2, <2>3 DEF CreateHistory, TypeInv, TypeOK, observers
<1>5. CASE FindHistory(t)
  <2> DEFINE row == Latest(HistoryAt(th.conv.wha, LookupStep(th)))
             new == [th EXCEPT !.found = row,
                               !.pc = IF row = 0 THEN AfterEdit(th.edit) ELSE "histUpdate"]
  <2>1. row = 0 \/ row \in DOMAIN hist
    BY DEF Latest, HistoryAt
  <2>2. row \in Nat
    BY <1>3, <2>1
  <2>3. threads' = [threads EXCEPT ![t] = new]
    BY <1>5 DEF FindHistory
  <2>4. new \in Thread /\ (new.pc = "histUpdate" => new.found \in DOMAIN hist)
    BY <1>1, <2>1, <2>2, AfterEditOK DEF Thread, Labels
  <2>5. ThreadOK(new)
    <3>1. CASE row = 0
      BY <1>1, <3>1, AfterEditOK DEF Thread
    <3>2. CASE row # 0
      <4> HIDE DEF row
      <4> QED BY <1>1, <3>2 DEF ThreadOK, Thread, Editing, Answering, EditStep
    <3> QED BY <3>1, <3>2
  <2>6. UNCHANGED <<tables, jobs, shown, received, crashes, observers>>
    BY <1>5 DEF FindHistory
  <2> HIDE DEF new
  <2>7. threads' \in [Threads -> Thread] /\ ThreadsOK'
    BY <2>3, <2>4, <2>5, <2>6, OneThread DEF tables
  <2> QED BY <2>6, <2>7 DEF TypeInv, TypeOK, tables, observers
<1>6. CASE UpdateHistory(t)
  <2> DEFINE old == hist[th.found]
             row == [old EXCEPT !.step = EditStep(th), !.status = Status(th.edit),
                       !.reason = IF th.edit = "progress" THEN old.reason ELSE Reason(th.edit)]
             new == [th EXCEPT !.pc = AfterEdit(th.edit), !.found = 0]
  <2>1. th.found \in DOMAIN hist
    BY <1>6, ThreadIsOK DEF UpdateHistory, At
  <2>2. old \in HistoryRow
    BY <1>3, <2>1
  <2>3. row \in HistoryRow
    BY <1>2, <2>2 DEF HistoryRow
  <2>4. hist' = [hist EXCEPT ![th.found] = row]
    BY <1>6 DEF UpdateHistory
  <2> HIDE DEF row
  <2>5. hist' \in Seq(HistoryRow) /\ DOMAIN hist' = DOMAIN hist
    BY <1>3, <2>1, <2>3, <2>4, ExceptSeq
  <2>6. threads' = [threads EXCEPT ![t] = new]
    BY <1>6 DEF UpdateHistory
  <2>7. new \in Thread /\ new.pc # "histUpdate" /\ ThreadOK(new)
    BY <1>1, AfterEditOK DEF Thread
  <2> HIDE DEF new
  <2>8. threads' \in [Threads -> Thread] /\ ThreadsOK'
    BY <2>5, <2>6, <2>7, OneThread
  <2> QED BY <1>6, <2>5, <2>8 DEF UpdateHistory, TypeInv, TypeOK, observers
<1> QED BY <1>4, <1>5, <1>6

LEMMA DeliverType ==
  ASSUME TypeInv, NEW u \in Users, NEW s \in StepIds \cup {ErrorShown}, Deliver(u, s)
  PROVE  shown' \in [Users -> {ErrorShown, NothingShown} \cup StepIds]
BY DEF Deliver, TypeInv, TypeOK

LEMMA SaveMessageType ==
  ASSUME TypeInv, NEW t \in Threads,
         CreateConversation(t) \/ EmitPrompt(t) \/ SendOtp(t) \/ PushJob(t)
  PROVE  TypeInv'
<1> DEFINE th == threads[t]
<1>1. th \in Thread /\ ThreadOK(th)
  BY ThreadIsOK
<1>2. th.conv.wha \in Users /\ Wha(t) \in Users
  BY <1>1 DEF ThreadOK, CreateConversation, EmitPrompt, SendOtp, PushJob, At, Wha
<1>3. CASE CreateConversation(t)
  <2>1. th.step \in StepIds
    BY <1>1, <1>3 DEF ThreadOK, CreateConversation, At
  <2>2. strikes \in Seq(Nat) /\ convs \subseteq Row
    BY DEF TypeInv, TypeOK
  <2>3. [id |-> Len(strikes) + 1, wha |-> Wha(t), step |-> th.step, bad |-> 0] \in Row
    BY <1>2, <2>1, <2>2 DEF Row
  <2>4. convs' \subseteq Row /\ strikes' \in Seq(Nat)
    BY <1>3, <2>2, <2>3 DEF CreateConversation
  <2>5. threads' \in [Threads -> Thread] /\ ThreadsOK'
    BY <1>2, <1>3, <2>1, EditType DEF CreateConversation
  <2> QED BY <1>3, <2>4, <2>5 DEF CreateConversation, TypeInv, TypeOK
<1>4. CASE EmitPrompt(t)
  <2>1. shown' \in [Users -> {ErrorShown, NothingShown} \cup StepIds]
    BY <1>1, <1>2, <1>4, DeliverType DEF ThreadOK, EmitPrompt, At
  <2>2. UNCHANGED <<convs, stale, hist, jobs, received, crashes, observers>>
    BY <1>4 DEF EmitPrompt
  <2>3. threads' \in [Threads -> Thread] /\ ThreadsOK' /\ users' \subseteq Users
    <3>0. users \subseteq Users
      BY DEF TypeInv, TypeOK
    <3>1. CASE Finish(t)
      BY <1>2, <2>2, <3>1, FinishType
    <3>2. CASE th.after = "otp" /\ Goto(t, "sendOtp") /\ UNCHANGED users
      <4>1. ThreadOK([th EXCEPT !.pc = "sendOtp"])
        BY <1>1, <1>2, <3>2 DEF ThreadOK, Thread, Answering, Editing
      <4> QED BY <2>2, <3>0, <3>2, <4>1, GotoType DEF Labels
    <3>3. CASE th.after = "push" /\ Goto(t, "push") /\ UNCHANGED users
      <4>1. ThreadOK([th EXCEPT !.pc = "push"])
        BY <1>1, <1>2, <3>3 DEF ThreadOK, Thread, Answering, Editing
      <4> QED BY <2>2, <3>0, <3>3, <4>1, GotoType DEF Labels
    <3>4. CASE th.after = "success" /\ GotoEdit(t, "success", th.conv.step) /\ UNCHANGED users
      <4>1. th.conv \in Row
        BY <1>1, <3>4 DEF ThreadOK
      <4> QED BY <1>2, <2>2, <3>0, <3>4, <4>1, EditType
    <3> QED BY <1>4, <3>1, <3>2, <3>3, <3>4 DEF EmitPrompt
  <2> QED BY <2>1, <2>2, <2>3 DEF TypeInv, TypeOK, observers
<1>5. CASE SendOtp(t)
  <2>1. UNCHANGED <<convs, stale, hist, jobs, shown, received, crashes, observers>>
    BY <1>5 DEF SendOtp
  <2>2. threads' \in [Threads -> Thread] /\ ThreadsOK' /\ users' \subseteq Users
    <3>1. CASE Finish(t)
      BY <1>2, <2>1, <3>1, FinishType
    <3>2. CASE Goto(t, "strike") /\ UNCHANGED users
      <4>1. ThreadOK([th EXCEPT !.pc = "strike"])
        BY <1>1, <1>5 DEF ThreadOK, Thread, Answering, Editing, SendOtp, At
      <4> QED BY <2>1, <3>2, <4>1, GotoType DEF Labels, TypeInv, TypeOK
    <3> QED BY <1>5, <3>1, <3>2 DEF SendOtp
  <2> QED BY <2>1, <2>2 DEF TypeInv, TypeOK, observers
<1>6. CASE PushJob(t)
  <2>1. jobs' \in Seq(Row)
    <3>1. th.conv \in Row /\ jobs \in Seq(Row)
      BY <1>1, <1>6 DEF ThreadOK, PushJob, At, Answering, TypeInv, TypeOK
    <3> QED BY <1>6, <3>1 DEF PushJob
  <2>2. threads' \in [Threads -> Thread] /\ ThreadsOK' /\ users' \subseteq Users
    BY <1>2, <1>6, FinishType DEF PushJob
  <2> QED BY <1>6, <2>1, <2>2 DEF PushJob, TypeInv, TypeOK, observers
<1> QED BY <1>3, <1>4, <1>5, <1>6

LEMMA AbortType ==
  ASSUME TypeInv, NEW t \in Threads,
         Strike(t) \/ TellError(t) \/ TellRetry(t) \/ RemoveAll(t) \/ TellStopped(t)
  PROVE  TypeInv'
<1> DEFINE th == threads[t]
<1>1. th \in Thread /\ ThreadOK(th)
  BY ThreadIsOK
<1>2. th.conv.wha \in Users /\ Wha(t) \in Users
  BY <1>1 DEF ThreadOK, Strike, TellError, TellRetry, RemoveAll, TellStopped, At, Wha
<1>3. users \subseteq Users
  BY DEF TypeInv, TypeOK
<1>4. CASE Strike(t)
  <2> DEFINE c == th.conv
             bad == c.bad + 1
  <2>1. c \in Row /\ c.id \in Nat \ {0} /\ bad \in Nat
    BY <1>1, <1>4, RowFacts DEF ThreadOK, Strike, At, Answering
  <2>2. UNCHANGED <<hist, jobs, shown, received, crashes, passed>>
    BY <1>4 DEF Strike
  <2>3. CASE HasRow(c.id)
    <3>1. convs' = {IF r.id = c.id THEN [r EXCEPT !.bad = bad] ELSE r : r \in convs}
      BY <1>4, <2>3 DEF Strike
    <3>2. convs' \subseteq Row
      BY <2>1, <3>1 DEF Row, TypeInv, TypeOK
    <3>3. stale' \subseteq Nat \ {0} /\ UNCHANGED users
      BY <1>4, <2>3 DEF Strike, TypeInv, TypeOK
    <3>4. strikes' \in Seq(Nat)
      <4>1. strikes' = [strikes EXCEPT ![c.id] = strikes[c.id] + 1] /\ strikes \in Seq(Nat)
        BY <1>4, <2>3 DEF Strike, TypeInv, TypeOK
      <4>2. CASE c.id \in 1..Len(strikes)
        <5>1. strikes[c.id] + 1 \in Nat
          BY <4>1, <4>2
        <5> QED BY <4>1, <4>2, <5>1, ExceptSeq
      <4>3. CASE c.id \notin 1..Len(strikes)
        <5>1. c.id \notin DOMAIN strikes
          BY <4>1, <4>3
        <5>2. [strikes EXCEPT ![c.id] = strikes[c.id] + 1] = strikes
          BY <4>1, <5>1
        <5> QED BY <4>1, <5>2
      <4> QED BY <4>2, <4>3
    <3>5. threads' \in [Threads -> Thread] /\ ThreadsOK'
      <4>1. CASE GotoEdit(t, "error", c.step)
        BY <1>2, <2>1, <2>2, <4>1, EditType
      <4>2. CASE Goto(t, "tellError")
        <5>1. ThreadOK([th EXCEPT !.pc = "tellError"])
          BY <1>1, <1>2, <2>1 DEF ThreadOK, Thread, Answering, Editing
        <5> QED BY <2>2, <4>2, <5>1, GotoType DEF Labels
      <4> QED BY <1>4, <2>3, <4>1, <4>2 DEF Strike
    <3> QED BY <1>3, <2>2, <3>2, <3>3, <3>4, <3>5 DEF TypeInv, TypeOK
  <2>4. CASE ~HasRow(c.id)
    <3>1. Finish(t) /\ UNCHANGED <<convs, stale, strikes>>
      BY <1>4, <2>4 DEF Strike
    <3>2. threads' \in [Threads -> Thread] /\ ThreadsOK' /\ users' \subseteq Users
      BY <1>2, <2>2, <3>1, FinishType
    <3> QED BY <2>2, <3>1, <3>2 DEF TypeInv, TypeOK
  <2> QED BY <2>3, <2>4
<1>5. CASE TellError(t)
  <2>1. shown' \in [Users -> {ErrorShown, NothingShown} \cup StepIds]
    BY <1>2, <1>5, DeliverType DEF TellError
  <2>2. UNCHANGED <<convs, stale, hist, jobs, received, crashes, observers>>
    BY <1>5 DEF TellError
  <2>3. threads' \in [Threads -> Thread] /\ ThreadsOK' /\ users' \subseteq Users
    <3>1. CASE Finish(t)
      BY <1>2, <2>2, <3>1, FinishType
    <3>2. CASE Goto(t, "tellRetry") /\ UNCHANGED users
      <4>1. ThreadOK([th EXCEPT !.pc = "tellRetry"])
        BY <1>1, <1>5 DEF ThreadOK, Thread, Answering, Editing, TellError, At
      <4> QED BY <1>3, <2>2, <3>2, <4>1, GotoType DEF Labels
    <3> QED BY <1>5, <3>1, <3>2 DEF TellError
  <2> QED BY <2>1, <2>2, <2>3 DEF TypeInv, TypeOK, observers
<1>6. CASE TellRetry(t)
  <2>1. shown' \in [Users -> {ErrorShown, NothingShown} \cup StepIds]
    BY <1>2, <1>6, DeliverType, FixedSteps DEF TellRetry
  <2>2. ThreadOK([th EXCEPT !.pc = "removeAll"])
    BY <1>1, <1>2 DEF ThreadOK, Thread, Answering, Editing
  <2>3. threads' \in [Threads -> Thread] /\ ThreadsOK'
    BY <1>6, <2>2, GotoType DEF TellRetry, Labels, tables
  <2> QED BY <1>6, <2>1, <2>3 DEF TellRetry, TypeInv, TypeOK, tables, observers
<1>7. CASE RemoveAll(t)
  <2>1. convs' \subseteq Row /\ stale' \subseteq Nat \ {0}
    BY <1>7 DEF RemoveAll, RemoveRows, TypeInv, TypeOK
  <2>2. UNCHANGED <<hist, jobs, shown, received, crashes, observers>>
    BY <1>7 DEF RemoveAll
  <2>3. threads' \in [Threads -> Thread] /\ ThreadsOK' /\ users' \subseteq Users
    <3>1. CASE Finish(t)
      BY <1>2, <2>2, <3>1, FinishType
    <3>2. CASE Goto(t, "tellStopped") /\ UNCHANGED users
      <4>1. ThreadOK([th EXCEPT !.pc = "tellStopped"])
        BY <1>1, <1>2 DEF ThreadOK, Thread, Answering, Editing
      <4> QED BY <1>3, <2>2, <3>2, <4>1, GotoType DEF Labels
    <3> QED BY <1>7, <3>1, <3>2 DEF RemoveAll
  <2> QED BY <2>1, <2>2, <2>3 DEF TypeInv, TypeOK, observers
<1>8. CASE TellStopped(t)
  <2>1. shown' \in [Users -> {ErrorShown, NothingShown} \cup StepIds]
    BY <1>2, <1>8, DeliverType, FixedSteps DEF TellStopped
  <2>2. threads' \in [Threads -> Thread] /\ ThreadsOK' /\ users' \subseteq Users
    BY <1>2, <1>8, FinishType DEF TellStopped
  <2> QED BY <1>8, <2>1, <2>2 DEF TellStopped, TypeInv, TypeOK, observers
<1> QED BY <1>4, <1>5, <1>6, <1>7, <1>8

LEMMA BackType ==
  ASSUME TypeInv, NEW t \in Threads, FindLast(t) \/ RemoveLast(t)
  PROVE  TypeInv'
<1> DEFINE th == threads[t]
<1>1. th \in Thread /\ ThreadOK(th)
  BY ThreadIsOK
<1>2. th.conv.wha \in Users /\ Wha(t) \in Users
  BY <1>1 DEF ThreadOK, FindLast, RemoveLast, At, Wha
<1>3. users \subseteq Users /\ convs \subseteq Row /\ stale \subseteq Nat \ {0}
  BY DEF TypeInv, TypeOK
<1>4. UNCHANGED <<hist, jobs, shown, received, crashes, observers>>
  BY DEF FindLast, RemoveLast
<1>5. ASSUME Fail(t)
      PROVE  threads' \in [Threads -> Thread] /\ ThreadsOK' /\ users' \subseteq Users
  BY <1>3, <1>4, <1>5, IdleType DEF Fail
<1>6. CASE FindLast(t)
  <2> DEFINE last == LastConversation(Wha(t))
             new == [th EXCEPT !.pc = "backRemove", !.found = last.id]
  <2>1. threads' \in [Threads -> Thread] /\ ThreadsOK' /\ users' \subseteq Users
    <3>1. CASE Fail(t)
      BY <1>5, <3>1
    <3>2. CASE threads' = [threads EXCEPT ![t] = new] /\ UNCHANGED users
      <4>1. last \in Snapshot
        BY <1>2, LastConversationType DEF TypeInv
      <4>2. last.id \in Nat
        BY <4>1 DEF Snapshot, Row, NoRow
      <4> HIDE DEF last
      <4>3. new \in Thread /\ new.pc # "histUpdate"
        BY <1>1, <4>2 DEF Thread, Labels
      <4>4. ThreadOK(new)
        BY <1>1, <1>2, <4>2 DEF ThreadOK, Thread, Answering, Editing
      <4> HIDE DEF new
      <4> QED BY <1>3, <1>4, <3>2, <4>3, <4>4, OneThread
    <3> QED BY <1>6, <3>1, <3>2 DEF FindLast
  <2> QED BY <1>3, <1>4, <1>6, <2>1 DEF FindLast, TypeInv, TypeOK, observers
<1>7. CASE RemoveLast(t)
  <2>1. convs' \subseteq Row /\ stale' \subseteq Nat \ {0}
    BY <1>3, <1>7 DEF RemoveLast
  <2>2. threads' \in [Threads -> Thread] /\ ThreadsOK' /\ users' \subseteq Users
    <3>1. CASE Fail(t)
      BY <1>5, <3>1
    <3>2. CASE ~Fail(t)
      <4>1. HasRow(th.found)
        BY <1>7, <3>2 DEF RemoveLast
      <4> DEFINE row == CHOOSE r \in convs : r.id = th.found
                 new == [th EXCEPT !.pc = "create", !.found = 0, !.step = Previous(row.step)]
      <4>2. row \in convs
        BY <4>1 DEF HasRow
      <4>3. row.step \in StepIds
        BY <1>3, <4>2, RowFacts
      <4>4. HasPrevious(row.step) /\ threads' = [threads EXCEPT ![t] = new] /\ UNCHANGED users
        BY <1>7, <3>2, <4>1 DEF RemoveLast
      <4> HIDE DEF row
      <4>5. Previous(row.step) \in StepIds
        BY <4>3, <4>4, PreviousExists
      <4>6. new \in Thread /\ new.pc # "histUpdate"
        BY <1>1, <4>5 DEF Thread, Labels
      <4>7. ThreadOK(new)
        BY <1>1, <1>2, <4>5 DEF ThreadOK, Thread, Answering, Editing
      <4> HIDE DEF new
      <4> QED BY <1>3, <1>4, <4>4, <4>6, <4>7, OneThread
    <3> QED BY <3>1, <3>2
  <2> QED BY <1>4, <2>1, <2>2 DEF TypeInv, TypeOK, observers
<1> QED BY <1>6, <1>7

LEMMA WorkerType ==
  ASSUME TypeInv, NEW t \in Threads, TakeJob(t) \/ Work(t) \/ Announce(t)
  PROVE  TypeInv'
<1> DEFINE th == threads[t]
<1>1. th \in Thread /\ ThreadOK(th)
  BY ThreadIsOK
<1>2. CASE TakeJob(t)
  <2>0. jobs \in Seq(Row) /\ jobs # << >>
    BY <1>2 DEF TakeJob, TypeInv, TypeOK
  <2>1. Head(jobs) \in Row /\ jobs' \in Seq(Row)
    BY <1>2, <2>0 DEF TakeJob
  <2> DEFINE new == [th EXCEPT !.pc = "work", !.conv = Head(jobs)]
  <2>2. threads' = [threads EXCEPT ![t] = new]
    BY <1>2 DEF TakeJob
  <2>3. new \in Thread /\ new.pc # "histUpdate"
    BY <1>1, <2>1, RowFacts DEF Thread, Labels
  <2>4. ThreadOK(new)
    BY <1>1, <2>1, RowFacts DEF ThreadOK, Thread, Answering, Editing
  <2> HIDE DEF new
  <2>5. threads' \in [Threads -> Thread] /\ ThreadsOK'
    BY <1>2, <2>2, <2>3, <2>4, OneThread DEF TakeJob, tables
  <2> QED BY <1>2, <2>1, <2>5 DEF TakeJob, TypeInv, TypeOK, tables, observers
<1>3. CASE Work(t)
  <2>1. th.conv \in Row /\ th.conv.wha \in Users
    BY <1>1, <1>3 DEF ThreadOK, Work, At, Answering
  <2>2. UNCHANGED <<tables, jobs, shown, received, crashes, observers>>
    BY <1>3 DEF Work
  <2>3. threads' \in [Threads -> Thread] /\ ThreadsOK'
    <3>1. CASE Goto(t, "announce")
      <4>1. ThreadOK([th EXCEPT !.pc = "announce"])
        BY <1>1, <2>1 DEF ThreadOK, Thread, Answering, Editing
      <4> QED BY <2>2, <3>1, <4>1, GotoType DEF Labels, tables
    <3>2. CASE GotoEdit(t, "error", th.conv.step)
      BY <2>1, <2>2, <3>2, EditType DEF tables
    <3> QED BY <1>3, <3>1, <3>2 DEF Work
  <2> QED BY <2>2, <2>3 DEF TypeInv, TypeOK, tables, observers
<1>4. CASE Announce(t)
  <2>1. th.conv \in Row /\ Wha(t) \in Users /\ th.conv.wha \in Users
    BY <1>1, <1>4 DEF ThreadOK, Announce, At, Answering, Wha
  <2>2. shown' \in [Users -> {ErrorShown, NothingShown} \cup StepIds]
    <3>1. SuccessStep(FlowOf(th.conv.step)) \in StepIds
      BY FixedSteps DEF SuccessStep
    <3> QED BY <1>4, <2>1, <3>1, DeliverType DEF Announce
  <2>3. threads' \in [Threads -> Thread] /\ ThreadsOK'
    BY <1>4, <2>1, EditType DEF Announce, tables
  <2> QED BY <1>4, <2>2, <2>3 DEF Announce, TypeInv, TypeOK, tables, observers
<1> QED BY <1>2, <1>3, <1>4

LEMMA UndertakerType ==
  ASSUME TypeInv, NEW t \in Threads,
         StartRun(t) \/ Visit(t) \/ EndRun(t) \/ Bury(t) \/ TellTimeout(t)
  PROVE  TypeInv'
<1> DEFINE th == threads[t]
<1>1. th \in Thread /\ ThreadOK(th)
  BY ThreadIsOK
<1>2. ASSUME NEW phones \in SUBSET Users
      PROVE  /\ [Idle EXCEPT !.pc = "visit", !.phones = phones] \in Thread
             /\ ThreadOK([Idle EXCEPT !.pc = "visit", !.phones = phones])
  BY IdleOK DEF Idle, Thread, ThreadOK, Labels, Answering, Editing
<1>3. CASE StartRun(t)
  <2> DEFINE new == [Idle EXCEPT !.pc = "visit", !.phones = {r.wha : r \in convs}]
  <2>1. {r.wha : r \in convs} \subseteq Users
    BY RowFacts DEF TypeInv, TypeOK
  <2>2. new \in Thread /\ ThreadOK(new) /\ new.pc # "histUpdate"
    BY <1>2, <2>1 DEF Idle
  <2>3. threads' = [threads EXCEPT ![t] = new]
    BY <1>3 DEF StartRun
  <2> HIDE DEF new
  <2>4. threads' \in [Threads -> Thread] /\ ThreadsOK'
    BY <1>3, <2>2, <2>3, OneThread DEF StartRun, tables
  <2> QED BY <1>3, <2>4 DEF StartRun, TypeInv, TypeOK, tables, observers
<1>4. CASE Visit(t)
  <2>1. PICK u \in th.phones :
          LET last == LastConversation(u)
              rest == [Idle EXCEPT !.pc = "visit", !.phones = th.phones \ {u}]
          IN threads' = [threads EXCEPT ![t] =
               IF IsOld(last) THEN [rest EXCEPT !.pc = "bury", !.conv = last] ELSE rest]
    BY <1>4 DEF Visit
  <2> DEFINE last == LastConversation(u)
             rest == [Idle EXCEPT !.pc = "visit", !.phones = th.phones \ {u}]
             grave == [rest EXCEPT !.pc = "bury", !.conv = last]
             new == IF IsOld(last) THEN grave ELSE rest
  <2>2. u \in Users /\ th.phones \ {u} \in SUBSET Users
    BY <1>1 DEF Thread
  <2>3. rest \in Thread /\ ThreadOK(rest) /\ rest.pc # "histUpdate"
    BY <1>2, <2>2 DEF Idle
  <2>4. CASE IsOld(last)
    <3>1. last \in Row /\ last.wha \in Users
      <4>1. last.id # 0
        BY <2>4 DEF IsOld, TypeInv, TypeOK
      <4> QED BY <2>2, <4>1, LastConversationType DEF TypeInv
    <3> HIDE DEF last
    <3>2. grave \in Thread /\ grave.pc # "histUpdate"
      BY <2>3, <3>1, RowFacts DEF Thread, Labels, Idle
    <3>3. ThreadOK(grave)
      BY <2>3, <3>1, RowFacts DEF ThreadOK, Thread, Answering, Editing, Idle
    <3> HIDE DEF grave
    <3>4. threads' = [threads EXCEPT ![t] = grave]
      BY <2>1, <2>4 DEF grave, last
    <3> QED BY <1>4, <3>2, <3>3, <3>4, OneThread
        DEF Visit, TypeInv, TypeOK, tables, observers
  <2>5. CASE ~IsOld(last)
    <3>1. threads' = [threads EXCEPT ![t] = rest]
      BY <2>1, <2>5
    <3> HIDE DEF rest
    <3> QED BY <1>4, <2>3, <3>1, OneThread DEF Visit, TypeInv, TypeOK, tables, observers
  <2> QED BY <2>4, <2>5
<1>5. CASE EndRun(t)
  <2>1. threads' \in [Threads -> Thread] /\ ThreadsOK' /\ users' = users
    BY <1>5, IdleType DEF EndRun, Fail
  <2> QED BY <1>5, <2>1 DEF EndRun, TypeInv, TypeOK, observers
<1>6. CASE Bury(t)
  <2>1. ThreadOK([th EXCEPT !.pc = "tellTimeout"])
    BY <1>1, <1>6 DEF ThreadOK, Thread, Answering, Editing, Bury, At
  <2>2. threads' \in [Threads -> Thread] /\ ThreadsOK'
    BY <1>6, <2>1, GotoType DEF Bury, Labels
  <2>3. convs' \subseteq Row /\ stale' \subseteq Nat \ {0}
    BY <1>6 DEF Bury, RemoveRows, TypeInv, TypeOK
  <2> QED BY <1>6, <2>2, <2>3 DEF Bury, TypeInv, TypeOK, observers
<1>7. CASE TellTimeout(t)
  <2>1. th.conv \in Row /\ Wha(t) \in Users /\ th.conv.wha \in Users
    BY <1>1, <1>7 DEF ThreadOK, TellTimeout, At, Answering, Wha
  <2>2. shown' \in [Users -> {ErrorShown, NothingShown} \cup StepIds]
    BY <1>7, <2>1, DeliverType, FixedSteps DEF TellTimeout
  <2>3. threads' \in [Threads -> Thread] /\ ThreadsOK'
    BY <1>7, <2>1, EditType DEF TellTimeout, tables
  <2> QED BY <1>7, <2>2, <2>3 DEF TellTimeout, TypeInv, TypeOK, tables, observers
<1> QED BY <1>3, <1>4, <1>5, <1>6, <1>7

LEMMA NextType == TypeInv /\ [Next]_vars => TypeInv'
<1> SUFFICES ASSUME TypeInv, [Next]_vars PROVE TypeInv'
  OBVIOUS
<1>1. ASSUME NEW t \in Handlers, NEW u \in Users, NEW m \in Sendable, NewMessage(t, u, m)
      PROVE  TypeInv'
  BY <1>1, NewMessageType
<1>2. ASSUME NEW t \in Workers, TakeJob(t)
      PROVE  TypeInv'
  BY <1>2, WorkerType DEF Threads
<1>3. ASSUME NEW t \in Undertakers, StartRun(t)
      PROVE  TypeInv'
  BY <1>3, UndertakerType DEF Threads
<1>4. ASSUME NEW t \in Threads, Resume(t)
      PROVE  TypeInv'
  BY <1>4, JudgeType, HistoryType, SaveMessageType, AbortType, BackType, WorkerType,
     UndertakerType DEF Resume
<1>5. ASSUME NEW u \in Users, FiveMinutesPass(u)
      PROVE  TypeInv'
  <2>1. stale' \subseteq Nat \ {0}
    BY <1>5, RowFacts DEF FiveMinutesPass, RowsOf, TypeInv, TypeOK
  <2> QED BY <1>5, <2>1 DEF FiveMinutesPass, TypeInv, TypeOK, ThreadsOK, observers
<1>6. CASE Crash
  <2>1. Idle.pc = "idle"
    BY DEF Idle
  <2>2. threads' \in [Threads -> Thread] /\ ThreadsOK'
    BY <1>6, <2>1, IdleOK DEF Crash, ThreadsOK
  <2> QED BY <1>6, <2>2 DEF Crash, TypeInv, TypeOK, tables, observers
<1>7. CASE UNCHANGED vars
  BY <1>7 DEF vars, tables, observers, TypeInv, TypeOK, ThreadsOK
<1> QED BY <1>1, <1>2, <1>3, <1>4, <1>5, <1>6, <1>7 DEF Next

(* Type correctness, with what a thread carries at each of its labels.     *)
LEMMA TypeInvariant == Spec => []TypeInv
BY InitType, NextType, PTL DEF Spec

(* The tables, the threads and the queue stay well formed: no handler      *)
(* saves a step the catalogue lacks or edits a history row that is not     *)
(* there.                                                                  *)
THEOREM TypeCorrect == Spec => []TypeOK
<1>1. TypeInv => TypeOK
  BY DEF TypeInv
<1> QED BY <1>1, TypeInvariant, PTL

(***************************************************************************)
(* An abort is earned.  The count a handler writes comes from its snapshot *)
(* and may lose the counts of others, but it never exceeds the number of   *)
(* bad answers counted against the row: that is the strengthening, for     *)
(* every copy of a row, in the table, in a thread or in the queue.         *)
(***************************************************************************)
Counted(c) == c.id \in DOMAIN strikes /\ c.bad <= strikes[c.id]

Earned(th) == th.edit = "error" => th.conv.id \in DOMAIN strikes /\ strikes[th.conv.id] >= 2

StrikeInv ==
  /\ \A r \in convs : Counted(r)
  /\ \A i \in DOMAIN jobs : Counted(jobs[i])
  /\ \A t \in Threads : threads[t].conv.id # 0 => Counted(threads[t].conv)
  /\ \A t \in Handlers : threads[t].pc # "work" /\ Earned(threads[t])

StrikesGrow ==
  \A i \in DOMAIN strikes : i \in DOMAIN strikes' /\ strikes[i] <= strikes'[i]

(* A thread that moves without counting keeps the row it holds, or takes   *)
(* one that exists, and does not begin to abort.                           *)
Gentle(t) ==
  /\ \A s \in Threads \ {t} : threads'[s] = threads[s]
  /\ \/ threads'[t].conv = threads[t].conv
     \/ threads'[t].conv.id = 0
     \/ threads'[t].conv \in convs
     \/ \E i \in DOMAIN jobs : threads'[t].conv = jobs[i]
  /\ t \in Handlers => threads'[t].pc # "work"
  /\ threads'[t].edit = "error" =>
       t \notin Handlers
         \/ (threads[t].edit = "error" /\ threads'[t].conv = threads[t].conv)

JobsKept(t) ==
  \A i \in DOMAIN jobs' :
    \/ \E k \in DOMAIN jobs : jobs'[i] = jobs[k]
    \/ jobs'[i] = threads[t].conv /\ threads[t].conv.id # 0

LEMMA GentleStep ==
  ASSUME StrikeInv, NEW t \in Threads, Gentle(t), JobsKept(t),
         strikes' = strikes, convs' \subseteq convs
  PROVE  StrikeInv'
<1>1. \A r \in convs' : Counted(r)'
  BY DEF StrikeInv, Counted
<1>2. \A i \in DOMAIN jobs' : Counted(jobs[i])'
  BY DEF StrikeInv, Counted, JobsKept
<1>3. ASSUME NEW s \in Threads, threads'[s].conv.id # 0
      PROVE  Counted(threads[s].conv)'
  BY <1>3 DEF StrikeInv, Counted, Gentle
<1>4. ASSUME NEW s \in Handlers
      PROVE  threads'[s].pc # "work" /\ Earned(threads[s])'
  <2>1. s \in Threads
    BY DEF Threads
  <2> QED BY <2>1 DEF StrikeInv, Earned, Gentle
<1> QED BY <1>1, <1>2, <1>3, <1>4 DEF StrikeInv

(* The ways of moving on, Strike's abort apart, are gentle.                *)
LEMMA ReplaceGentle ==
  ASSUME TypeInv, NEW t \in Threads, NEW th, threads' = [threads EXCEPT ![t] = th],
         th.conv = threads[t].conv \/ th.conv.id = 0,
         th.pc # "work",
         th.edit = "error" => \/ t \notin Handlers
                              \/ threads[t].edit = "error" /\ th.conv = threads[t].conv
  PROVE  Gentle(t)
BY DEF Gentle, TypeInv, TypeOK

LEMMA GotoGentle ==
  ASSUME TypeInv, NEW t \in Threads, NEW pc, pc # "work", Goto(t, pc)
  PROVE  Gentle(t)
<1> DEFINE th == [threads[t] EXCEPT !.pc = pc]
<1>1. threads' = [threads EXCEPT ![t] = th]
  BY DEF Goto
<1>2. th.conv = threads[t].conv /\ th.pc = pc /\ th.edit = threads[t].edit
  BY ThreadIsOK DEF Thread
<1> QED BY <1>1, <1>2, ReplaceGentle

LEMMA SaveGentle ==
  ASSUME TypeInv, NEW t \in Threads, NEW s, NEW after, GotoSave(t, s, after)
  PROVE  Gentle(t)
<1> DEFINE th == [threads[t] EXCEPT !.pc = "create", !.step = s, !.after = after]
<1>1. threads' = [threads EXCEPT ![t] = th]
  BY DEF GotoSave
<1>2. th.conv = threads[t].conv /\ th.pc = "create" /\ th.edit = threads[t].edit
  BY ThreadIsOK DEF Thread
<1> QED BY <1>1, <1>2, ReplaceGentle

LEMMA FoundGentle ==
  ASSUME TypeInv, NEW t \in Threads, NEW pc, pc # "work", NEW found, NEW step,
         \/ threads' = [threads EXCEPT ![t].pc = pc, ![t].found = found]
         \/ threads' = [threads EXCEPT ![t].found = found, ![t].pc = pc]
         \/ threads' = [threads EXCEPT ![t].pc = pc, ![t].found = found, ![t].step = step]
  PROVE  Gentle(t)
<1> DEFINE both == [threads[t] EXCEPT !.pc = pc, !.found = found]
           all == [threads[t] EXCEPT !.pc = pc, !.found = found, !.step = step]
<1>1. \/ threads' = [threads EXCEPT ![t] = both]
      \/ threads' = [threads EXCEPT ![t] = all]
  BY ThreadIsOK DEF Thread, TypeInv, TypeOK
<1>2. /\ both.conv = threads[t].conv /\ both.pc = pc /\ both.edit = threads[t].edit
      /\ all.conv = threads[t].conv /\ all.pc = pc /\ all.edit = threads[t].edit
  BY ThreadIsOK DEF Thread
<1> HIDE DEF both, all
<1> QED BY <1>1, <1>2, ReplaceGentle

LEMMA EndGentle ==
  ASSUME TypeInv, NEW t \in Threads, Finish(t) \/ Fail(t)
  PROVE  Gentle(t)
<1>1. Idle.conv.id = 0 /\ Idle.pc # "work" /\ Idle.edit = "none"
  BY DEF Idle, NoRow
<1> QED BY <1>1, ReplaceGentle DEF Finish, Fail

LEMMA EditGentle ==
  ASSUME TypeInv, NEW t \in Threads, NEW edit, NEW step, GotoEdit(t, edit, step),
         edit = "error" => t \notin Handlers
  PROVE  Gentle(t)
<1> DEFINE label == IF step = MenuStep THEN "histNew" ELSE "histFind"
           th == [threads[t] EXCEPT !.edit = edit, !.pc = label]
<1>1. threads' = [threads EXCEPT ![t] = th]
  BY DEF GotoEdit
<1>2. th.conv = threads[t].conv /\ th.pc # "work" /\ th.edit = edit
  BY ThreadIsOK DEF Thread
<1> QED BY <1>1, <1>2, ReplaceGentle

LEMMA NewMessageStrikes ==
  ASSUME TypeInv, TypeInv', StrikeInv,
         NEW t \in Handlers, NEW u \in Users, NEW m, NewMessage(t, u, m)
  PROVE  StrikeInv'
<1>0. t \in Threads /\ threads \in [Threads -> Thread]
  BY DEF Threads, TypeInv, TypeOK
<1>1. UNCHANGED <<convs, jobs, strikes>>
  BY DEF NewMessage, Receive, HandleNewConversation, HandleMenu, HandleBackOrStop,
     HandleOfferChoice, HandlePhoneNumber, HandleOtp, HandleDocument, HandleThirdFlowFinal,
     HandleUnexpected, HandleIgnored, tables, observers
<1>2. CASE HandleIgnored(t, u, m)
  BY <1>1, <1>2 DEF HandleIgnored, StrikeInv, Counted, Earned
<1>3. ASSUME NEW pc, NEW step, NEW after, Receive(t, u, pc, step, after), pc # "work"
      PROVE  StrikeInv'
  <2>1. /\ threads' = [threads EXCEPT ![t] = threads'[t]]
        /\ threads'[t].conv = LastConversation(u)
        /\ threads'[t].pc = pc
        /\ threads'[t].edit = "none"
    BY <1>0, <1>3 DEF Receive, Idle
  <2>2. Gentle(t)
    BY <1>0, <1>3, <2>1, LastConversationType DEF Gentle, TypeInv
  <2>3. JobsKept(t)
    BY <1>1 DEF JobsKept
  <2>4. strikes' = strikes /\ convs' \subseteq convs
    BY <1>1
  <2> QED BY <1>0, <2>2, <2>3, <2>4, GentleStep
<1>4. ~HandleIgnored(t, u, m) =>
        \E pc, step, after : Receive(t, u, pc, step, after) /\ pc # "work"
  BY DEF NewMessage, HandleNewConversation, HandleMenu, HandleBackOrStop, HandleOfferChoice,
     HandlePhoneNumber, HandleOtp, HandleDocument, HandleThirdFlowFinal, HandleUnexpected
<1> QED BY <1>2, <1>3, <1>4

(* The steps of a started thread that neither insert a row nor count an    *)
(* answer.                                                                 *)
LEMMA ResumeStrikes ==
  ASSUME TypeInv, StrikeInv, NEW t \in Threads, Resume(t), ~Strike(t), ~CreateConversation(t)
  PROVE  StrikeInv'
<1>0. threads \in [Threads -> Thread] /\ ThreadOK(threads[t])
  BY ThreadIsOK DEF TypeInv, TypeOK
<1>1. ASSUME Gentle(t), UNCHANGED <<jobs, strikes>>, convs' \subseteq convs
      PROVE  StrikeInv'
  BY <1>1, GentleStep DEF JobsKept
<1>2. CASE CheckDriver(t) \/ VerifyOtp(t) \/ ReadDocument(t)
  <2>1. Gentle(t)
    BY <1>2, GotoGentle, SaveGentle, EndGentle DEF CheckDriver, VerifyOtp, ReadDocument
  <2> QED BY <1>1, <1>2, <2>1 DEF CheckDriver, VerifyOtp, ReadDocument, tables
<1>3. CASE CreateHistory(t) \/ FindHistory(t) \/ UpdateHistory(t)
  <2>1. AfterEdit(threads[t].edit) # "work"
    BY DEF AfterEdit
  <2>2. CASE CreateHistory(t)
    BY <1>1, <2>1, <2>2, GotoGentle DEF CreateHistory, observers
  <2>3. CASE FindHistory(t)
    <3>1. PICK row : threads' = [threads EXCEPT
                       ![t].found = row,
                       ![t].pc = IF row = 0 THEN AfterEdit(threads[t].edit) ELSE "histUpdate"]
      BY <2>3 DEF FindHistory
    <3> DEFINE pc == IF row = 0 THEN AfterEdit(threads[t].edit) ELSE "histUpdate"
    <3>2. pc # "work"
      BY <2>1
    <3>3. threads' = [threads EXCEPT ![t].found = row, ![t].pc = pc]
      BY <3>1
    <3> HIDE DEF pc
    <3>4. Gentle(t)
      BY <3>2, <3>3, FoundGentle
    <3> QED BY <1>1, <2>3, <3>4 DEF FindHistory, tables, observers
  <2>4. CASE UpdateHistory(t)
    <3>1. threads' = [threads EXCEPT ![t].pc = AfterEdit(threads[t].edit), ![t].found = 0]
      BY <2>4 DEF UpdateHistory
    <3>2. Gentle(t)
      BY <2>1, <3>1, FoundGentle
    <3> QED BY <1>1, <2>4, <3>2 DEF UpdateHistory, observers
  <2> QED BY <1>3, <2>2, <2>3, <2>4
<1>4. CASE EmitPrompt(t)
  <2>1. Gentle(t)
    BY <1>4, GotoGentle, EditGentle, EndGentle DEF EmitPrompt
  <2> QED BY <1>1, <1>4, <2>1 DEF EmitPrompt, observers
<1>5. CASE SendOtp(t)
  <2>1. Gentle(t)
    BY <1>5, GotoGentle, EndGentle DEF SendOtp
  <2> QED BY <1>1, <1>5, <2>1 DEF SendOtp, observers
<1>6. CASE PushJob(t)
  <2>1. Gentle(t)
    BY <1>6, EndGentle DEF PushJob
  <2>2. threads[t].conv \in Row /\ threads[t].conv.id # 0
    BY <1>0, <1>6 DEF PushJob, At, ThreadOK, Answering, Row
  <2>3. jobs \in Seq(Row)
    BY DEF TypeInv, TypeOK
  <2>4. jobs' = Append(jobs, threads[t].conv) \/ jobs' = jobs
    BY <1>6 DEF PushJob
  <2>5. JobsKept(t)
    BY <2>2, <2>3, <2>4 DEF JobsKept
  <2> QED BY <1>6, <2>1, <2>5, GentleStep DEF PushJob, observers
<1>7. CASE TellError(t) \/ TellRetry(t) \/ TellStopped(t)
  <2>1. Gentle(t)
    BY <1>7, GotoGentle, EndGentle DEF TellError, TellRetry, TellStopped
  <2> QED BY <1>1, <1>7, <2>1 DEF TellError, TellRetry, TellStopped, tables, observers
<1>8. CASE RemoveAll(t) \/ Bury(t)
  <2>1. Gentle(t)
    BY <1>8, GotoGentle, EndGentle DEF RemoveAll, Bury
  <2>2. convs' \subseteq convs
    BY <1>8 DEF RemoveAll, Bury, RemoveRows
  <2> QED BY <1>1, <1>8, <2>1, <2>2 DEF RemoveAll, Bury, observers
<1>9. CASE FindLast(t)
  <2>1. Gentle(t)
    BY <1>9, FoundGentle, EndGentle DEF FindLast
  <2> QED BY <1>1, <1>9, <2>1 DEF FindLast, observers
<1>10. CASE RemoveLast(t)
  <2>1. convs' \subseteq convs
    BY <1>10 DEF RemoveLast
  <2>2. \/ Fail(t)
        \/ \E found, step : threads' = [threads EXCEPT ![t].pc = "create", ![t].found = found,
                                                       ![t].step = step]
    BY <1>10 DEF RemoveLast
  <2>3. CASE Fail(t)
    BY <1>1, <1>10, <2>1, <2>3, EndGentle DEF RemoveLast, observers
  <2>4. ASSUME NEW found, NEW step,
               threads' = [threads EXCEPT ![t].pc = "create", ![t].found = found,
                                          ![t].step = step]
        PROVE  StrikeInv'
    <3> DEFINE pc == "create"
    <3>1. pc # "work"
      OBVIOUS
    <3>2. threads' = [threads EXCEPT ![t].pc = pc, ![t].found = found, ![t].step = step]
      BY <2>4
    <3> HIDE DEF pc
    <3>3. Gentle(t)
      BY <3>1, <3>2, FoundGentle
    <3> QED BY <1>1, <1>10, <2>1, <3>3 DEF RemoveLast, observers
  <2> QED BY <2>2, <2>3, <2>4
<1>11. CASE Work(t)
  <2>1. t \notin Handlers
    BY <1>11 DEF Work, At, StrikeInv
  <2>2. Gentle(t)
    BY <1>11, <2>1, GotoGentle, EditGentle DEF Work
  <2> QED BY <1>1, <1>11, <2>2 DEF Work, tables, observers
<1>12. CASE Announce(t) \/ TellTimeout(t)
  <2>1. Gentle(t)
    BY <1>12, EditGentle DEF Announce, TellTimeout
  <2> QED BY <1>1, <1>12, <2>1 DEF Announce, TellTimeout, tables, observers
<1>13. CASE Visit(t)
  <2> DEFINE rest(u) == [Idle EXCEPT !.pc = "visit", !.phones = threads[t].phones \ {u}]
             next(u) == IF IsOld(LastConversation(u))
                        THEN [rest(u) EXCEPT !.pc = "bury", !.conv = LastConversation(u)]
                        ELSE rest(u)
  <2>0. PICK u \in threads[t].phones : threads' = [threads EXCEPT ![t] = next(u)]
    BY <1>13 DEF Visit
  <2> DEFINE th == next(u)
  <2>1. threads' = [threads EXCEPT ![t] = th]
    BY <2>0
  <2>2. u \in Users
    BY <1>0 DEF Thread
  <2>3. /\ th.pc # "work" /\ th.edit = "none"
        /\ th.conv = LastConversation(u) \/ th.conv.id = 0
    BY DEF Idle, NoRow
  <2> HIDE DEF th
  <2>4. Gentle(t)
    BY <1>0, <2>1, <2>2, <2>3, LastConversationType DEF Gentle, TypeInv
  <2> QED BY <1>1, <1>13, <2>4 DEF Visit, tables, observers
<1>14. CASE EndRun(t)
  <2>1. Gentle(t)
    BY <1>14, EndGentle DEF EndRun
  <2> QED BY <1>1, <1>14, <2>1 DEF EndRun, observers
<1> QED BY <1>2, <1>3, <1>4, <1>5, <1>6, <1>7, <1>8, <1>9, <1>10, <1>11, <1>12, <1>13, <1>14
    DEF Resume

(* What was counted stays counted when the counts grow.                    *)
LEMMA GrowKeeps ==
  ASSUME strikes \in Seq(Nat), strikes' \in Seq(Nat), StrikesGrow
  PROVE  /\ \A c : c.bad \in Nat /\ Counted(c) => Counted(c)'
         /\ \A th : Earned(th) => Earned(th)'
BY DEF StrikesGrow, Counted, Earned

LEMMA GrowStep ==
  ASSUME TypeInv, TypeInv', StrikeInv, StrikesGrow, NEW t \in Threads,
         \A s \in Threads \ {t} : threads'[s] = threads[s],
         threads'[t].conv = threads[t].conv,
         threads'[t].pc # "work",
         t \in Handlers => Earned(threads[t])',
         \A r \in convs' : Counted(r)',
         jobs' = jobs
  PROVE  StrikeInv'
<1>1. strikes \in Seq(Nat) /\ strikes' \in Seq(Nat) /\ jobs \in Seq(Row)
  BY DEF TypeInv, TypeOK
<1>2. \A i \in DOMAIN jobs' : Counted(jobs[i])'
  <2> SUFFICES ASSUME NEW i \in DOMAIN jobs PROVE Counted(jobs[i])'
    BY DEF Counted
  <2>1. jobs[i].bad \in Nat /\ jobs'[i] = jobs[i]
    BY <1>1, RowFacts
  <2> QED BY <1>1, <2>1, GrowKeeps DEF StrikeInv, Counted
<1>3. ASSUME NEW s \in Threads, threads'[s].conv.id # 0
      PROVE  Counted(threads[s].conv)'
  <2>1. threads'[s].conv = threads[s].conv /\ threads[s].conv.bad \in Nat
    BY ThreadIsOK, RowFacts DEF Thread, Snapshot, NoRow
  <2> QED BY <1>1, <1>3, <2>1, GrowKeeps DEF StrikeInv, Counted
<1>4. ASSUME NEW s \in Handlers
      PROVE  threads'[s].pc # "work" /\ Earned(threads[s])'
  <2>1. s \in Threads
    BY DEF Threads
  <2>2. CASE s = t
    BY <2>2
  <2>3. CASE s # t
    BY <1>1, <2>1, <2>3, GrowKeeps DEF StrikeInv, Earned
  <2> QED BY <2>2, <2>3
<1> QED BY <1>2, <1>3, <1>4 DEF StrikeInv

(* A new row starts with no bad answer; a bad answer adds one to both.     *)
LEMMA CreateStrikes ==
  ASSUME TypeInv, TypeInv', StrikeInv, NEW t \in Threads, CreateConversation(t)
  PROVE  StrikeInv'
<1> DEFINE row == [id |-> Len(strikes) + 1, wha |-> Wha(t), step |-> threads[t].step, bad |-> 0]
           label == IF threads[t].step = MenuStep THEN "histNew" ELSE "histFind"
           th == [threads[t] EXCEPT !.edit = "progress", !.pc = label]
<1>1. /\ convs' = convs \cup {row}
      /\ strikes' = Append(strikes, 0)
      /\ jobs' = jobs
      /\ threads' = [threads EXCEPT ![t] = th]
  BY DEF CreateConversation, GotoEdit
<1>2. /\ strikes \in Seq(Nat) /\ strikes' \in Seq(Nat)
      /\ \A r \in convs : r.bad \in Nat
      /\ threads \in [Threads -> Thread]
  BY RowFacts DEF TypeInv, TypeOK
<1>3. StrikesGrow
  BY <1>1, <1>2 DEF StrikesGrow
<1>4. th.conv = threads[t].conv /\ th.pc # "work" /\ th.edit = "progress"
  BY ThreadIsOK DEF Thread
<1>5. row.id = Len(strikes) + 1 /\ row.bad = 0
  OBVIOUS
<1> HIDE DEF row, th
<1>6. \A r \in convs' : Counted(r)'
  <2>1. row.id \in DOMAIN strikes' /\ row.bad <= strikes'[row.id]
    BY <1>1, <1>2, <1>5
  <2> QED BY <1>1, <1>2, <1>3, <2>1, GrowKeeps DEF StrikeInv, Counted
<1>7. Earned(threads[t])'
  BY <1>1, <1>2, <1>4 DEF Earned
<1> QED BY <1>1, <1>2, <1>3, <1>4, <1>6, <1>7, GrowStep

LEMMA CountStrikes ==
  ASSUME TypeInv, TypeInv', StrikeInv, NEW t \in Threads, Strike(t)
  PROVE  StrikeInv'
<1> DEFINE c == threads[t].conv
           bad == c.bad + 1
<1>0. c \in Row /\ threads[t].pc = "strike"
  BY ThreadIsOK DEF ThreadOK, Answering, Strike, At
<1>1. CASE HasRow(c.id)
  <2>1. /\ convs' = {IF r.id = c.id THEN [r EXCEPT !.bad = bad] ELSE r : r \in convs}
        /\ strikes' = [strikes EXCEPT ![c.id] = @ + 1]
        /\ jobs' = jobs
        /\ IF bad >= MaxStrikes THEN GotoEdit(t, "error", c.step) ELSE Goto(t, "tellError")
    BY <1>1 DEF Strike
  <2>2. /\ strikes \in Seq(Nat) /\ strikes' \in Seq(Nat)
        /\ convs \subseteq Row
        /\ threads \in [Threads -> Thread]
    BY DEF TypeInv, TypeOK
  <2>3. c.id \in DOMAIN strikes /\ c.bad <= strikes[c.id] /\ c.bad \in Nat
    BY <1>0, RowFacts DEF StrikeInv, Counted, Row
  <2>4. StrikesGrow /\ strikes'[c.id] = strikes[c.id] + 1 /\ c.id \in DOMAIN strikes'
    BY <2>1, <2>2, <2>3 DEF StrikesGrow
  <2>5. strikes[c.id] \in Nat
    BY <2>2, <2>3
  <2>6. \A r \in convs' : Counted(r)'
    <3> SUFFICES ASSUME NEW q \in convs' PROVE Counted(q)'
      OBVIOUS
    <3>1. PICK r \in convs : q = IF r.id = c.id THEN [r EXCEPT !.bad = bad] ELSE r
      BY <2>1
    <3>2. CASE r.id = c.id
      <4>1. q.id = c.id /\ q.bad = bad
        BY <2>2, <3>1, <3>2 DEF Row
      <4> QED BY <2>3, <2>4, <2>5, <4>1 DEF Counted
    <3>3. CASE r.id # c.id
      BY <2>2, <2>4, <3>1, <3>3, GrowKeeps, RowFacts DEF StrikeInv, Counted
    <3> QED BY <3>2, <3>3
  <2>7. CASE bad >= MaxStrikes
    <3> DEFINE label == IF c.step = MenuStep THEN "histNew" ELSE "histFind"
               th == [threads[t] EXCEPT !.edit = "error", !.pc = label]
    <3>1. threads' = [threads EXCEPT ![t] = th]
      BY <2>1, <2>7 DEF GotoEdit
    <3>2. th.conv = c /\ th.pc # "work"
      BY ThreadIsOK DEF Thread
    <3>3. strikes'[c.id] >= 2
      BY <2>3, <2>4, <2>5, <2>7 DEF MaxStrikes
    <3> HIDE DEF th
    <3>4. Earned(threads[t])'
      BY <2>2, <2>4, <3>1, <3>2, <3>3 DEF Earned
    <3> QED BY <2>1, <2>2, <2>4, <2>6, <3>1, <3>2, <3>4, GrowStep
  <2>8. CASE ~(bad >= MaxStrikes)
    <3> DEFINE th == [threads[t] EXCEPT !.pc = "tellError"]
    <3>1. threads' = [threads EXCEPT ![t] = th]
      BY <2>1, <2>8 DEF Goto
    <3>2. th.conv = c /\ th.pc # "work" /\ th.edit = threads[t].edit
      BY ThreadIsOK DEF Thread
    <3> HIDE DEF th
    <3>3. t \in Handlers => Earned(threads[t])'
      BY <2>2, <2>4, <3>1, <3>2, GrowKeeps DEF StrikeInv, Earned
    <3> QED BY <2>1, <2>2, <2>4, <2>6, <3>1, <3>2, <3>3, GrowStep
  <2> QED BY <2>7, <2>8
<1>2. CASE ~HasRow(c.id)
  <2>1. Finish(t) /\ UNCHANGED <<convs, strikes, jobs>>
    BY <1>2 DEF Strike
  <2> QED BY <2>1, EndGentle, GentleStep DEF JobsKept
<1> QED BY <1>1, <1>2

LEMMA StrikeStep == StrikeInv /\ TypeInv /\ TypeInv' /\ [Next]_vars => StrikeInv'
<1> SUFFICES ASSUME StrikeInv, TypeInv, TypeInv', [Next]_vars PROVE StrikeInv'
  OBVIOUS
<1>1. ASSUME NEW t \in Handlers, NEW u \in Users, NEW m \in Sendable, NewMessage(t, u, m)
      PROVE  StrikeInv'
  BY <1>1, NewMessageStrikes
<1>2. ASSUME NEW t \in Workers, TakeJob(t)
      PROVE  StrikeInv'
  <2>1. t \in Threads /\ t \notin Handlers
    BY ThreadsAssumption DEF Threads
  <2>2. jobs \in Seq(Row) /\ jobs # << >> /\ jobs' = Tail(jobs)
    BY <1>2 DEF TakeJob, TypeInv, TypeOK
  <2>3. threads' = [threads EXCEPT ![t].pc = "work", ![t].conv = Head(jobs)]
    BY <1>2 DEF TakeJob
  <2>4. \A s \in Threads \ {t} : threads'[s] = threads[s]
    BY <2>3 DEF TypeInv, TypeOK
  <2>5. threads'[t].conv = jobs[1] /\ 1 \in DOMAIN jobs
    BY <2>1, <2>2, <2>3, ThreadIsOK DEF Thread, TypeInv, TypeOK
  <2>6. Gentle(t)
    BY <2>1, <2>4, <2>5 DEF Gentle
  <2>7. JobsKept(t)
    BY <2>2 DEF JobsKept
  <2>8. convs' \subseteq convs /\ strikes' = strikes
    BY <1>2 DEF TakeJob, tables, observers
  <2> QED BY <2>1, <2>6, <2>7, <2>8, GentleStep
<1>3. ASSUME NEW t \in Undertakers, StartRun(t)
      PROVE  StrikeInv'
  <2> DEFINE th == [Idle EXCEPT !.pc = "visit", !.phones = {r.wha : r \in convs}]
  <2>1. t \in Threads
    BY DEF Threads
  <2>2. threads' = [threads EXCEPT ![t] = th]
    BY <1>3 DEF StartRun
  <2>3. th.conv.id = 0 /\ th.pc # "work" /\ th.edit = "none"
    BY DEF Idle, NoRow
  <2> HIDE DEF th
  <2>4. Gentle(t)
    BY <2>1, <2>2, <2>3, ReplaceGentle
  <2>5. JobsKept(t) /\ convs' \subseteq convs /\ strikes' = strikes
    BY <1>3 DEF StartRun, JobsKept, tables, observers
  <2> QED BY <2>1, <2>4, <2>5, GentleStep
<1>4. ASSUME NEW t \in Threads, Resume(t)
      PROVE  StrikeInv'
  BY <1>4, ResumeStrikes, CreateStrikes, CountStrikes
<1>5. ASSUME NEW u \in Users, FiveMinutesPass(u)
      PROVE  StrikeInv'
  BY <1>5 DEF FiveMinutesPass, StrikeInv, Counted, Earned, observers
<1>6. CASE Crash
  <2>1. \A t \in Threads : threads'[t] = Idle
    BY <1>6 DEF Crash
  <2>2. Idle.conv.id = 0 /\ Idle.pc # "work" /\ Idle.edit = "none"
    BY DEF Idle, NoRow
  <2>3. UNCHANGED <<convs, jobs, strikes>> /\ Handlers \subseteq Threads
    BY <1>6 DEF Crash, tables, observers, Threads
  <2> QED BY <2>1, <2>2, <2>3 DEF StrikeInv, Counted, Earned
<1>7. CASE UNCHANGED vars
  BY <1>7 DEF vars, tables, observers, StrikeInv, Counted, Earned
<1> QED BY <1>1, <1>2, <1>3, <1>4, <1>5, <1>6, <1>7 DEF Next

LEMMA InitStrikes == Init => StrikeInv
<1> SUFFICES ASSUME Init PROVE StrikeInv
  OBVIOUS
<1>1. Idle.conv.id = 0 /\ Idle.pc # "work" /\ Idle.edit = "none"
  BY DEF Idle, NoRow
<1>2. Handlers \subseteq Threads
  BY DEF Threads
<1> QED BY <1>1, <1>2 DEF Init, StrikeInv, Earned

(* No handler aborts a conversation before two bad answers were counted    *)
(* against its row, whatever the interleaving and the age of the snapshots *)
(* (updateMessage).                                                        *)
THEOREM AbortEarned == Spec => []AbortIsEarned
<1>1. StrikeInv => AbortIsEarned
  BY DEF StrikeInv, Earned, AbortIsEarned
<1> QED BY <1>1, TypeInvariant, InitStrikes, StrikeStep, PTL DEF Spec
=============================================================================
