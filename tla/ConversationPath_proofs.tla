---------------------- MODULE ConversationPath_proofs ----------------------
(***************************************************************************)
(* Proofs about Conversation, for any users, threads and bounds: nobody    *)
(* skips a step, the history records only steps reached, and Yango is      *)
(* asked only for a completed flow.                                        *)
(***************************************************************************)
EXTENDS Conversation_proofs

(***************************************************************************)
(* The catalogue, evaluated: which steps ask what, and what comes next.    *)
(***************************************************************************)
LEMMA AskingSteps ==
  /\ PhoneSteps = {6, 16, 21, 23}
  /\ OtpSteps = {7, 17, 22, 24}
  /\ DocumentSteps = {8, 9, 10, 18}
  /\ CarSteps = {10, 18}
<1>1. PhoneSteps = {6, 16, 21, 23}
  BY CatalogueLevels DEF PhoneSteps, StepIds, FlowOf, Flows, NoFlow
<1>2. OtpSteps = {7, 17, 22, 24}
  BY CatalogueLevels DEF OtpSteps, StepIds, FlowOf, Flows, NoFlow
<1>3. DocumentSteps = {8, 9, 10, 18}
  BY CatalogueLevels DEF DocumentSteps, StepIds, FlowOf, Flows, NoFlow
<1>4. CarSteps = {10, 18}
  BY <1>3, CatalogueLevels DEF CarSteps, FlowOf
<1> QED BY <1>1, <1>2, <1>3, <1>4

(* A level and a flow name one step.                                       *)
LEMMA StepAtUnique ==
  ASSUME NEW s \in StepIds, FlowOf(s) \in Flows
  PROVE  StepAt(Level(s), FlowOf(s)) = s
<1> DEFINE q == StepAt(Level(s), FlowOf(s))
<1>1. q \in StepIds /\ Level(q) = Level(s) /\ FlowOf(q) = FlowOf(s)
  BY StepAtExists DEF HasStep
<1> HIDE DEF q
<1>2. q = s
  BY <1>1, CatalogueLevels DEF StepIds, FlowOf, Flows, NoFlow
<1> QED BY <1>2 DEF q

LEMMA FlowsOfSteps ==
  /\ \A s \in 2..5 : FlowOf(s) = "Offres"
  /\ \A s \in 6..15 : FlowOf(s) = "Inscription"
  /\ \A s \in 16..20 : FlowOf(s) = "Changement"
  /\ \A s \in 21..26 : FlowOf(s) = "Modification"
  /\ FlowOf(1) = NoFlow /\ FlowOf(27) = NoFlow /\ FlowOf(28) = NoFlow
BY DEF FlowOf

LEMMA NamedSteps ==
  /\ MenuStep = 1 /\ RetryStep = 12 /\ WelcomeStep = 14 /\ TimeoutStep = 27
  /\ OfferStep = 2 /\ StoppedStep = 5
  /\ PhoneAckStep = 25 /\ PhoneChangedStep = 26 /\ CarChangedStep = 20
<1>1. MenuStep = 1 /\ RetryStep = 12 /\ WelcomeStep = 14 /\ TimeoutStep = 27
  BY CatalogueLevels DEF MenuStep, RetryStep, WelcomeStep, TimeoutStep, StepAtLevel, StepIds
<1>2. /\ OfferStep = 2 /\ StoppedStep = 5
      /\ PhoneAckStep = 25 /\ PhoneChangedStep = 26 /\ CarChangedStep = 20
  <2>1. \A s \in {2, 5, 20, 25, 26} : StepAt(Level(s), FlowOf(s)) = s
    BY StepAtUnique, FlowsOfSteps DEF StepIds, Flows
  <2> QED BY <2>1, CatalogueLevels, FlowsOfSteps
      DEF OfferStep, StoppedStep, PhoneAckStep, PhoneChangedStep, CarChangedStep
<1> QED BY <1>1, <1>2

LEMMA NextSteps ==
  /\ NextStep(6) = 7 /\ NextStep(7) = 8 /\ NextStep(8) = 9 /\ NextStep(9) = 10
  /\ NextStep(10) = 13
  /\ NextStep(16) = 17 /\ NextStep(17) = 18 /\ NextStep(18) = 19
  /\ NextStep(21) = 22 /\ NextStep(22) = 23 /\ NextStep(23) = 24 /\ NextStep(24) = 25
<1>1. \A s \in StepIds : FlowOf(s) \in Flows => StepAt(Level(s), FlowOf(s)) = s
  BY StepAtUnique
<1>2. \A s \in 6..26 : StepAt(Level(s), FlowOf(s)) = s
  BY <1>1, FlowsOfSteps DEF StepIds, Flows
<1>3. /\ StepAt(2, "Inscription") = 7 /\ StepAt(3, "Inscription") = 8
      /\ StepAt(4, "Inscription") = 9 /\ StepAt(5, "Inscription") = 10
      /\ StepAt(19, "Inscription") = 13
      /\ StepAt(2, "Changement") = 17 /\ StepAt(3, "Changement") = 18
      /\ StepAt(6, "Changement") = 19
      /\ StepAt(2, "Modification") = 22 /\ StepAt(3, "Modification") = 23
      /\ StepAt(4, "Modification") = 24 /\ StepAt(5, "Modification") = 25
  BY <1>2, CatalogueLevels, FlowsOfSteps
<1> QED BY <1>3, AskingSteps, CatalogueLevels, FlowsOfSteps DEF NextStep

(* The questions of each flow, and those on the way to each step.          *)
LEMMA Questions ==
  /\ Asking = {2, 6, 7, 8, 9, 10, 16, 17, 18, 21, 22, 23, 24}
  /\ FlowSteps["Inscription"] = {6, 7, 8, 9, 10}
  /\ FlowSteps["Changement"] = {16, 17, 18}
  /\ FlowSteps["Modification"] = {21, 22, 23, 24}
<1>1. Asking = {2, 6, 7, 8, 9, 10, 16, 17, 18, 21, 22, 23, 24}
  BY AskingSteps, NamedSteps DEF Asking
<1>2. \A flow \in Flows : FlowSteps[flow] = {s \in Asking : FlowOf(s) = flow}
  BY DEF FlowSteps
<1> QED BY <1>1, <1>2, FlowsOfSteps DEF Flows

LEMMA PathMembers ==
  ASSUME NEW s \in StepIds, NEW p
  PROVE  p \in Path[s] <=> \/ s # 1 /\ p = 1
                           \/ p \in Asking /\ FlowOf(p) = FlowOf(s) /\ Level(p) < Level(s)
BY MenuIsOne DEF Path

LEMMA PathOfMenu == Path[MenuStep] = {}
<1>1. 1 \in StepIds /\ MenuStep = 1
  BY MenuIsOne DEF StepIds
<1>2. \A p \in Asking : FlowOf(p) # NoFlow
  BY Questions, FlowsOfSteps DEF NoFlow
<1>3. \A p : p \notin Path[1]
  BY <1>1, <1>2, PathMembers, FlowsOfSteps
<1> QED BY <1>1, <1>3

(* Every question of a flow is answered when the accepted answer is the    *)
(* flow's last.                                                            *)
LEMMA NextKeepsPath ==
  ASSUME NEW s \in PhoneSteps \cup OtpSteps \cup DocumentSteps
  PROVE  Path[NextStep(s)] \subseteq Path[s] \cup {s}
<1>1. s \in {6, 7, 8, 9, 10, 16, 17, 18, 21, 22, 23, 24}
  BY AskingSteps
<1>2. s \in StepIds /\ NextStep(s) \in StepIds
  BY <1>1, NextStepExists DEF StepIds
<1> SUFFICES ASSUME NEW p \in Path[NextStep(s)], p # s PROVE p \in Path[s]
  OBVIOUS
<1>3. CASE p = 1
  BY <1>1, <1>2, <1>3, PathMembers
<1>4. CASE p # 1
  <2>1. p \in Asking /\ FlowOf(p) = FlowOf(NextStep(s)) /\ Level(p) < Level(NextStep(s))
    BY <1>2, <1>4, PathMembers
  <2>2. FlowOf(p) = FlowOf(s) /\ Level(p) < Level(s)
    BY <1>1, <2>1, NextSteps, Questions, CatalogueLevels, FlowsOfSteps
  <2> QED BY <1>2, <2>1, <2>2, PathMembers
<1> QED BY <1>3, <1>4

LEMMA PreviousKeepsPath ==
  ASSUME NEW s \in StepIds, HasPrevious(s)
  PROVE  Path[Previous(s)] \subseteq Path[s]
<1>1. CASE Level(s) = 1
  <2>1. Previous(s) = MenuStep
    BY <1>1 DEF Previous
  <2> QED BY <2>1, PathOfMenu
<1>2. CASE Level(s) # 1
  <2> DEFINE q == Previous(s)
  <2>1. q \in StepIds /\ Level(q) = Level(s) - 1 /\ FlowOf(q) = FlowOf(s)
    BY <1>2, StepAtExists DEF HasPrevious, Previous
  <2> HIDE DEF q
  <2>2. Level(s) \in Int
    BY CatalogueLevels DEF StepIds
  <2>3. s # 1
    BY <2>1, CatalogueLevels DEF StepIds
  <2>4. \A p \in Asking : Level(p) \in Int
    BY Questions, CatalogueLevels
  <2>5. Path[q] \subseteq Path[s]
    BY <2>1, <2>2, <2>3, <2>4, PathMembers
  <2> QED BY <2>5 DEF q
<1> QED BY <1>1, <1>2

LEMMA FirstKeepsPath ==
  ASSUME NEW flow \in Flows
  PROVE  Path[StepAt(1, flow)] \subseteq {MenuStep}
<1> DEFINE q == StepAt(1, flow)
<1>1. q \in StepIds /\ Level(q) = 1
  <2>1. HasStep(1, flow)
    BY CatalogueLevels DEF HasStep, StepIds, FlowOf, Flows
  <2> QED BY <2>1, StepAtExists
<1> HIDE DEF q
<1>2. \A p \in Asking : ~(Level(p) < 1)
  BY Questions, CatalogueLevels
<1>3. Path[q] \subseteq {MenuStep}
  BY <1>1, <1>2, PathMembers, MenuIsOne
<1> QED BY <1>3 DEF q

LEMMA OffersKeepPath ==
  ASSUME NEW level \in {2, 3}
  PROVE  /\ StepAt(level, "Offres") \in StepIds
         /\ Path[StepAt(level, "Offres")] \subseteq Path[OfferStep] \cup {OfferStep}
<1>1. StepAt(2, "Offres") = 3 /\ StepAt(3, "Offres") = 4
  <2>1. StepAt(Level(3), FlowOf(3)) = 3 /\ StepAt(Level(4), FlowOf(4)) = 4
    BY StepAtUnique, FlowsOfSteps DEF StepIds, Flows
  <2> QED BY <2>1, CatalogueLevels, FlowsOfSteps
<1>2. ASSUME NEW s \in {3, 4}
      PROVE  Path[s] \subseteq Path[OfferStep] \cup {OfferStep}
  <2>1. s \in StepIds /\ OfferStep \in StepIds /\ OfferStep = 2 /\ FlowOf(s) = "Offres"
    BY NamedSteps, FlowsOfSteps DEF StepIds
  <2>2. \A p \in Asking : FlowOf(p) = "Offres" => p = 2
    BY Questions, FlowsOfSteps
  <2> QED BY <2>1, <2>2, PathMembers
<1> QED BY <1>1, <1>2 DEF StepIds

(* The last accepted answer of a flow completes it.                        *)
LEMMA LastAnswer ==
  ASSUME NEW s, s \in CarSteps \/ (s \in OtpSteps /\ Level(s) = 4)
  PROVE  /\ FlowOf(s) \in Flows \ {"Offres"}
         /\ FlowSteps[FlowOf(s)] \subseteq Path[s] \cup {s}
<1>1. s \in {10, 18, 24}
  BY AskingSteps, CatalogueLevels
<1>2. s \in StepIds /\ FlowOf(s) \in Flows \ {"Offres"}
  BY <1>1, FlowsOfSteps DEF StepIds, Flows
<1>3. ASSUME NEW p \in FlowSteps[FlowOf(s)], p # s
      PROVE  p \in Path[s]
  <2>1. p \in Asking /\ FlowOf(p) = FlowOf(s) /\ Level(p) < Level(s)
    BY <1>1, <1>3, Questions, CatalogueLevels, FlowsOfSteps
  <2> QED BY <1>2, <2>1, PathMembers
<1> QED BY <1>2, <1>3

LEMMA SuccessNeedsFlow ==
  ASSUME NEW flow \in Flows \ {"Offres"}
  PROVE  /\ SuccessStep(flow) \in StepIds
         /\ FlowSteps[flow] \subseteq Path[SuccessStep(flow)]
<1>1. /\ flow = "Inscription" => SuccessStep(flow) = 14
      /\ flow = "Changement" => SuccessStep(flow) = 20
      /\ flow = "Modification" => SuccessStep(flow) = 26
  BY NamedSteps DEF SuccessStep
<1>2. flow \in {"Inscription", "Changement", "Modification"}
  BY DEF Flows
<1>3. SuccessStep(flow) \in StepIds
  BY <1>1, <1>2 DEF StepIds
<1>4. ASSUME NEW p \in FlowSteps[flow]
      PROVE  p \in Path[SuccessStep(flow)]
  <2>1. /\ p \in Asking /\ FlowOf(p) = FlowOf(SuccessStep(flow))
        /\ Level(p) < Level(SuccessStep(flow))
    BY <1>1, <1>2, <1>4, Questions, CatalogueLevels, FlowsOfSteps
  <2> QED BY <1>3, <2>1, PathMembers
<1> QED BY <1>3, <1>4

LEMMA SuccessDiffers ==
  ASSUME NEW flow \in Flows \ {"Offres"}, NEW other \in Flows \ {"Offres"},
         SuccessStep(flow) = SuccessStep(other)
  PROVE  flow = other
BY NamedSteps DEF SuccessStep, Flows

LEMMA OthersAreNoSuccess ==
  ASSUME NEW flow, NEW s \in {ErrorShown, NothingShown, RetryStep, StoppedStep, TimeoutStep}
  PROVE  s # SuccessStep(flow)
BY NamedSteps DEF SuccessStep, ErrorShown, NothingShown

(***************************************************************************)
(* The strengthening of NoStepSkipped and HistoryIsReached: every copy of  *)
(* a row, in the table, in a thread or in the queue, stands at a step its  *)
(* user has reached, and so does every step about to be written.  "back"   *)
(* deletes a row by an id read earlier: ids are never used twice; and the  *)
(* history row an edit has found is its own user's.                        *)
(***************************************************************************)
Reached(u, s) == Path[s] \subseteq passed[u]

Saving(th) == \/ th.pc \in {"create", "emit"}
              \/ th.pc \in Editing /\ th.edit = "progress"

OwnRow(th) ==
  /\ th.found \in DOMAIN strikes
  /\ \A r \in convs : r.id = th.found => r.wha = th.conv.wha

ThreadReached(th) ==
  /\ th.conv.step # 0 => Reached(th.conv.wha, th.conv.step)
  /\ Saving(th) => Reached(th.conv.wha, th.step)
  /\ th.pc = "backRemove" => OwnRow(th)
  /\ th.pc = "histUpdate" => hist[th.found].wha = th.conv.wha

PathInv ==
  /\ \A r \in convs : Reached(r.wha, r.step) /\ r.id \in DOMAIN strikes
  /\ \A r, q \in convs : r.id = q.id => r = q
  /\ \A i \in DOMAIN hist : Reached(hist[i].wha, hist[i].step)
  /\ \A i \in DOMAIN jobs : Reached(jobs[i].wha, jobs[i].step)
  /\ \A t \in Threads : ThreadReached(threads[t])

PassedGrows == \A u \in Users : passed[u] \subseteq passed'[u]

(* What the new rows of a step may be.                                     *)
RowsReached ==
  /\ \A r \in convs' : \/ \E q \in convs : r.id = q.id /\ r.wha = q.wha /\ r.step = q.step
                       \/ r.id = Len(strikes) + 1 /\ Reached(r.wha, r.step)'
  /\ \A r, q \in convs' : r.id = q.id => r = q
  /\ \A r \in convs' : r.id \in DOMAIN strikes'
  /\ DOMAIN strikes \subseteq DOMAIN strikes'

HistReached ==
  /\ \A i \in DOMAIN hist : i \in DOMAIN hist' /\ hist'[i].wha = hist[i].wha
  /\ \A i \in DOMAIN hist' : \/ i \in DOMAIN hist /\ hist'[i].step = hist[i].step
                            \/ Reached(hist[i].wha, hist[i].step)'

JobsReached ==
  \A i \in DOMAIN jobs' :
    \/ \E k \in DOMAIN jobs : jobs'[i] = jobs[k]
    \/ \E s \in Threads : threads[s].conv \in Row /\ jobs'[i] = threads[s].conv

(* The row a thread holds after a step: the one it held, one that exists,  *)
(* or none.                                                                *)
ConvKept(t) ==
  \/ threads'[t].conv = threads[t].conv
  \/ threads'[t].conv.step = 0
  \/ threads'[t].conv \in convs
  \/ \E i \in DOMAIN jobs : threads'[t].conv = jobs[i]

Moves(t) ==
  /\ \A s \in Threads \ {t} : threads'[s] = threads[s]
  /\ ConvKept(t)
  /\ Saving(threads'[t]) => Reached(threads[t].conv.wha, threads[t].step)'
  /\ threads'[t].pc = "backRemove" => OwnRow(threads[t])'
  /\ threads'[t].pc = "histUpdate" => hist'[threads'[t].found].wha = threads'[t].conv.wha

LEMMA ReachedGrows ==
  ASSUME PassedGrows, NEW u \in Users, NEW s, Reached(u, s)
  PROVE  Reached(u, s)'
BY DEF PassedGrows, Reached

LEMMA ReachedKept ==
  ASSUME PassedGrows, NEW u \in Users, NEW s, NEW v, NEW q, Reached(u, s), v = u, q = s
  PROVE  Reached(v, q)'
BY DEF PassedGrows, Reached

LEMMA OwnRowKept ==
  ASSUME TypeInv, RowsReached, NEW th, OwnRow(th)
  PROVE  OwnRow(th)'
<1>1. th.found # Len(strikes) + 1 /\ strikes \in Seq(Nat)
  BY DEF OwnRow, TypeInv, TypeOK
<1> QED BY <1>1 DEF OwnRow, RowsReached

LEMMA PathMove ==
  ASSUME TypeInv, TypeInv', PathInv, NEW t \in Threads, Moves(t), PassedGrows,
         RowsReached, HistReached, JobsReached
  PROVE  PathInv'
<1>0. /\ convs \subseteq Row /\ hist \in Seq(HistoryRow) /\ jobs \in Seq(Row)
      /\ threads \in [Threads -> Thread] /\ threads' \in [Threads -> Thread]
  BY DEF TypeInv, TypeOK
<1>1. ASSUME NEW r \in convs'
      PROVE  Reached(r.wha, r.step)' /\ r.id \in DOMAIN strikes'
  <2>1. ASSUME NEW q \in convs, r.id = q.id, r.wha = q.wha, r.step = q.step
        PROVE  Reached(r.wha, r.step)'
    <3>1. q.wha \in Users /\ Reached(q.wha, q.step)
      BY <1>0, RowFacts DEF PathInv
    <3> QED BY <2>1, <3>1, ReachedKept
  <2> QED BY <2>1 DEF RowsReached
<1>2. \A r, q \in convs' : r.id = q.id => r = q
  BY DEF RowsReached
<1>3. ASSUME NEW i \in DOMAIN hist'
      PROVE  Reached(hist[i].wha, hist[i].step)'
  <2>1. CASE i \in DOMAIN hist /\ hist'[i].step = hist[i].step
    <3>0. hist[i] \in HistoryRow
      BY <1>0, <2>1
    <3>1. hist[i].wha \in Users /\ Reached(hist[i].wha, hist[i].step)
      BY <2>1, <3>0 DEF PathInv, HistoryRow
    <3>2. hist'[i].wha = hist[i].wha
      BY <2>1 DEF HistReached
    <3> QED BY <2>1, <3>1, <3>2, ReachedKept
  <2> QED BY <2>1 DEF HistReached
<1>4. ASSUME NEW i \in DOMAIN jobs'
      PROVE  Reached(jobs[i].wha, jobs[i].step)'
  <2>1. ASSUME NEW k \in DOMAIN jobs, jobs'[i] = jobs[k]
        PROVE  Reached(jobs[i].wha, jobs[i].step)'
    <3>1. jobs[k].wha \in Users /\ Reached(jobs[k].wha, jobs[k].step)
      BY <1>0, RowFacts DEF PathInv
    <3> QED BY <2>1, <3>1, ReachedKept
  <2>2. ASSUME NEW s \in Threads, threads[s].conv \in Row, jobs'[i] = threads[s].conv
        PROVE  Reached(jobs[i].wha, jobs[i].step)'
    <3>1. threads[s].conv.wha \in Users /\ threads[s].conv.step # 0
      BY <2>2, RowFacts DEF StepIds
    <3>2. Reached(threads[s].conv.wha, threads[s].conv.step)
      BY <3>1 DEF PathInv, ThreadReached
    <3> QED BY <2>2, <3>1, <3>2, ReachedKept
  <2> QED BY <2>1, <2>2 DEF JobsReached
<1>5. ASSUME NEW s \in Threads, threads'[s].conv.step # 0
      PROVE  Reached(threads[s].conv.wha, threads[s].conv.step)'
  <2> DEFINE c == threads'[s].conv
  <2>1. c = threads[s].conv \/ c \in convs \/ \E i \in DOMAIN jobs : c = jobs[i]
    BY <1>5 DEF Moves, ConvKept
  <2>2. CASE c = threads[s].conv
    <3>1. c \in Snapshot
      BY <1>0 DEF Thread
    <3>2. c \in Row
      BY <1>5, <3>1 DEF Snapshot, NoRow
    <3>3. c.wha \in Users /\ Reached(c.wha, c.step)
      BY <1>5, <2>2, <3>2, RowFacts DEF PathInv, ThreadReached
    <3> QED BY <3>3, ReachedKept
  <2>3. CASE c \in convs
    <3>1. c.wha \in Users /\ Reached(c.wha, c.step)
      BY <1>0, <2>3, RowFacts DEF PathInv
    <3> QED BY <3>1, ReachedKept
  <2>4. CASE \E i \in DOMAIN jobs : c = jobs[i]
    <3>1. c.wha \in Users /\ Reached(c.wha, c.step)
      BY <1>0, <2>4, RowFacts DEF PathInv
    <3> QED BY <3>1, ReachedKept
  <2> QED BY <2>1, <2>2, <2>3, <2>4
<1>6. ASSUME NEW s \in Threads, Saving(threads'[s])
      PROVE  Reached(threads[s].conv.wha, threads[s].step)'
  <2>1. CASE s = t
    BY <1>6, <2>1 DEF Moves
  <2>2. CASE s # t
    <3>1. threads'[s] = threads[s]
      BY <2>2 DEF Moves
    <3>2. ThreadOK(threads[s]) /\ Saving(threads[s])
      BY <1>6, <3>1, ThreadIsOK
    <3>3. threads[s].conv.wha \in Users
      BY <3>2 DEF ThreadOK, Saving, Editing
    <3>4. Reached(threads[s].conv.wha, threads[s].step)
      BY <3>2 DEF PathInv, ThreadReached
    <3> QED BY <3>1, <3>3, <3>4, ReachedKept
  <2> QED BY <2>1, <2>2
<1>7. ASSUME NEW s \in Threads, threads'[s].pc = "backRemove"
      PROVE  OwnRow(threads[s])'
  <2>1. CASE s = t
    BY <1>7, <2>1 DEF Moves
  <2>2. CASE s # t
    <3>1. threads'[s] = threads[s]
      BY <2>2 DEF Moves
    <3>2. OwnRow(threads[s])
      BY <1>7, <3>1 DEF PathInv, ThreadReached
    <3>3. OwnRow(threads'[s])
      BY <3>1, <3>2
    <3> DEFINE th == threads'[s]
    <3> HIDE DEF th
    <3> QED BY <3>1, <3>2, OwnRowKept DEF OwnRow, RowsReached
  <2> QED BY <2>1, <2>2
<1>9. ASSUME NEW s \in Threads, threads'[s].pc = "histUpdate"
      PROVE  hist'[threads'[s].found].wha = threads'[s].conv.wha
  <2>1. CASE s = t
    BY <1>9, <2>1 DEF Moves
  <2>2. CASE s # t
    <3>1. threads'[s] = threads[s]
      BY <2>2 DEF Moves
    <3>2. /\ threads[s].found \in DOMAIN hist
          /\ hist[threads[s].found].wha = threads[s].conv.wha
      BY <1>9, <3>1, ThreadIsOK DEF PathInv, ThreadReached
    <3> QED BY <3>1, <3>2 DEF HistReached
  <2> QED BY <2>1, <2>2
<1>8. \A s \in Threads : ThreadReached(threads[s])'
  BY <1>5, <1>6, <1>7, <1>9 DEF ThreadReached, Saving
<1> QED BY <1>1, <1>2, <1>3, <1>4, <1>8 DEF PathInv

LEMMA NothingWritten ==
  ASSUME TypeInv, PathInv, convs' \subseteq convs, strikes' = strikes
  PROVE  RowsReached
BY DEF RowsReached, PathInv

LEMMA OthersKept ==
  /\ hist' = hist => HistReached
  /\ jobs' = jobs => JobsReached
  /\ passed' = passed => PassedGrows
BY DEF HistReached, JobsReached, PassedGrows

(* The ways of moving on, as far as the path is concerned.                 *)
LEMMA ReplaceMoves ==
  ASSUME TypeInv, NEW t \in Threads, NEW th, threads' = [threads EXCEPT ![t] = th],
         \/ th.conv = threads[t].conv
         \/ th.conv.step = 0
         \/ th.conv \in convs
         \/ \E i \in DOMAIN jobs : th.conv = jobs[i],
         Saving(th) => Path[th.step] \subseteq passed'[th.conv.wha],
         th.pc # "backRemove",
         th.pc = "histUpdate" => hist'[th.found].wha = th.conv.wha
  PROVE  Moves(t)
<1>1. /\ threads'[t] = th
      /\ \A s \in Threads \ {t} : threads'[s] = threads[s]
  BY DEF TypeInv, TypeOK
<1> QED BY <1>1 DEF Moves, ConvKept, Saving, Reached

LEMMA GotoMoves ==
  ASSUME TypeInv, NEW t \in Threads, NEW pc, Goto(t, pc),
         pc \notin {"create", "emit", "backRemove", "histNew", "histFind", "histUpdate"}
  PROVE  Moves(t)
<1> DEFINE th == [threads[t] EXCEPT !.pc = pc]
<1>1. threads' = [threads EXCEPT ![t] = th]
  BY DEF Goto
<1>2. th.conv = threads[t].conv /\ th.pc = pc
  BY ThreadIsOK DEF Thread
<1>3. ~Saving(th) /\ th.pc # "backRemove" /\ th.pc # "histUpdate"
  BY <1>2 DEF Saving, Editing
<1> HIDE DEF th
<1> QED BY <1>1, <1>2, <1>3, ReplaceMoves

LEMMA SaveMoves ==
  ASSUME TypeInv, NEW t \in Threads, NEW s, NEW after, GotoSave(t, s, after),
         Path[s] \subseteq passed'[threads[t].conv.wha]
  PROVE  Moves(t)
<1> DEFINE th == [threads[t] EXCEPT !.pc = "create", !.step = s, !.after = after]
<1>1. threads' = [threads EXCEPT ![t] = th]
  BY DEF GotoSave
<1>2. th.conv = threads[t].conv /\ th.pc = "create" /\ th.step = s
  BY ThreadIsOK DEF Thread
<1> HIDE DEF th
<1> QED BY <1>1, <1>2, ReplaceMoves

LEMMA EndMoves ==
  ASSUME TypeInv, NEW t \in Threads, Finish(t) \/ Fail(t)
  PROVE  Moves(t)
<1>1. Idle.conv.step = 0 /\ ~Saving(Idle) /\ Idle.pc \notin {"backRemove", "histUpdate"}
  BY DEF Idle, NoRow, Saving, Editing
<1> QED BY <1>1, ReplaceMoves DEF Finish, Fail

LEMMA EditMoves ==
  ASSUME TypeInv, NEW t \in Threads, NEW edit, NEW step, GotoEdit(t, edit, step),
         edit = "progress" => Path[threads[t].step] \subseteq passed'[threads[t].conv.wha]
  PROVE  Moves(t)
<1> DEFINE label == IF step = MenuStep THEN "histNew" ELSE "histFind"
           th == [threads[t] EXCEPT !.edit = edit, !.pc = label]
<1>1. threads' = [threads EXCEPT ![t] = th]
  BY DEF GotoEdit
<1>2. /\ th.conv = threads[t].conv /\ th.edit = edit /\ th.step = threads[t].step
      /\ th.pc \in {"histNew", "histFind"}
  BY ThreadIsOK DEF Thread
<1>3. th.pc \notin {"create", "emit", "backRemove"}
  BY <1>2
<1> HIDE DEF th
<1> QED BY <1>1, <1>2, <1>3, ReplaceMoves DEF Saving

(***************************************************************************)
(* The steps.                                                              *)
(***************************************************************************)
LEMMA AcceptReaches ==
  ASSUME TypeInv, NEW u \in Users, NEW s \in StepIds, Accept(u, s)
  PROVE  PassedGrows /\ passed[u] \cup {s} \subseteq passed'[u]
BY DEF Accept, PassedGrows, TypeInv, TypeOK

LEMMA ReceiveMoves ==
  ASSUME TypeInv, NEW t \in Threads, NEW u \in Users, NEW pc, NEW step, NEW after,
         Receive(t, u, pc, step, after),
         pc \in {"create", "strike", "back", "removeAll", "driver", "otp", "ocr"},
         pc = "create" => Path[step] \subseteq passed'[u]
  PROVE  /\ Moves(t)
         /\ UNCHANGED <<convs, hist, jobs, strikes>>
<1> DEFINE c == LastConversation(u)
           th == [Idle EXCEPT !.pc = pc, !.conv = c, !.step = step, !.after = after]
<1>1. threads' = [threads EXCEPT ![t] = th]
  BY DEF Receive
<1>2. th.conv = c /\ th.pc = pc /\ th.step = step /\ th.edit = "none"
  BY DEF Idle
<1>3. c.wha = u /\ (c.step = 0 \/ c \in convs)
  BY LastConversationType DEF TypeInv
<1>4. Saving(th) => pc = "create"
  BY <1>2 DEF Saving, Editing
<1> HIDE DEF th, c
<1>5. Moves(t)
  BY <1>1, <1>2, <1>3, <1>4, ReplaceMoves
<1> QED BY <1>5 DEF Receive, tables

LEMMA CurrentReached ==
  ASSUME TypeInv, PathInv, NEW u \in Users, Current(u) \in StepIds
  PROVE  Path[Current(u)] \subseteq passed[u]
<1>1. LastConversation(u) \in convs /\ LastConversation(u).wha = u
  BY LastConversationType DEF Current, StepIds, TypeInv
<1> QED BY <1>1 DEF PathInv, Reached, Current

LEMMA NewMessagePath ==
  ASSUME TypeInv, TypeInv', PathInv,
         NEW t \in Handlers, NEW u \in Users, NEW m \in Sendable, NewMessage(t, u, m)
  PROVE  PathInv'
<1>0. t \in Threads /\ passed[u] \subseteq StepIds
  BY DEF Threads, TypeInv, TypeOK
<1>1. ASSUME NEW pc, NEW step, NEW after, Receive(t, u, pc, step, after),
             pc \in {"create", "strike", "back", "removeAll", "driver", "otp", "ocr"},
             pc = "create" => Path[step] \subseteq passed'[u],
             PassedGrows
      PROVE  PathInv'
  <2>1. Moves(t) /\ UNCHANGED <<convs, hist, jobs, strikes>>
    BY <1>0, <1>1, ReceiveMoves
  <2>2. RowsReached /\ HistReached /\ JobsReached
    BY <2>1, NothingWritten, OthersKept
  <2> QED BY <1>0, <1>1, <2>1, <2>2, PathMove
<1>2. CASE HandleNewConversation(t, u)
  BY <1>1, <1>2, PathOfMenu, OthersKept DEF HandleNewConversation
<1>3. CASE HandleMenu(t, u, m)
  <2>1. PICK flow \in MenuChoices(m) :
          IF flow = NoFlow
          THEN /\ Receive(t, u, "strike", 0, "end")
               /\ UNCHANGED passed
          ELSE /\ Receive(t, u, "create", StepAt(1, flow), "end")
               /\ Accept(u, MenuStep)
    BY <1>3 DEF HandleMenu
  <2>2. CASE flow = NoFlow
    BY <1>1, <2>1, <2>2, OthersKept
  <2>3. CASE flow # NoFlow
    <3>1. flow \in Flows
      BY <2>3 DEF MenuChoices, Flows
    <3>2. PassedGrows /\ MenuStep \in passed'[u]
      BY <2>1, <2>3, AcceptReaches, FixedSteps
    <3>3. Path[StepAt(1, flow)] \subseteq passed'[u]
      BY <3>1, <3>2, FirstKeepsPath
    <3> QED BY <1>1, <2>1, <2>3, <3>2, <3>3
  <2> QED BY <2>2, <2>3
<1>4. CASE HandleBackOrStop(t, u, m)
  BY <1>1, <1>4, OthersKept DEF HandleBackOrStop
<1>5. CASE HandleOfferChoice(t, u, m)
  <2>1. CASE m \in {"one", "two"}
    <3> DEFINE level == IF m = "one" THEN 2 ELSE 3
    <3>1. /\ Receive(t, u, "create", StepAt(level, "Offres"), "success")
          /\ Accept(u, OfferStep) /\ Current(u) = OfferStep
      BY <1>5, <2>1 DEF HandleOfferChoice
    <3>2. level \in {2, 3}
      OBVIOUS
    <3> HIDE DEF level
    <3>3. Path[OfferStep] \subseteq passed[u]
      BY <3>1, CurrentReached, FixedSteps
    <3>4. PassedGrows /\ passed[u] \cup {OfferStep} \subseteq passed'[u]
      BY <3>1, AcceptReaches, FixedSteps
    <3>5. Path[StepAt(level, "Offres")] \subseteq passed'[u]
      BY <3>2, <3>3, <3>4, OffersKeepPath
    <3> QED BY <1>1, <3>1, <3>4, <3>5
  <2>2. CASE m \notin {"one", "two"}
    BY <1>1, <1>5, <2>2, OthersKept DEF HandleOfferChoice
  <2> QED BY <2>1, <2>2
<1>6. CASE HandlePhoneNumber(t, u, m)
  BY <1>1, <1>6, OthersKept DEF HandlePhoneNumber
<1>7. CASE HandleOtp(t, u, m)
  BY <1>1, <1>7, OthersKept DEF HandleOtp
<1>8. CASE HandleDocument(t, u, m)
  BY <1>1, <1>8, OthersKept DEF HandleDocument
<1>9. CASE HandleThirdFlowFinal(t, u, m)
  <2>1. Path[Current(u)] \subseteq passed'[u]
    BY <1>9, CurrentReached, FixedSteps DEF HandleThirdFlowFinal
  <2> QED BY <1>1, <1>9, <2>1, OthersKept DEF HandleThirdFlowFinal
<1>10. CASE HandleUnexpected(t, u, m)
  BY <1>1, <1>10, OthersKept DEF HandleUnexpected
<1>11. CASE HandleIgnored(t, u, m)
  BY <1>11 DEF HandleIgnored, PathInv, ThreadReached, Reached, OwnRow, Saving, tables, observers
<1> QED BY <1>2, <1>3, <1>4, <1>5, <1>6, <1>7, <1>8, <1>9, <1>10, <1>11 DEF NewMessage

LEMMA JudgePath ==
  ASSUME TypeInv, TypeInv', PathInv, NEW t \in Threads,
         CheckDriver(t) \/ VerifyOtp(t) \/ ReadDocument(t)
  PROVE  PathInv'
<1> DEFINE step == threads[t].conv.step
           u == threads[t].conv.wha
<1>1. /\ threads[t].conv \in Row
      /\ step \in PhoneSteps \cup OtpSteps \cup DocumentSteps
  BY ThreadIsOK DEF ThreadOK, CheckDriver, VerifyOtp, ReadDocument, At, Answering
<1>2. step \in StepIds /\ u \in Users /\ step # 0 /\ Wha(t) = u
  BY <1>1, RowFacts DEF Wha, StepIds
<1>3. Path[step] \subseteq passed[u]
  BY <1>2 DEF PathInv, ThreadReached, Reached
<1>4. UNCHANGED <<convs, hist, jobs, strikes>>
  BY DEF CheckDriver, VerifyOtp, ReadDocument, tables
<1>5. RowsReached /\ HistReached /\ JobsReached
  BY <1>4, NothingWritten, OthersKept
<1>6. \/ \E after : GotoSave(t, NextStep(step), after) /\ Accept(Wha(t), step)
      \/ (Goto(t, "strike") \/ Finish(t) \/ Fail(t)) /\ UNCHANGED passed
  BY DEF CheckDriver, VerifyOtp, ReadDocument
<1>7. CASE \E after : GotoSave(t, NextStep(step), after) /\ Accept(Wha(t), step)
  <2>1. PassedGrows /\ passed[u] \cup {step} \subseteq passed'[u]
    BY <1>2, <1>7, AcceptReaches
  <2>2. Path[NextStep(step)] \subseteq passed'[u]
    BY <1>1, <1>3, <2>1, NextKeepsPath
  <2>3. Moves(t)
    BY <1>7, <2>2, SaveMoves
  <2> QED BY <1>5, <2>1, <2>3, PathMove
<1>8. CASE (Goto(t, "strike") \/ Finish(t) \/ Fail(t)) /\ UNCHANGED passed
  <2>1. Moves(t)
    BY <1>8, GotoMoves, EndMoves
  <2> QED BY <1>5, <1>8, <2>1, OthersKept, PathMove
<1> QED BY <1>6, <1>7, <1>8

LEMMA HistoryPath ==
  ASSUME TypeInv, TypeInv', PathInv, NEW t \in Threads,
         CreateHistory(t) \/ FindHistory(t) \/ UpdateHistory(t)
  PROVE  PathInv'
<1> DEFINE th == threads[t]
           u == th.conv.wha
<1>1. th \in Thread /\ ThreadOK(th) /\ th.pc \in Editing
  BY ThreadIsOK DEF CreateHistory, FindHistory, UpdateHistory, At, Editing
<1>2. /\ UNCHANGED <<convs, jobs, strikes, passed>>
  BY DEF CreateHistory, FindHistory, UpdateHistory, tables, observers
<1>3. RowsReached /\ JobsReached /\ PassedGrows
  BY <1>2, NothingWritten, OthersKept
<1>4. th.edit = "progress" => Path[th.step] \subseteq passed[u]
  BY <1>1 DEF PathInv, ThreadReached, Saving, Reached
<1>5. Path[EditStep(th)] \subseteq passed[u]
  <2>1. CASE th.edit = "progress"
    BY <1>4, <2>1 DEF EditStep
  <2>2. CASE th.edit # "progress"
    <3>1. th.conv \in Row
      BY <1>1, <2>2 DEF ThreadOK, Thread
    <3>2. th.conv.step # 0
      BY <3>1, RowFacts DEF StepIds
    <3> QED BY <2>2, <3>2 DEF EditStep, PathInv, ThreadReached, Reached
  <2> QED BY <2>1, <2>2
<1>6. ASSUME NEW new, threads' = [threads EXCEPT ![t] = new],
             new.conv = th.conv, new.step = th.step, new.edit = th.edit,
             new.pc \in {AfterEdit(th.edit), "histUpdate"},
             new.pc = "histUpdate" => hist'[new.found].wha = u
      PROVE  Moves(t)
  <2>1. new.pc # "backRemove" /\ (Saving(new) => th.edit = "progress")
    BY <1>6 DEF AfterEdit, Saving, Editing
  <2>2. Saving(new) => Path[new.step] \subseteq passed'[new.conv.wha]
    BY <1>2, <1>4, <1>6, <2>1
  <2>3. new.pc = "histUpdate" => hist'[new.found].wha = new.conv.wha
    BY <1>6
  <2> QED BY <1>6, <2>1, <2>2, <2>3, ReplaceMoves
<1>7. CASE CreateHistory(t)
  <2> DEFINE new == [th EXCEPT !.pc = AfterEdit(th.edit)]
             row == [wha |-> u, step |-> EditStep(th),
                     status |-> Status(th.edit), reason |-> Reason(th.edit)]
  <2>1. threads' = [threads EXCEPT ![t] = new] /\ hist' = Append(hist, row)
    BY <1>7 DEF CreateHistory, Goto
  <2>2. /\ new.conv = th.conv /\ new.step = th.step /\ new.edit = th.edit
        /\ new.pc = AfterEdit(th.edit) /\ AfterEdit(th.edit) # "histUpdate"
    BY <1>1 DEF Thread, AfterEdit
  <2>3. row.wha = u /\ row.step = EditStep(th)
    OBVIOUS
  <2> HIDE DEF new, row
  <2>4. Moves(t)
    BY <1>6, <2>1, <2>2
  <2>5. HistReached
    <3>1. hist \in Seq(HistoryRow)
      BY DEF TypeInv, TypeOK
    <3>2. ASSUME NEW i \in DOMAIN hist', i \notin DOMAIN hist
          PROVE  hist'[i] = row
      BY <2>1, <3>1, <3>2
    <3>3. \A i \in DOMAIN hist : i \in DOMAIN hist' /\ hist'[i] = hist[i]
      BY <2>1, <3>1
    <3> QED BY <1>2, <1>5, <2>3, <3>2, <3>3 DEF HistReached, Reached
  <2> QED BY <1>3, <2>4, <2>5, PathMove
<1>8. CASE FindHistory(t)
  <2> DEFINE row == Latest(HistoryAt(u, LookupStep(th)))
             label == IF row = 0 THEN AfterEdit(th.edit) ELSE "histUpdate"
             new == [th EXCEPT !.found = row, !.pc = label]
  <2>1. threads' = [threads EXCEPT ![t] = new]
    BY <1>8 DEF FindHistory
  <2>2. label \in {AfterEdit(th.edit), "histUpdate"}
    OBVIOUS
  <2> HIDE DEF row, label
  <2>3. /\ new.conv = th.conv /\ new.step = th.step /\ new.edit = th.edit
        /\ new.pc = label
    BY <1>1 DEF Thread
  <2> HIDE DEF new
  <2>4. label = "histUpdate" => hist[row].wha = u
    BY DEF label, row, Latest, HistoryAt, AfterEdit
  <2>5. HistReached /\ hist' = hist
    BY <1>8, OthersKept DEF FindHistory, tables
  <2>6. new.found = row
    BY <1>1 DEF new, Thread
  <2>7. Moves(t)
    BY <1>6, <2>1, <2>2, <2>3, <2>4, <2>5, <2>6
  <2> QED BY <1>3, <2>5, <2>7, PathMove
<1>9. CASE UpdateHistory(t)
  <2> DEFINE old == hist[th.found]
             row == [old EXCEPT !.step = EditStep(th), !.status = Status(th.edit),
                       !.reason = IF th.edit = "progress" THEN old.reason ELSE Reason(th.edit)]
             new == [th EXCEPT !.pc = AfterEdit(th.edit), !.found = 0]
  <2>1. /\ threads' = [threads EXCEPT ![t] = new]
        /\ hist' = [hist EXCEPT ![th.found] = row]
    BY <1>9 DEF UpdateHistory
  <2>2. /\ new.conv = th.conv /\ new.step = th.step /\ new.edit = th.edit
        /\ new.pc = AfterEdit(th.edit) /\ AfterEdit(th.edit) # "histUpdate"
    BY <1>1 DEF Thread, AfterEdit
  <2> HIDE DEF new
  <2>3. Moves(t)
    BY <1>6, <2>1, <2>2
  <2>4. th.found \in DOMAIN hist /\ old.wha = u
    BY <1>9, ThreadIsOK DEF UpdateHistory, At, PathInv, ThreadReached
  <2>5. hist \in Seq(HistoryRow) /\ old \in HistoryRow
    <3>1. hist \in Seq(HistoryRow)
      BY DEF TypeInv, TypeOK
    <3> QED BY <2>4, <3>1
  <2>6. row.wha = u /\ row.step = EditStep(th)
    BY <2>4, <2>5 DEF HistoryRow
  <2> HIDE DEF row, old
  <2>7. HistReached
    <3>1. DOMAIN hist' = DOMAIN hist /\ hist'[th.found] = row
      BY <2>1, <2>4, <2>5
    <3>2. \A i \in DOMAIN hist : i # th.found => hist'[i] = hist[i]
      BY <2>1, <2>5
    <3>3. hist[th.found].wha = u
      BY <2>4 DEF old
    <3> QED BY <1>2, <1>5, <2>6, <3>1, <3>2, <3>3 DEF HistReached, Reached
  <2> QED BY <1>3, <2>3, <2>7, PathMove
<1> QED BY <1>7, <1>8, <1>9

(* A new row has a new id, and stands where its user has come.             *)
LEMMA CreatePath ==
  ASSUME TypeInv, TypeInv', PathInv, NEW t \in Threads, CreateConversation(t)
  PROVE  PathInv'
<1> DEFINE th == threads[t]
           row == [id |-> Len(strikes) + 1, wha |-> Wha(t), step |-> th.step, bad |-> 0]
<1>1. /\ convs' = convs \cup {row} /\ strikes' = Append(strikes, 0)
      /\ GotoEdit(t, "progress", th.step)
      /\ UNCHANGED <<hist, jobs, passed>>
  BY DEF CreateConversation
<1>2. /\ row.id = Len(strikes) + 1 /\ row.wha = th.conv.wha /\ row.step = th.step
  BY DEF Wha
<1>3. Path[th.step] \subseteq passed[th.conv.wha]
  BY DEF CreateConversation, At, Saving, PathInv, ThreadReached, Reached
<1>4. strikes \in Seq(Nat)
  BY DEF TypeInv, TypeOK
<1> HIDE DEF row
<1>5. /\ DOMAIN strikes = 1..Len(strikes) /\ Len(strikes) \in Nat
      /\ DOMAIN strikes' = 1..(Len(strikes) + 1)
  BY <1>1, <1>4
<1>6. \A r \in convs : r.id \in DOMAIN strikes /\ r.id # row.id
  BY <1>2, <1>5 DEF PathInv
<1>7. RowsReached
  <2>1. \A r \in convs' : \/ \E q \in convs : r.id = q.id /\ r.wha = q.wha /\ r.step = q.step
                          \/ r.id = Len(strikes) + 1 /\ Reached(r.wha, r.step)'
    BY <1>1, <1>2, <1>3 DEF Reached
  <2>2. \A r, q \in convs' : r.id = q.id => r = q
    BY <1>1, <1>6 DEF PathInv
  <2>3. DOMAIN strikes \subseteq DOMAIN strikes' /\ row.id \in DOMAIN strikes'
    BY <1>2, <1>5
  <2>4. \A r \in convs' : r.id \in DOMAIN strikes'
    BY <1>1, <1>6, <2>3
  <2> QED BY <2>1, <2>2, <2>3, <2>4 DEF RowsReached
<1>8. Moves(t)
  BY <1>1, <1>3, EditMoves
<1> QED BY <1>1, <1>7, <1>8, OthersKept, PathMove

LEMMA StrikePath ==
  ASSUME TypeInv, TypeInv', PathInv, NEW t \in Threads, Strike(t)
  PROVE  PathInv'
<1> DEFINE c == threads[t].conv
           bad == c.bad + 1
<1>1. UNCHANGED <<hist, jobs, passed>>
  BY DEF Strike
<1>2. Moves(t)
  BY GotoMoves, EditMoves, EndMoves DEF Strike
<1>3. CASE ~HasRow(c.id)
  <2>1. convs' \subseteq convs /\ strikes' = strikes
    BY <1>3 DEF Strike
  <2> QED BY <1>1, <1>2, <2>1, NothingWritten, OthersKept, PathMove
<1>4. CASE HasRow(c.id)
  <2>1. /\ convs' = {IF r.id = c.id THEN [r EXCEPT !.bad = bad] ELSE r : r \in convs}
        /\ strikes' = [strikes EXCEPT ![c.id] = @ + 1]
    BY <1>4 DEF Strike
  <2>2. strikes \in Seq(Nat) /\ convs \subseteq Row
    BY DEF TypeInv, TypeOK
  <2>3. DOMAIN strikes' = DOMAIN strikes
    BY <2>1
  <2> HIDE DEF bad
  <2>4. ASSUME NEW r \in convs
        PROVE  LET q == IF r.id = c.id THEN [r EXCEPT !.bad = bad] ELSE r
               IN  q.id = r.id /\ q.wha = r.wha /\ q.step = r.step
    BY <2>2 DEF Row
  <2>5. \A q \in convs' : \E r \in convs :
          /\ q = IF r.id = c.id THEN [r EXCEPT !.bad = bad] ELSE r
          /\ q.id = r.id /\ q.wha = r.wha /\ q.step = r.step
    BY <2>1, <2>4
  <2>6. \A r, q \in convs' : r.id = q.id => r = q
    BY <2>5 DEF PathInv
  <2>7. RowsReached
    BY <2>3, <2>5, <2>6 DEF RowsReached, PathInv
  <2> QED BY <1>1, <1>2, <2>7, OthersKept, PathMove
<1> QED BY <1>3, <1>4

(* The steps that neither save nor edit anything.                          *)
LEMMA QuietPath ==
  ASSUME TypeInv, TypeInv', PathInv, NEW t \in Threads,
         \/ EmitPrompt(t) \/ SendOtp(t) \/ PushJob(t)
         \/ TellError(t) \/ TellRetry(t) \/ RemoveAll(t) \/ TellStopped(t)
         \/ Work(t) \/ Announce(t) \/ EndRun(t) \/ Bury(t) \/ TellTimeout(t)
  PROVE  PathInv'
<1>1. UNCHANGED <<hist, strikes, passed>>
  BY DEF EmitPrompt, SendOtp, PushJob, TellError, TellRetry, RemoveAll, TellStopped, Work,
     Announce, EndRun, Bury, TellTimeout, tables, observers
<1>2. convs' \subseteq convs
  BY DEF EmitPrompt, SendOtp, PushJob, TellError, TellRetry, RemoveAll, TellStopped, Work,
     Announce, EndRun, Bury, TellTimeout, tables, RemoveRows
<1>3. JobsReached
  <2>1. CASE PushJob(t)
    <3>1. threads[t].conv \in Row /\ jobs \in Seq(Row)
      BY <2>1, ThreadIsOK DEF ThreadOK, PushJob, At, Answering, TypeInv, TypeOK
    <3>2. jobs' = jobs \/ jobs' = Append(jobs, threads[t].conv)
      BY <2>1 DEF PushJob
    <3>3. CASE jobs' = Append(jobs, threads[t].conv)
      <4>1. ASSUME NEW i \in DOMAIN jobs'
            PROVE  (i \in DOMAIN jobs /\ jobs'[i] = jobs[i]) \/ jobs'[i] = threads[t].conv
        BY <3>1, <3>3
      <4> QED BY <3>1, <4>1 DEF JobsReached
    <3> QED BY <3>2, <3>3, OthersKept
  <2>2. CASE ~PushJob(t)
    <3>1. jobs' = jobs
      BY <2>2 DEF EmitPrompt, SendOtp, TellError, TellRetry, RemoveAll, TellStopped, Work,
         Announce, EndRun, Bury, TellTimeout, tables
    <3> QED BY <3>1, OthersKept
  <2> QED BY <2>1, <2>2
<1>4. Moves(t)
  <2>1. \/ Finish(t) \/ Fail(t)
        \/ \E pc \in {"sendOtp", "push", "strike", "tellRetry", "removeAll", "tellStopped",
                      "announce", "tellTimeout"} : Goto(t, pc)
        \/ \E edit \in {"success", "error", "timeLimit"} : \E step : GotoEdit(t, edit, step)
    BY DEF EmitPrompt, SendOtp, PushJob, TellError, TellRetry, RemoveAll, TellStopped, Work,
       Announce, EndRun, Bury, TellTimeout
  <2> QED BY <2>1, GotoMoves, EditMoves, EndMoves
<1> QED BY <1>1, <1>2, <1>3, <1>4, NothingWritten, OthersKept, PathMove

(* "back": the row found is the sender's own, and so is the row deleted.   *)
LEMMA BackPath ==
  ASSUME TypeInv, TypeInv', PathInv, NEW t \in Threads, FindLast(t) \/ RemoveLast(t)
  PROVE  PathInv'
<1> DEFINE th == threads[t]
<1>1. UNCHANGED <<hist, jobs, strikes, passed>>
  BY DEF FindLast, RemoveLast, observers
<1>2. convs' \subseteq convs
  BY DEF FindLast, RemoveLast
<1>3. ASSUME Moves(t)
      PROVE  PathInv'
  BY <1>1, <1>2, <1>3, NothingWritten, OthersKept, PathMove
<1>4. CASE Fail(t)
  BY <1>3, <1>4, EndMoves
<1>5. CASE FindLast(t) /\ ~Fail(t)
  <2> DEFINE last == LastConversation(Wha(t))
             new == [th EXCEPT !.pc = "backRemove", !.found = last.id]
  <2>1. last.id # 0 /\ threads' = [threads EXCEPT ![t] = new] /\ convs' = convs
    BY <1>5 DEF FindLast
  <2>2. Wha(t) = th.conv.wha /\ th.conv.wha \in Users
    BY <1>5, ThreadIsOK DEF Wha, FindLast, At, ThreadOK
  <2>3. last \in convs /\ last.wha = th.conv.wha
    BY <2>1, <2>2, LastConversationType DEF TypeInv
  <2> HIDE DEF last
  <2>4. new.conv = th.conv /\ new.pc = "backRemove" /\ new.found = last.id
    BY ThreadIsOK DEF Thread
  <2> HIDE DEF new
  <2>5. /\ threads'[t] = new
        /\ \A s \in Threads \ {t} : threads'[s] = threads[s]
    BY <2>1 DEF TypeInv, TypeOK
  <2>6. OwnRow(threads[t])'
    BY <1>1, <2>1, <2>3, <2>4, <2>5 DEF OwnRow, PathInv
  <2>7. Moves(t)
    BY <2>4, <2>5, <2>6 DEF Moves, ConvKept, Saving, Editing
  <2> QED BY <1>3, <2>7
<1>6. CASE RemoveLast(t) /\ ~Fail(t)
  <2>1. HasRow(th.found) /\ th.pc = "backRemove"
    BY <1>6 DEF RemoveLast, At
  <2> DEFINE row == CHOOSE r \in convs : r.id = th.found
             new == [th EXCEPT !.pc = "create", !.found = 0, !.step = Previous(row.step)]
  <2>2. row \in convs /\ row.id = th.found
    BY <2>1 DEF HasRow
  <2>3. HasPrevious(row.step) /\ threads' = [threads EXCEPT ![t] = new]
    BY <1>6, <2>1 DEF RemoveLast
  <2> HIDE DEF row
  <2>4. row.wha = th.conv.wha /\ row.step \in StepIds
    BY <2>1, <2>2, RowFacts DEF PathInv, ThreadReached, OwnRow, TypeInv, TypeOK
  <2>5. Path[Previous(row.step)] \subseteq passed[th.conv.wha]
    BY <2>2, <2>3, <2>4, PreviousKeepsPath DEF PathInv, Reached
  <2>6. new.conv = th.conv /\ new.pc = "create" /\ new.step = Previous(row.step)
    BY ThreadIsOK DEF Thread
  <2> HIDE DEF new
  <2>7. Moves(t)
    BY <1>1, <2>3, <2>5, <2>6, ReplaceMoves
  <2> QED BY <1>3, <2>7
<1> QED BY <1>4, <1>5, <1>6

LEMMA TakeJobPath ==
  ASSUME TypeInv, TypeInv', PathInv, NEW t \in Threads, TakeJob(t)
  PROVE  PathInv'
<1> DEFINE th == [threads[t] EXCEPT !.pc = "work", !.conv = Head(jobs)]
<1>1. jobs \in Seq(Row) /\ jobs # << >> /\ jobs' = Tail(jobs)
  BY DEF TakeJob, TypeInv, TypeOK
<1>2. threads' = [threads EXCEPT ![t] = th]
  BY DEF TakeJob
<1>3. th.conv = jobs[1] /\ th.pc = "work" /\ 1 \in DOMAIN jobs
  BY <1>1, ThreadIsOK DEF Thread
<1> HIDE DEF th
<1>4. Moves(t)
  BY <1>2, <1>3, ReplaceMoves DEF Saving, Editing
<1>5. JobsReached
  BY <1>1 DEF JobsReached
<1>6. UNCHANGED <<convs, hist, strikes, passed>>
  BY DEF TakeJob, tables, observers
<1> QED BY <1>4, <1>5, <1>6, NothingWritten, OthersKept, PathMove

LEMMA UndertakerPath ==
  ASSUME TypeInv, TypeInv', PathInv, NEW t \in Threads, StartRun(t) \/ Visit(t)
  PROVE  PathInv'
<1>1. UNCHANGED <<convs, hist, jobs, strikes, passed>>
  BY DEF StartRun, Visit, tables, observers
<1>2. ASSUME NEW th, threads' = [threads EXCEPT ![t] = th], th.pc \in {"visit", "bury"},
             th.conv.step = 0 \/ th.conv \in convs
      PROVE  PathInv'
  <2>1. Moves(t)
    BY <1>2, ReplaceMoves DEF Saving, Editing
  <2> QED BY <1>1, <2>1, NothingWritten, OthersKept, PathMove
<1>3. CASE StartRun(t)
  <2> DEFINE th == [Idle EXCEPT !.pc = "visit", !.phones = {r.wha : r \in convs}]
  <2>1. threads' = [threads EXCEPT ![t] = th]
    BY <1>3 DEF StartRun
  <2>2. th.pc = "visit" /\ th.conv.step = 0
    BY DEF Idle, NoRow
  <2> HIDE DEF th
  <2> QED BY <1>2, <2>1, <2>2
<1>4. CASE Visit(t)
  <2> DEFINE rest(u) == [Idle EXCEPT !.pc = "visit", !.phones = threads[t].phones \ {u}]
             next(u) == IF IsOld(LastConversation(u))
                        THEN [rest(u) EXCEPT !.pc = "bury", !.conv = LastConversation(u)]
                        ELSE rest(u)
  <2>1. PICK u \in threads[t].phones : threads' = [threads EXCEPT ![t] = next(u)]
    BY <1>4 DEF Visit
  <2> DEFINE th == next(u)
  <2>2. u \in Users
    BY ThreadIsOK DEF Thread
  <2>3. /\ th.pc \in {"visit", "bury"}
        /\ th.conv = LastConversation(u) \/ th.conv.step = 0
    BY DEF Idle, NoRow
  <2>4. threads' = [threads EXCEPT ![t] = th]
    BY <2>1
  <2> HIDE DEF th
  <2>5. th.conv.step = 0 \/ th.conv \in convs
    BY <2>2, <2>3, LastConversationType DEF TypeInv
  <2> QED BY <1>2, <2>3, <2>4, <2>5
<1> QED BY <1>3, <1>4

LEMMA InitPath == Init => PathInv
<1> SUFFICES ASSUME Init PROVE PathInv
  OBVIOUS
<1>1. ThreadReached(Idle)
  BY DEF ThreadReached, Idle, NoRow, Saving, Editing
<1> QED BY <1>1 DEF Init, PathInv

LEMMA PathStep == PathInv /\ TypeInv /\ TypeInv' /\ [Next]_vars => PathInv'
<1> SUFFICES ASSUME PathInv, TypeInv, TypeInv', [Next]_vars PROVE PathInv'
  OBVIOUS
<1>1. ASSUME NEW t \in Handlers, NEW u \in Users, NEW m \in Sendable, NewMessage(t, u, m)
      PROVE  PathInv'
  BY <1>1, NewMessagePath
<1>2. ASSUME NEW t \in Workers, TakeJob(t)
      PROVE  PathInv'
  BY <1>2, TakeJobPath DEF Threads
<1>3. ASSUME NEW t \in Undertakers, StartRun(t)
      PROVE  PathInv'
  BY <1>3, UndertakerPath DEF Threads
<1>4. ASSUME NEW t \in Threads, Resume(t)
      PROVE  PathInv'
  BY <1>4, JudgePath, HistoryPath, CreatePath, StrikePath, QuietPath, BackPath, UndertakerPath
  DEF Resume
<1>5. ASSUME NEW u \in Users, FiveMinutesPass(u)
      PROVE  PathInv'
  BY <1>5 DEF FiveMinutesPass, PathInv, ThreadReached, Reached, OwnRow, Saving, observers
<1>6. CASE Crash
  <2>1. \A t \in Threads : threads'[t] = Idle
    BY <1>6 DEF Crash
  <2>2. Idle.conv.step = 0 /\ ~Saving(Idle) /\ Idle.pc = "idle"
    BY DEF Idle, NoRow, Saving, Editing
  <2>3. UNCHANGED <<convs, hist, jobs, strikes, passed>>
    BY <1>6 DEF Crash, tables, observers
  <2> QED BY <2>1, <2>2, <2>3 DEF PathInv, ThreadReached, Reached, OwnRow, Saving
<1>7. CASE UNCHANGED vars
  BY <1>7 DEF vars, tables, observers, PathInv, ThreadReached, Reached, OwnRow, Saving
<1> QED BY <1>1, <1>2, <1>3, <1>4, <1>5, <1>6, <1>7 DEF Next

LEMMA PathInvariant == Spec => []PathInv
BY TypeInvariant, InitPath, PathStep, PTL DEF Spec

(* Whoever stands at a step has answered every question before it, in any  *)
(* interleaving of handlers, aborts, "back" and burials.                   *)
THEOREM StepsEarned == Spec => []NoStepSkipped
<1>1. PathInv => NoStepSkipped
  BY DEF PathInv, NoStepSkipped, Reached
<1> QED BY <1>1, PathInvariant, PTL

(* The history records only steps its user has reached                     *)
(* (editHistoryConversation).                                              *)
THEOREM HistoryEarned == Spec => []HistoryIsReached
<1>1. PathInv => HistoryIsReached
  BY DEF PathInv, HistoryIsReached, Reached
<1> QED BY <1>1, PathInvariant, PTL

(***************************************************************************)
(* The strengthening of YangoIsEarned: the flow is complete as soon as a   *)
(* handler means to push its job, and from there to the announcement.  A   *)
(* prompt may look like an announcement too: then the step itself was      *)
(* reached.                                                                *)
(***************************************************************************)
Complete(c) == /\ FlowOf(c.step) \in Flows \ {"Offres"}
               /\ FlowSteps[FlowOf(c.step)] \subseteq passed[c.wha]

Asks(th) == th.after = "push" \/ th.pc \in {"push", "work", "announce"}

ShownEarned(u) ==
  \A flow \in Flows \ {"Offres"} :
    shown[u] = SuccessStep(flow) => FlowSteps[flow] \subseteq passed[u]

AskedInv ==
  /\ \A i \in DOMAIN jobs : Complete(jobs[i])
  /\ \A t \in Threads : Asks(threads[t]) => Complete(threads[t].conv)
  /\ \A u \in Users : ShownEarned(u)

ThreadAsks(t) ==
  /\ \A s \in Threads \ {t} : threads'[s] = threads[s]
  /\ Asks(threads'[t]) => Complete(threads[t].conv)'

JobsComplete ==
  \A i \in DOMAIN jobs' :
    \/ \E k \in DOMAIN jobs : jobs'[i] = jobs[k]
    \/ jobs'[i] \in Row /\ Complete(jobs'[i])

ShownComplete == \A u \in Users : shown'[u] = shown[u] \/ ShownEarned(u)'

LEMMA CompleteGrows ==
  ASSUME PassedGrows, NEW c \in Row, Complete(c), NEW d, d = c
  PROVE  Complete(d)'
BY RowFacts DEF Complete, PassedGrows

LEMMA AskedMove ==
  ASSUME TypeInv, TypeInv', AskedInv, NEW t \in Threads, ThreadAsks(t), PassedGrows,
         JobsComplete, ShownComplete
  PROVE  AskedInv'
<1>1. ASSUME NEW i \in DOMAIN jobs'
      PROVE  Complete(jobs[i])'
  <2>1. ASSUME NEW k \in DOMAIN jobs, jobs'[i] = jobs[k]
        PROVE  Complete(jobs[i])'
    <3>1. jobs[k] \in Row
      BY DEF TypeInv, TypeOK
    <3> QED BY <2>1, <3>1, CompleteGrows DEF AskedInv
  <2>2. ASSUME jobs'[i] \in Row, Complete(jobs'[i])
        PROVE  Complete(jobs[i])'
    BY <2>2, CompleteGrows
  <2> QED BY <2>1, <2>2 DEF JobsComplete
<1>2. ASSUME NEW s \in Threads, Asks(threads'[s])
      PROVE  Complete(threads[s].conv)'
  <2>1. CASE s = t
    BY <1>2, <2>1 DEF ThreadAsks
  <2>2. CASE s # t
    <3>1. threads'[s] = threads[s]
      BY <2>2 DEF ThreadAsks
    <3>2. threads[s].conv \in Row
      BY <1>2, <3>1, ThreadIsOK DEF Asks, ThreadOK, Answering
    <3>3. Complete(threads[s].conv)
      BY <1>2, <3>1 DEF AskedInv
    <3> QED BY <3>1, <3>2, <3>3, CompleteGrows
  <2> QED BY <2>1, <2>2
<1>3. ASSUME NEW u \in Users
      PROVE  ShownEarned(u)'
  BY DEF ShownComplete, AskedInv, ShownEarned, PassedGrows
<1> QED BY <1>1, <1>2, <1>3 DEF AskedInv, Asks

LEMMA NothingAsked ==
  /\ jobs' = jobs => JobsComplete
  /\ shown' = shown => ShownComplete
BY DEF JobsComplete, ShownComplete

(* A message that is no announcement, or one that is earned.               *)
LEMMA DeliverEarned ==
  ASSUME TypeInv, NEW u \in Users, NEW s, Deliver(u, s),
         \A flow \in Flows \ {"Offres"} :
           s = SuccessStep(flow) => FlowSteps[flow] \subseteq passed'[u]
  PROVE  ShownComplete
<1>1. shown' = shown \/ shown' = [shown EXCEPT ![u] = s]
  BY DEF Deliver
<1>2. CASE shown' = [shown EXCEPT ![u] = s]
  <2>1. shown'[u] = s /\ \A v \in Users \ {u} : shown'[v] = shown[v]
    BY <1>2 DEF TypeInv, TypeOK
  <2> QED BY <2>1 DEF ShownComplete, ShownEarned
<1> QED BY <1>1, <1>2, NothingAsked

(* The ways of moving on, as far as Yango is concerned.                    *)
LEMMA ReplaceAsks ==
  ASSUME TypeInv, NEW t \in Threads, NEW th, threads' = [threads EXCEPT ![t] = th],
         Asks(th) => th.conv \in Row /\ Complete(th.conv), PassedGrows
  PROVE  ThreadAsks(t)
<1>1. /\ threads'[t] = th
      /\ \A s \in Threads \ {t} : threads'[s] = threads[s]
  BY DEF TypeInv, TypeOK
<1> QED BY <1>1, CompleteGrows DEF ThreadAsks

LEMMA KeepAsks ==
  ASSUME TypeInv, AskedInv, NEW t \in Threads, NEW th, threads' = [threads EXCEPT ![t] = th],
         th.conv = threads[t].conv, Asks(th) => Asks(threads[t]), PassedGrows
  PROVE  ThreadAsks(t)
<1>1. ASSUME Asks(th)
      PROVE  th.conv \in Row /\ Complete(th.conv)
  BY <1>1, ThreadIsOK DEF AskedInv, Asks, ThreadOK, Answering
<1> QED BY <1>1, ReplaceAsks

LEMMA GotoAsks ==
  ASSUME TypeInv, AskedInv, NEW t \in Threads, NEW pc, Goto(t, pc), PassedGrows,
         pc \notin {"push", "work", "announce"} \/ Asks(threads[t])
  PROVE  ThreadAsks(t)
<1> DEFINE th == [threads[t] EXCEPT !.pc = pc]
<1>1. threads' = [threads EXCEPT ![t] = th]
  BY DEF Goto
<1>2. th.conv = threads[t].conv /\ th.pc = pc /\ th.after = threads[t].after
  BY ThreadIsOK DEF Thread
<1> HIDE DEF th
<1> QED BY <1>1, <1>2, KeepAsks DEF Asks

LEMMA EndAsks ==
  ASSUME TypeInv, NEW t \in Threads, Finish(t) \/ Fail(t), PassedGrows
  PROVE  ThreadAsks(t)
<1>1. ~Asks(Idle)
  BY DEF Idle, Asks
<1> QED BY <1>1, ReplaceAsks DEF Finish, Fail

LEMMA EditAsks ==
  ASSUME TypeInv, AskedInv, NEW t \in Threads, NEW edit, NEW step, GotoEdit(t, edit, step),
         PassedGrows
  PROVE  ThreadAsks(t)
<1> DEFINE label == IF step = MenuStep THEN "histNew" ELSE "histFind"
           th == [threads[t] EXCEPT !.edit = edit, !.pc = label]
<1>1. threads' = [threads EXCEPT ![t] = th]
  BY DEF GotoEdit
<1>2. th.conv = threads[t].conv /\ th.pc = label /\ th.after = threads[t].after
  BY ThreadIsOK DEF Thread
<1>3. label \notin {"push", "work", "announce"}
  OBVIOUS
<1> HIDE DEF th, label
<1> QED BY <1>1, <1>2, <1>3, KeepAsks DEF Asks

(***************************************************************************)
(* The steps.                                                              *)
(***************************************************************************)
LEMMA NewMessageAsks ==
  ASSUME TypeInv, TypeInv', AskedInv,
         NEW t \in Handlers, NEW u \in Users, NEW m, NewMessage(t, u, m)
  PROVE  AskedInv'
<1>0. t \in Threads
  BY DEF Threads
<1>1. UNCHANGED <<jobs, shown>>
  BY DEF NewMessage, Receive, HandleNewConversation, HandleMenu, HandleBackOrStop,
     HandleOfferChoice, HandlePhoneNumber, HandleOtp, HandleDocument, HandleThirdFlowFinal,
     HandleUnexpected, HandleIgnored
<1>2. PassedGrows
  <2>1. \/ passed' = passed
        \/ \E s : Accept(u, s)
    BY DEF NewMessage, HandleNewConversation, HandleMenu, HandleBackOrStop,
       HandleOfferChoice, HandlePhoneNumber, HandleOtp, HandleDocument, HandleThirdFlowFinal,
       HandleUnexpected, HandleIgnored, observers
  <2> QED BY <2>1 DEF PassedGrows, Accept, TypeInv, TypeOK
<1>3. CASE HandleIgnored(t, u, m)
  BY <1>3 DEF HandleIgnored, AskedInv, Complete, ShownEarned, observers
<1>4. ASSUME NEW pc, NEW step, NEW after, Receive(t, u, pc, step, after),
             pc \notin {"push", "work", "announce"}, after # "push"
      PROVE  AskedInv'
  <2> DEFINE th == [Idle EXCEPT !.pc = pc, !.conv = LastConversation(u),
                                !.step = step, !.after = after]
  <2>1. threads' = [threads EXCEPT ![t] = th]
    BY <1>4 DEF Receive
  <2>2. ~Asks(th)
    BY <1>4 DEF Asks, Idle
  <2> HIDE DEF th
  <2>3. ThreadAsks(t)
    BY <1>0, <1>2, <2>1, <2>2, ReplaceAsks
  <2> QED BY <1>0, <1>1, <1>2, <2>3, NothingAsked, AskedMove
<1>5. ~HandleIgnored(t, u, m) =>
        \E pc, step, after : /\ Receive(t, u, pc, step, after)
                             /\ pc \notin {"push", "work", "announce"} /\ after # "push"
  BY DEF NewMessage, HandleNewConversation, HandleMenu, HandleBackOrStop, HandleOfferChoice,
     HandlePhoneNumber, HandleOtp, HandleDocument, HandleThirdFlowFinal, HandleUnexpected
<1> QED BY <1>3, <1>4, <1>5

(* The answer that makes a handler push completes its flow.                *)
LEMMA JudgeAsks ==
  ASSUME TypeInv, TypeInv', PathInv, AskedInv, NEW t \in Threads,
         CheckDriver(t) \/ VerifyOtp(t) \/ ReadDocument(t)
  PROVE  AskedInv'
<1> DEFINE c == threads[t].conv
<1>1. /\ c \in Row
      /\ threads[t].pc = "driver" => c.step \in PhoneSteps
      /\ threads[t].pc = "otp" => c.step \in OtpSteps
      /\ threads[t].pc = "ocr" => c.step \in DocumentSteps
  BY ThreadIsOK DEF ThreadOK, CheckDriver, VerifyOtp, ReadDocument, At, Answering
<1>2. c.step \in StepIds /\ c.wha \in Users /\ c.step # 0 /\ Wha(t) = c.wha
  BY <1>1, RowFacts DEF Wha, StepIds
<1>3. Path[c.step] \subseteq passed[c.wha]
  BY <1>2 DEF PathInv, ThreadReached, Reached
<1>4. UNCHANGED <<jobs, shown>>
  BY DEF CheckDriver, VerifyOtp, ReadDocument
<1>5. \/ \E after : /\ GotoSave(t, NextStep(c.step), after) /\ Accept(Wha(t), c.step)
                    /\ after = "push" => \/ c.step \in CarSteps
                                         \/ threads[t].pc = "otp" /\ Level(c.step) = 4
      \/ (Goto(t, "strike") \/ Finish(t) \/ Fail(t)) /\ UNCHANGED passed
  BY DEF CheckDriver, VerifyOtp, ReadDocument, At
<1>6. CASE (Goto(t, "strike") \/ Finish(t) \/ Fail(t)) /\ UNCHANGED passed
  <2>1. ThreadAsks(t)
    BY <1>6, GotoAsks, EndAsks, OthersKept
  <2> QED BY <1>4, <1>6, <2>1, NothingAsked, OthersKept, AskedMove
<1>7. ASSUME NEW after, GotoSave(t, NextStep(c.step), after), Accept(Wha(t), c.step),
             after = "push" => \/ c.step \in CarSteps
                               \/ threads[t].pc = "otp" /\ Level(c.step) = 4
      PROVE  AskedInv'
  <2>1. PassedGrows /\ passed[c.wha] \cup {c.step} \subseteq passed'[c.wha]
    BY <1>2, <1>7, AcceptReaches
  <2> DEFINE th == [threads[t] EXCEPT !.pc = "create", !.step = NextStep(c.step),
                                      !.after = after]
  <2>2. threads' = [threads EXCEPT ![t] = th]
    BY <1>7 DEF GotoSave
  <2>3. th.conv = c /\ th.pc = "create" /\ th.after = after
    BY ThreadIsOK DEF Thread
  <2> HIDE DEF th
  <2>4. /\ threads'[t] = th
        /\ \A s \in Threads \ {t} : threads'[s] = threads[s]
    BY <2>2 DEF TypeInv, TypeOK
  <2>5. ASSUME Asks(th)
        PROVE  Complete(threads[t].conv)'
    <3>1. c.step \in CarSteps \/ (c.step \in OtpSteps /\ Level(c.step) = 4)
      BY <1>1, <1>7, <2>3, <2>5 DEF Asks
    <3>2. /\ FlowOf(c.step) \in Flows \ {"Offres"}
          /\ FlowSteps[FlowOf(c.step)] \subseteq Path[c.step] \cup {c.step}
      BY <3>1, LastAnswer
    <3>3. FlowSteps[FlowOf(c.step)] \subseteq passed'[c.wha]
      BY <1>3, <2>1, <3>2
    <3>4. threads'[t].conv = c
      BY <2>3, <2>4
    <3> QED BY <3>2, <3>3, <3>4 DEF Complete
  <2>6. ThreadAsks(t)
    BY <2>4, <2>5 DEF ThreadAsks
  <2> QED BY <1>4, <2>1, <2>6, NothingAsked, AskedMove
<1> QED BY <1>5, <1>6, <1>7

LEMMA HistoryAsks ==
  ASSUME TypeInv, TypeInv', AskedInv, NEW t \in Threads,
         CreateHistory(t) \/ FindHistory(t) \/ UpdateHistory(t)
  PROVE  AskedInv'
<1> DEFINE th == threads[t]
           pc == AfterEdit(th.edit)
<1>1. UNCHANGED <<jobs, shown, passed>>
  BY DEF CreateHistory, FindHistory, UpdateHistory, observers
<1>2. pc \notin {"push", "work", "announce"}
  BY DEF AfterEdit
<1>3. ThreadAsks(t)
  <2>1. CASE CreateHistory(t)
    BY <1>1, <1>2, <2>1, GotoAsks, OthersKept DEF CreateHistory
  <2>2. ASSUME NEW found, NEW label,
               threads' = [threads EXCEPT ![t] = [th EXCEPT !.found = found, !.pc = label]],
               label \notin {"push", "work", "announce"}
        PROVE  ThreadAsks(t)
    <3> DEFINE new == [th EXCEPT !.found = found, !.pc = label]
    <3>1. new.conv = th.conv /\ new.pc = label /\ new.after = th.after
      BY ThreadIsOK DEF Thread
    <3>2. threads' = [threads EXCEPT ![t] = new]
      BY <2>2
    <3> HIDE DEF new
    <3> QED BY <1>1, <2>2, <3>1, <3>2, OthersKept, KeepAsks DEF Asks
  <2>3. CASE FindHistory(t)
    <3> DEFINE row == Latest(HistoryAt(th.conv.wha, LookupStep(th)))
               label == IF row = 0 THEN pc ELSE "histUpdate"
    <3>1. threads' = [threads EXCEPT ![t] = [th EXCEPT !.found = row, !.pc = label]]
      BY <2>3 DEF FindHistory
    <3>2. label \notin {"push", "work", "announce"}
      BY <1>2
    <3> HIDE DEF row, label
    <3> QED BY <2>2, <3>1, <3>2
  <2>4. CASE UpdateHistory(t)
    <3> DEFINE new == [th EXCEPT !.pc = pc, !.found = 0]
    <3>1. threads' = [threads EXCEPT ![t] = new]
      BY <2>4 DEF UpdateHistory
    <3>2. new.conv = th.conv /\ new.pc = pc /\ new.after = th.after
      BY ThreadIsOK DEF Thread
    <3> HIDE DEF new, pc
    <3> QED BY <1>1, <1>2, <3>1, <3>2, OthersKept, KeepAsks DEF Asks
  <2> QED BY <2>1, <2>3, <2>4
<1> QED BY <1>1, <1>3, NothingAsked, OthersKept, AskedMove

(* The prompts: one may look like an announcement.                         *)
LEMMA EmitAsks ==
  ASSUME TypeInv, TypeInv', PathInv, AskedInv, NEW t \in Threads, EmitPrompt(t)
  PROVE  AskedInv'
<1> DEFINE u == Wha(t)
           s == threads[t].step
<1>1. u \in Users /\ Path[s] \subseteq passed[u]
  BY ThreadIsOK DEF ThreadOK, EmitPrompt, At, Saving, PathInv, ThreadReached, Reached, Wha
<1>2. UNCHANGED <<jobs, passed>> /\ Deliver(u, s)
  BY DEF EmitPrompt, observers
<1>3. ShownComplete
  BY <1>1, <1>2, SuccessNeedsFlow, DeliverEarned
<1>4. ThreadAsks(t)
  BY <1>2, GotoAsks, EndAsks, EditAsks, OthersKept DEF EmitPrompt, Asks
<1> QED BY <1>2, <1>3, <1>4, NothingAsked, OthersKept, AskedMove

(* The announcement, at the end of a job.                                  *)
LEMMA AnnounceAsks ==
  ASSUME TypeInv, TypeInv', AskedInv, NEW t \in Threads, Announce(t)
  PROVE  AskedInv'
<1> DEFINE c == threads[t].conv
           flow == FlowOf(c.step)
<1>1. c \in Row /\ c.wha \in Users /\ Wha(t) = c.wha
  BY ThreadIsOK, RowFacts DEF ThreadOK, Announce, At, Answering, Wha
<1>2. flow \in Flows \ {"Offres"} /\ FlowSteps[flow] \subseteq passed[c.wha]
  BY DEF Announce, At, AskedInv, Asks, Complete
<1>3. UNCHANGED <<jobs, passed>> /\ Deliver(c.wha, SuccessStep(flow))
  BY <1>1 DEF Announce, observers
<1>4. ShownComplete
  BY <1>1, <1>2, <1>3, SuccessDiffers, DeliverEarned
<1>5. ThreadAsks(t)
  BY <1>3, EditAsks, OthersKept DEF Announce
<1> QED BY <1>3, <1>4, <1>5, NothingAsked, OthersKept, AskedMove

LEMMA QuietAsks ==
  ASSUME TypeInv, TypeInv', AskedInv, NEW t \in Threads,
         \/ CreateConversation(t) \/ SendOtp(t) \/ Strike(t) \/ RemoveAll(t)
         \/ TellError(t) \/ TellRetry(t) \/ TellStopped(t) \/ TellTimeout(t)
         \/ Work(t) \/ Bury(t)
  PROVE  AskedInv'
<1>1. UNCHANGED <<jobs, passed>>
  BY DEF CreateConversation, SendOtp, Strike, RemoveAll, TellError, TellRetry, TellStopped,
     TellTimeout, Work, Bury, observers
<1>2. Wha(t) \in Users
  BY ThreadIsOK DEF ThreadOK, At, Wha, TellError, TellRetry, TellStopped, TellTimeout,
     CreateConversation, SendOtp, Strike, RemoveAll, Work, Bury
<1>3. ShownComplete
  <2>1. \/ shown' = shown
        \/ \E s \in {ErrorShown, RetryStep, StoppedStep, TimeoutStep} : Deliver(Wha(t), s)
    BY DEF CreateConversation, SendOtp, Strike, RemoveAll, TellError, TellRetry, TellStopped,
       TellTimeout, Work, Bury, observers
  <2> QED BY <1>2, <2>1, NothingAsked, DeliverEarned, OthersAreNoSuccess
<1>4. ThreadAsks(t)
  <2>1. \/ Finish(t) \/ Fail(t)
        \/ \E pc : Goto(t, pc) /\ (pc \notin {"push", "work", "announce"} \/ At(t, "work"))
        \/ \E edit, step : GotoEdit(t, edit, step)
    BY DEF CreateConversation, SendOtp, Strike, RemoveAll, TellError, TellRetry, TellStopped,
       TellTimeout, Work, Bury
  <2> QED BY <1>1, <2>1, GotoAsks, EndAsks, EditAsks, OthersKept DEF At, Asks
<1> QED BY <1>1, <1>3, <1>4, NothingAsked, OthersKept, AskedMove

LEMMA PushAsks ==
  ASSUME TypeInv, TypeInv', AskedInv, NEW t \in Threads, PushJob(t)
  PROVE  AskedInv'
<1> DEFINE c == threads[t].conv
<1>0. threads[t].pc = "push"
  BY DEF PushJob, At
<1>1. UNCHANGED <<shown, passed>> /\ jobs \in Seq(Row) /\ c \in Row
  <2>1. c \in Row
    BY <1>0, ThreadIsOK DEF ThreadOK, Answering
  <2> QED BY <2>1 DEF PushJob, observers, TypeInv, TypeOK
<1>2. Complete(c)
  BY DEF PushJob, At, AskedInv, Asks
<1>3. JobsComplete
  <2>1. CASE jobs' = Append(jobs, c)
    <3>1. ASSUME NEW i \in DOMAIN jobs'
          PROVE  (i \in DOMAIN jobs /\ jobs'[i] = jobs[i]) \/ jobs'[i] = c
      BY <1>1, <2>1
    <3> QED BY <1>1, <1>2, <3>1 DEF JobsComplete
  <2> QED BY <2>1, NothingAsked DEF PushJob
<1>4. ThreadAsks(t)
  BY <1>1, EndAsks, OthersKept DEF PushJob
<1> QED BY <1>1, <1>3, <1>4, NothingAsked, OthersKept, AskedMove

LEMMA BackAsks ==
  ASSUME TypeInv, TypeInv', AskedInv, NEW t \in Threads, FindLast(t) \/ RemoveLast(t)
  PROVE  AskedInv'
<1>1. UNCHANGED <<jobs, shown, passed>>
  BY DEF FindLast, RemoveLast, observers
<1>2. CASE Fail(t)
  <2>1. ThreadAsks(t)
    BY <1>1, <1>2, EndAsks, OthersKept
  <2> QED BY <1>1, <2>1, NothingAsked, OthersKept, AskedMove
<1>3. ASSUME NEW new, threads' = [threads EXCEPT ![t] = new], new.conv = threads[t].conv,
             new.pc \in {"backRemove", "create"}, new.after = threads[t].after
      PROVE  AskedInv'
  <2>1. ThreadAsks(t)
    BY <1>1, <1>3, OthersKept, KeepAsks DEF Asks
  <2> QED BY <1>1, <2>1, NothingAsked, OthersKept, AskedMove
<1>4. CASE FindLast(t) /\ ~Fail(t)
  <2> DEFINE id == LastConversation(Wha(t)).id
             new == [threads[t] EXCEPT !.pc = "backRemove", !.found = id]
  <2>1. threads' = [threads EXCEPT ![t] = new]
    BY <1>4 DEF FindLast
  <2> HIDE DEF id
  <2>2. /\ new.conv = threads[t].conv /\ new.pc = "backRemove"
        /\ new.after = threads[t].after
    BY ThreadIsOK DEF Thread
  <2> HIDE DEF new
  <2> QED BY <1>3, <2>1, <2>2
<1>5. CASE RemoveLast(t) /\ ~Fail(t)
  <2> DEFINE step == Previous((CHOOSE r \in convs : r.id = threads[t].found).step)
             new == [threads[t] EXCEPT !.pc = "create", !.found = 0, !.step = step]
  <2>1. threads' = [threads EXCEPT ![t] = new]
    BY <1>5 DEF RemoveLast
  <2> HIDE DEF step
  <2>2. /\ new.conv = threads[t].conv /\ new.pc = "create"
        /\ new.after = threads[t].after
    BY ThreadIsOK DEF Thread
  <2> HIDE DEF new
  <2> QED BY <1>3, <2>1, <2>2
<1> QED BY <1>2, <1>4, <1>5

LEMMA TakeJobAsks ==
  ASSUME TypeInv, TypeInv', AskedInv, NEW t \in Threads, TakeJob(t)
  PROVE  AskedInv'
<1> DEFINE th == [threads[t] EXCEPT !.pc = "work", !.conv = Head(jobs)]
<1>1. jobs \in Seq(Row) /\ jobs # << >> /\ jobs' = Tail(jobs)
  BY DEF TakeJob, TypeInv, TypeOK
<1>2. threads' = [threads EXCEPT ![t] = th] /\ UNCHANGED <<shown, passed>>
  BY DEF TakeJob, observers
<1>3. th.conv = jobs[1] /\ 1 \in DOMAIN jobs /\ jobs[1] \in Row
  BY <1>1, ThreadIsOK DEF Thread
<1> HIDE DEF th
<1>4. ThreadAsks(t)
  BY <1>2, <1>3, ReplaceAsks, OthersKept DEF AskedInv
<1>5. JobsComplete
  BY <1>1 DEF JobsComplete
<1> QED BY <1>2, <1>4, <1>5, NothingAsked, OthersKept, AskedMove

LEMMA UndertakerAsks ==
  ASSUME TypeInv, TypeInv', AskedInv, NEW t \in Threads, StartRun(t) \/ Visit(t) \/ EndRun(t)
  PROVE  AskedInv'
<1>1. UNCHANGED <<jobs, shown, passed>>
  BY DEF StartRun, Visit, EndRun, observers
<1>2. ASSUME NEW th, threads' = [threads EXCEPT ![t] = th], ~Asks(th)
      PROVE  ThreadAsks(t)
  BY <1>1, <1>2, ReplaceAsks, OthersKept
<1>3. CASE StartRun(t)
  <2> DEFINE th == [Idle EXCEPT !.pc = "visit", !.phones = {r.wha : r \in convs}]
  <2>1. threads' = [threads EXCEPT ![t] = th] /\ ~Asks(th)
    BY <1>3 DEF StartRun, Asks, Idle
  <2> HIDE DEF th
  <2>2. ThreadAsks(t)
    BY <1>2, <2>1
  <2> QED BY <1>1, <2>2, NothingAsked, OthersKept, AskedMove
<1>4. CASE Visit(t)
  <2> DEFINE rest(u) == [Idle EXCEPT !.pc = "visit", !.phones = threads[t].phones \ {u}]
             next(u) == IF IsOld(LastConversation(u))
                        THEN [rest(u) EXCEPT !.pc = "bury", !.conv = LastConversation(u)]
                        ELSE rest(u)
  <2>1. PICK u \in threads[t].phones : threads' = [threads EXCEPT ![t] = next(u)]
    BY <1>4 DEF Visit
  <2> DEFINE th == next(u)
  <2>2. threads' = [threads EXCEPT ![t] = th] /\ ~Asks(th)
    BY <2>1 DEF Asks, Idle
  <2> HIDE DEF th
  <2>3. ThreadAsks(t)
    BY <1>2, <2>2
  <2> QED BY <1>1, <2>3, NothingAsked, OthersKept, AskedMove
<1>5. CASE EndRun(t)
  <2>1. ThreadAsks(t)
    BY <1>1, <1>5, EndAsks, OthersKept DEF EndRun
  <2> QED BY <1>1, <2>1, NothingAsked, OthersKept, AskedMove
<1> QED BY <1>3, <1>4, <1>5

LEMMA InitAsks == Init => AskedInv
<1> SUFFICES ASSUME Init PROVE AskedInv
  OBVIOUS
<1>1. ~Asks(Idle)
  BY DEF Asks, Idle
<1>2. \A u \in Users : ShownEarned(u)
  BY OthersAreNoSuccess DEF Init, ShownEarned
<1> QED BY <1>1, <1>2 DEF Init, AskedInv

LEMMA AskedStep == AskedInv /\ PathInv /\ TypeInv /\ TypeInv' /\ [Next]_vars => AskedInv'
<1> SUFFICES ASSUME AskedInv, PathInv, TypeInv, TypeInv', [Next]_vars PROVE AskedInv'
  OBVIOUS
<1>1. ASSUME NEW t \in Handlers, NEW u \in Users, NEW m \in Sendable, NewMessage(t, u, m)
      PROVE  AskedInv'
  BY <1>1, NewMessageAsks
<1>2. ASSUME NEW t \in Workers, TakeJob(t)
      PROVE  AskedInv'
  BY <1>2, TakeJobAsks DEF Threads
<1>3. ASSUME NEW t \in Undertakers, StartRun(t)
      PROVE  AskedInv'
  BY <1>3, UndertakerAsks DEF Threads
<1>4. ASSUME NEW t \in Threads, Resume(t)
      PROVE  AskedInv'
  BY <1>4, JudgeAsks, HistoryAsks, EmitAsks, PushAsks, BackAsks, AnnounceAsks, UndertakerAsks,
     QuietAsks DEF Resume
<1>5. ASSUME NEW u \in Users, FiveMinutesPass(u)
      PROVE  AskedInv'
  BY <1>5 DEF FiveMinutesPass, AskedInv, Complete, ShownEarned, observers
<1>6. CASE Crash
  <2>1. \A t \in Threads : ~Asks(threads'[t])
    BY <1>6 DEF Crash, Asks, Idle
  <2>2. UNCHANGED <<jobs, shown, passed>>
    BY <1>6 DEF Crash, observers
  <2> QED BY <2>1, <2>2 DEF AskedInv, Asks, Complete, ShownEarned
<1>7. CASE UNCHANGED vars
  BY <1>7 DEF vars, observers, AskedInv, Asks, Complete, ShownEarned
<1> QED BY <1>1, <1>2, <1>3, <1>4, <1>5, <1>6, <1>7 DEF Next

(* Yango is asked only for a user who has answered every question of the   *)
(* flow, and nobody is told otherwise that it was done                     *)
(* (push...ToQueue, handleCreateYangoProfile, handleCreateYangoCar,        *)
(* handleUpdateYangoDriverInfo).                                           *)
THEOREM YangoEarned == Spec => []YangoIsEarned
<1>1. AskedInv => YangoIsEarned
  BY DEF AskedInv, Complete, ShownEarned, YangoIsEarned
<1> QED BY <1>1, TypeInvariant, PathInvariant, InitAsks, AskedStep, PTL DEF Spec
=============================================================================
