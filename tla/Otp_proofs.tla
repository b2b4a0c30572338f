----------------------------- MODULE Otp_proofs -----------------------------
(***************************************************************************)
(* Proofs about Otp, for any users, numbers, codes, handlers and bounds.   *)
(***************************************************************************)
EXTENDS Otp, SequenceTheorems, TLAPS

Thread == [pc : Labels, user : Users \cup {None}, phone : Phones \cup {None},
           code : Codes \cup {None}, reply : Replies]

(***************************************************************************)
(* What a handler carries at each of its labels.                           *)
(***************************************************************************)
Numbering == {"number", "save", "generate", "sms"}
Verifying == {"verify", "renew", "renewSms", "accept"}

ThreadOK(th) ==
  /\ th.pc = "idle" => th.user = None
  /\ th.pc # "idle" => th.user \in Users
  /\ th.pc \in Numbering \cup Verifying => th.phone \in Phones
  /\ th.pc \in Verifying \cup {"code"} => th.code \in Codes

TypeInv == TypeOK /\ \A t \in Handlers : ThreadOK(threads[t])

LEMMA IdleOK == Idle \in Thread /\ ThreadOK(Idle)
BY DEF Idle, Thread, ThreadOK, Labels, Replies, Numbering, Verifying

LEMMA ThreadIsOK ==
  ASSUME TypeInv, NEW t \in Handlers
  PROVE  threads[t] \in Thread /\ ThreadOK(threads[t])
BY DEF TypeInv, TypeOK, Thread

(* Replacing one handler by a well-formed one.                             *)
LEMMA OneThread ==
  ASSUME TypeInv, NEW t \in Handlers, NEW th \in Thread, ThreadOK(th),
         threads' = [threads EXCEPT ![t] = th]
  PROVE  /\ threads' \in [Handlers -> Thread]
         /\ \A s \in Handlers : ThreadOK(threads'[s])
<1>1. threads \in [Handlers -> Thread]
  BY DEF TypeInv, TypeOK, Thread
<1>2. \A s \in Handlers : threads'[s] = IF s = t THEN th ELSE threads[s]
  BY <1>1
<1> QED BY <1>1, <1>2 DEF TypeInv

LEMMA TypeFromThreads ==
  ASSUME threads' \in [Handlers -> Thread], \A s \in Handlers : ThreadOK(threads'[s]),
         now' \in 0..MaxMinutes,
         codes' \in Seq([phone : Phones, code : Codes, expires : Nat]),
         stage' \in [Users -> {"number", "code", "verified"}],
         numbers' \in [Users -> SUBSET Phones],
         told' \in [Users -> Replies],
         registered' \in [Users -> Phones \cup {None}],
         jobs' \in [Users -> 0..MaxJobs],
         given' \in [Users -> SUBSET Phones],
         proved' \in [Users -> SUBSET Phones]
  PROVE  TypeInv'
BY DEF TypeInv, TypeOK, Thread, ThreadOK

LEMMA StopType ==
  ASSUME TypeInv, NEW t \in Handlers, Stop(t)
  PROVE  threads' \in [Handlers -> Thread] /\ \A s \in Handlers : ThreadOK(threads'[s])
BY IdleOK, OneThread DEF Stop

LEMMA GotoType ==
  ASSUME TypeInv, NEW t \in Handlers, NEW pc \in Labels, Goto(t, pc),
         ThreadOK([threads[t] EXCEPT !.pc = pc])
  PROVE  threads' \in [Handlers -> Thread] /\ \A s \in Handlers : ThreadOK(threads'[s])
<1> DEFINE th == [threads[t] EXCEPT !.pc = pc]
<1>1. th \in Thread
  BY ThreadIsOK DEF Thread
<1>2. threads' = [threads EXCEPT ![t] = th]
  BY DEF Goto
<1> HIDE DEF th
<1> QED BY <1>1, <1>2, OneThread DEF th

LEMMA RefuseType ==
  ASSUME TypeInv, NEW t \in Handlers, NEW reply \in Replies, GotoRefuse(t, reply),
         threads[t].user \in Users
  PROVE  threads' \in [Handlers -> Thread] /\ \A s \in Handlers : ThreadOK(threads'[s])
<1> DEFINE th == [threads[t] EXCEPT !.pc = "refuse", !.reply = reply]
<1>1. th \in Thread
  BY ThreadIsOK DEF Thread, Labels
<1>2. threads' = [threads EXCEPT ![t] = th]
  BY DEF GotoRefuse
<1>3. ThreadOK(th)
  BY ThreadIsOK DEF ThreadOK, Thread, Numbering, Verifying
<1> HIDE DEF th
<1> QED BY <1>1, <1>2, <1>3, OneThread

LEMMA ReceiveType ==
  ASSUME TypeInv, NEW t \in Handlers, NEW u \in Users, NEW th \in Thread, ThreadOK(th),
         Receive(t, u, th)
  PROVE  TypeInv'
<1>1. threads' \in [Handlers -> Thread] /\ \A s \in Handlers : ThreadOK(threads'[s])
  BY OneThread DEF Receive
<1> QED BY <1>1, TypeFromThreads DEF Receive, observers, TypeInv, TypeOK

LEMMA InitType == Init => TypeInv
<1> SUFFICES ASSUME Init PROVE TypeInv
  OBVIOUS
<1>1. Idle \in Thread /\ ThreadOK(Idle)
  BY IdleOK
<1>2. "nothing" \in Replies
  BY DEF Replies
<1> QED BY <1>1, <1>2, OtpAssumption DEF Init, TypeInv, TypeOK, Thread

(* The handler of a number.                                                *)
LEMMA NumberType ==
  ASSUME TypeInv, NEW t \in Handlers,
         \/ \E u \in Users, p \in Phones : HandleNumber(t, u, p)
         \/ JudgeNumber(t) \/ SaveNumber(t)
  PROVE  TypeInv'
<1> DEFINE th == threads[t]
<1>1. th \in Thread /\ ThreadOK(th)
  BY ThreadIsOK
<1>2. ASSUME NEW u \in Users, NEW p \in Phones, HandleNumber(t, u, p)
      PROVE  TypeInv'
  <2> DEFINE new == [Idle EXCEPT !.pc = "number", !.user = u, !.phone = p]
  <2>1. new \in Thread /\ ThreadOK(new)
    BY NoNumberAssumption
    DEF Idle, Thread, ThreadOK, Labels, Replies, Numbering, Verifying
  <2>2. Receive(t, u, new)
    BY <1>2 DEF HandleNumber
  <2> HIDE DEF new
  <2> QED BY <2>1, <2>2, ReceiveType
<1>3. CASE JudgeNumber(t)
  <2>1. ThreadOK([th EXCEPT !.pc = "save"]) /\ th.user \in Users
    BY <1>1, <1>3 DEF JudgeNumber, At, ThreadOK, Thread, Numbering, Verifying
  <2>2. threads' \in [Handlers -> Thread] /\ \A s \in Handlers : ThreadOK(threads'[s])
    BY <1>3, <2>1, GotoType, RefuseType DEF JudgeNumber, Labels, Replies
  <2> QED BY <1>3, <2>2, TypeFromThreads DEF JudgeNumber, observers, TypeInv, TypeOK
<1>4. CASE SaveNumber(t)
  <2>1. ThreadOK([th EXCEPT !.pc = "generate"]) /\ th.user \in Users /\ th.phone \in Phones
    BY <1>1, <1>4 DEF SaveNumber, At, ThreadOK, Thread, Numbering, Verifying
  <2>2. threads' \in [Handlers -> Thread] /\ \A s \in Handlers : ThreadOK(threads'[s])
    BY <1>4, <2>1, GotoType DEF SaveNumber, Labels
  <2>3. /\ numbers' \in [Users -> SUBSET Phones]
        /\ given' \in [Users -> SUBSET Phones]
        /\ stage' \in [Users -> {"number", "code", "verified"}]
        /\ told' \in [Users -> Replies]
    BY <1>4, <2>1 DEF SaveNumber, User, Tell, Replies, TypeInv, TypeOK
  <2> QED BY <1>4, <2>2, <2>3, TypeFromThreads DEF SaveNumber, TypeInv, TypeOK
<1> QED BY <1>2, <1>3, <1>4

(* generateAndSendOtp.                                                     *)
LEMMA GenerateType ==
  ASSUME TypeInv, NEW t \in Handlers, Generate(t) \/ SendSms(t)
  PROVE  TypeInv'
<1> DEFINE th == threads[t]
<1>1. th \in Thread /\ ThreadOK(th)
  BY ThreadIsOK
<1>2. CASE Generate(t)
  <2> DEFINE pc == IF At(t, "generate") THEN "sms" ELSE "renewSms"
  <2>1. ThreadOK([th EXCEPT !.pc = pc]) /\ th.phone \in Phones /\ pc \in Labels
    BY <1>1, <1>2 DEF Generate, At, ThreadOK, Thread, Numbering, Verifying, Labels
  <2>2. Goto(t, pc)
    BY <1>2 DEF Generate
  <2> HIDE DEF pc
  <2>3. threads' \in [Handlers -> Thread] /\ \A s \in Handlers : ThreadOK(threads'[s])
    BY <2>1, <2>2, GotoType
  <2>4. codes' \in Seq([phone : Phones, code : Codes, expires : Nat])
    <3>1. now \in Nat /\ codes \in Seq([phone : Phones, code : Codes, expires : Nat])
      BY OtpAssumption DEF TypeInv, TypeOK
    <3>2. PICK c \in Codes : codes' = Append(codes, [phone |-> th.phone, code |-> c,
                                                    expires |-> now + Validity])
      BY <1>2 DEF Generate
    <3>3. [phone |-> th.phone, code |-> c, expires |-> now + Validity]
            \in [phone : Phones, code : Codes, expires : Nat]
      BY <2>1, <3>1 DEF Validity
    <3> QED BY <3>1, <3>2, <3>3, AppendProperties
  <2> QED BY <1>2, <2>3, <2>4, TypeFromThreads DEF Generate, observers, TypeInv, TypeOK
<1>3. CASE SendSms(t)
  <2>1. ThreadOK([th EXCEPT !.pc = "refuse"]) /\ th.user \in Users
    BY <1>1, <1>3 DEF SendSms, At, ThreadOK, Thread, Numbering, Verifying
  <2>2. threads' \in [Handlers -> Thread] /\ \A s \in Handlers : ThreadOK(threads'[s])
    BY <1>3, <2>1, GotoType, RefuseType, StopType DEF SendSms, Labels, Replies
  <2> QED BY <1>3, <2>2, TypeFromThreads DEF SendSms, observers, TypeInv, TypeOK
<1> QED BY <1>2, <1>3

(* The handler of a code.                                                  *)
LEMMA CodeType ==
  ASSUME TypeInv, NEW t \in Handlers,
         \/ \E u \in Users, c \in Codes : HandleCode(t, u, c)
         \/ FindNumber(t) \/ VerifyOtp(t) \/ AcceptCode(t)
  PROVE  TypeInv'
<1> DEFINE th == threads[t]
<1>1. th \in Thread /\ ThreadOK(th)
  BY ThreadIsOK
<1>2. ASSUME NEW u \in Users, NEW c \in Codes, HandleCode(t, u, c)
      PROVE  TypeInv'
  <2> DEFINE new == [Idle EXCEPT !.pc = "code", !.user = u, !.code = c]
  <2>1. new \in Thread /\ ThreadOK(new)
    BY DEF Idle, Thread, ThreadOK, Labels, Replies, Numbering, Verifying
  <2>2. Receive(t, u, new)
    BY <1>2 DEF HandleCode
  <2> HIDE DEF new
  <2> QED BY <2>1, <2>2, ReceiveType
<1>3. CASE FindNumber(t)
  <2>1. ASSUME NEW p \in numbers[User(t)],
               threads' = [threads EXCEPT ![t].pc = "verify", ![t].phone = p]
        PROVE  threads' \in [Handlers -> Thread] /\ \A s \in Handlers : ThreadOK(threads'[s])
    <3> DEFINE new == [th EXCEPT !.pc = "verify", !.phone = p]
    <3>1. th.user \in Users /\ p \in Phones
      BY <1>1, <1>3 DEF FindNumber, At, ThreadOK, User, TypeInv, TypeOK
    <3>2. new \in Thread
      BY <1>1, <3>1 DEF Thread, Labels
    <3>3. ThreadOK(new)
      BY <1>1, <1>3, <3>1 DEF FindNumber, At, ThreadOK, Thread, Numbering, Verifying
    <3>4. threads' = [threads EXCEPT ![t] = new]
      BY <2>1
    <3> HIDE DEF new
    <3> QED BY <3>2, <3>3, <3>4, OneThread
  <2>2. threads' \in [Handlers -> Thread] /\ \A s \in Handlers : ThreadOK(threads'[s])
    BY <1>3, <2>1, StopType DEF FindNumber
  <2> QED BY <1>3, <2>2, TypeFromThreads DEF FindNumber, observers, TypeInv, TypeOK
<1>4. CASE VerifyOtp(t)
  <2> DEFINE verdict == Verdict(th.phone, th.code)
             pc == CASE verdict = "OTP_FOUND"   -> "accept"
                     [] verdict = "OTP_EXPIRED" -> "renew"
                     [] OTHER                   -> "refuse"
             reply == IF verdict = "OTP_FOUND" THEN th.reply ELSE ReplyTo(verdict)
             new == [th EXCEPT !.pc = pc, !.reply = reply]
  <2>1. threads' = [threads EXCEPT ![t] = new]
    BY <1>4 DEF VerifyOtp
  <2>2. pc \in {"accept", "renew", "refuse"} /\ reply \in Replies
    BY <1>1 DEF ReplyTo, Replies, Thread
  <2> HIDE DEF pc, reply
  <2>3. new \in Thread
    BY <1>1, <2>2 DEF Thread, Labels
  <2>4. ThreadOK(new)
    BY <1>1, <1>4, <2>2 DEF VerifyOtp, At, ThreadOK, Thread, Numbering, Verifying
  <2> HIDE DEF new
  <2>5. threads' \in [Handlers -> Thread] /\ \A s \in Handlers : ThreadOK(threads'[s])
    BY <2>1, <2>3, <2>4, OneThread
  <2> QED BY <1>4, <2>5, TypeFromThreads DEF VerifyOtp, observers, TypeInv, TypeOK
<1>5. CASE AcceptCode(t)
  <2>1. th.user \in Users /\ th.phone \in Phones
    BY <1>1, <1>5 DEF AcceptCode, At, ThreadOK, Verifying
  <2>2. threads' \in [Handlers -> Thread] /\ \A s \in Handlers : ThreadOK(threads'[s])
    <3>1. ThreadOK([th EXCEPT !.pc = "push"])
      BY <1>1, <1>5 DEF AcceptCode, At, ThreadOK, Thread, Numbering, Verifying
    <3> QED BY <1>5, <3>1, StopType, GotoType DEF AcceptCode, Labels
  <2>3. PICK sent \in BOOLEAN :
          proved' = [proved EXCEPT ![th.user] = IF sent THEN @ \cup {th.phone} ELSE @]
    BY <1>5 DEF AcceptCode, User
  <2>4. proved' \in [Users -> SUBSET Phones]
    BY <2>1, <2>3 DEF TypeInv, TypeOK
  <2>5. /\ stage' \in [Users -> {"number", "code", "verified"}]
        /\ told' \in [Users -> Replies]
    BY <1>5, <2>1 DEF AcceptCode, User, Tell, Replies, TypeInv, TypeOK
  <2> QED BY <1>5, <2>2, <2>4, <2>5, TypeFromThreads DEF AcceptCode, TypeInv, TypeOK
<1> QED BY <1>2, <1>3, <1>4, <1>5

(* The answers that follow.                                                *)
LEMMA LaterType ==
  ASSUME TypeInv, NEW t \in Handlers,
         (\E u \in Users : HandleLater(t, u)) \/ JudgeLater(t) \/ PushJob(t)
  PROVE  TypeInv'
<1> DEFINE th == threads[t]
<1>1. th \in Thread /\ ThreadOK(th)
  BY ThreadIsOK
<1>2. ASSUME NEW u \in Users, HandleLater(t, u)
      PROVE  TypeInv'
  <2> DEFINE new == [Idle EXCEPT !.pc = "later", !.user = u]
  <2>1. new \in Thread /\ ThreadOK(new)
    BY DEF Idle, Thread, ThreadOK, Labels, Replies, Numbering, Verifying
  <2>2. Receive(t, u, new)
    BY <1>2 DEF HandleLater
  <2> HIDE DEF new
  <2> QED BY <2>1, <2>2, ReceiveType
<1>3. CASE JudgeLater(t)
  <2>1. ThreadOK([th EXCEPT !.pc = "push"]) /\ th.user \in Users
    BY <1>1, <1>3 DEF JudgeLater, At, ThreadOK, Thread, Numbering, Verifying
  <2>2. threads' \in [Handlers -> Thread] /\ \A s \in Handlers : ThreadOK(threads'[s])
    BY <1>3, <2>1, GotoType, RefuseType, StopType DEF JudgeLater, Labels, Replies
  <2> QED BY <1>3, <2>2, TypeFromThreads DEF JudgeLater, observers, TypeInv, TypeOK
<1>4. CASE PushJob(t)
  <2>1. threads' \in [Handlers -> Thread] /\ \A s \in Handlers : ThreadOK(threads'[s])
    BY <1>4, StopType DEF PushJob
  <2>2. PICK u \in Users : u = User(t)
    BY <1>1, <1>4 DEF PushJob, At, ThreadOK, User
  <2>3. jobs[u] \in 0..MaxJobs /\ jobs[u] < MaxJobs
    BY <1>4, <2>2 DEF PushJob, TypeInv, TypeOK
  <2>4. jobs[u] + 1 \in 0..MaxJobs
    BY <2>3, OtpAssumption
  <2>5. jobs' = [jobs EXCEPT ![u] = jobs[u] + 1]
    BY <1>4, <2>2 DEF PushJob
  <2>6. jobs' \in [Users -> 0..MaxJobs]
    BY <2>4, <2>5 DEF TypeInv, TypeOK
  <2> QED BY <1>4, <2>1, <2>6, TypeFromThreads DEF PushJob, observers, TypeInv, TypeOK
<1> QED BY <1>2, <1>3, <1>4

LEMMA ForgetType ==
  ASSUME TypeInv, NEW u \in Users, NEW busy, Forget(u, busy)
  PROVE  /\ numbers' \in [Users -> SUBSET Phones]
         /\ stage' \in [Users -> {"number", "code", "verified"}]
         /\ given' \in [Users -> SUBSET Phones]
         /\ proved' \in [Users -> SUBSET Phones]
BY DEF Forget, TypeInv, TypeOK

(* The end of a conversation.                                              *)
LEMMA EndType ==
  ASSUME TypeInv, \/ \E t \in Handlers : Refuse(t)
                  \/ \E u \in Users : Bury(u) \/ Register(u) \/ EndJob(u)
  PROVE  TypeInv'
<1>0. threads \in [Handlers -> Thread] /\ \A s \in Handlers : ThreadOK(threads[s])
  BY DEF TypeInv, TypeOK, Thread
<1>1. ASSUME NEW t \in Handlers, Refuse(t)
      PROVE  TypeInv'
  <2>1. User(t) \in Users /\ threads[t].reply \in Replies
    BY <1>1, ThreadIsOK DEF Refuse, At, ThreadOK, User, Thread
  <2>2. threads' \in [Handlers -> Thread] /\ \A s \in Handlers : ThreadOK(threads'[s])
    BY <1>1, StopType DEF Refuse
  <2>3. told' \in [Users -> Replies]
    BY <1>1, <2>1 DEF Refuse, Tell, TypeInv, TypeOK
  <2>4. /\ numbers' \in [Users -> SUBSET Phones]
        /\ stage' \in [Users -> {"number", "code", "verified"}]
        /\ given' \in [Users -> SUBSET Phones]
        /\ proved' \in [Users -> SUBSET Phones]
    <3>1. PICK u \in Users : u = User(t)
      BY <2>1
    <3>2. CASE UNCHANGED <<numbers, stage, observers>>
      BY <3>2 DEF observers, TypeInv, TypeOK
    <3>3. ASSUME NEW busy, Forget(u, busy)
          PROVE  /\ numbers' \in [Users -> SUBSET Phones]
                 /\ stage' \in [Users -> {"number", "code", "verified"}]
                 /\ given' \in [Users -> SUBSET Phones]
                 /\ proved' \in [Users -> SUBSET Phones]
      BY <3>3, ForgetType
    <3> QED BY <1>1, <3>1, <3>2, <3>3 DEF Refuse
  <2> QED BY <1>1, <2>2, <2>3, <2>4, TypeFromThreads DEF Refuse, TypeInv, TypeOK
<1>2. ASSUME NEW u \in Users, Bury(u)
      PROVE  TypeInv'
  <2>1. PICK busy : Forget(u, busy)
    BY <1>2 DEF Bury
  <2> QED BY <1>0, <1>2, <2>1, ForgetType, TypeFromThreads DEF Bury, TypeInv, TypeOK
<1>3. ASSUME NEW u \in Users, Register(u)
      PROVE  TypeInv'
  <2>1. registered' \in [Users -> Phones \cup {None}]
    BY <1>3 DEF Register, TypeInv, TypeOK
  <2> QED BY <1>0, <1>3, <2>1, TypeFromThreads DEF Register, observers, TypeInv, TypeOK
<1>4. ASSUME NEW u \in Users, EndJob(u)
      PROVE  TypeInv'
  <2>1. registered' \in [Users -> Phones \cup {None}]
    BY <1>4 DEF EndJob, TypeInv, TypeOK
  <2>2. PICK busy : Forget(u, busy)
    BY <1>4 DEF EndJob
  <2>3. jobs[u] \in 0..MaxJobs /\ jobs[u] > 0
    BY <1>4 DEF EndJob, TypeInv, TypeOK
  <2>4. jobs[u] - 1 \in 0..MaxJobs
    BY <2>3, OtpAssumption
  <2>5. jobs' = [jobs EXCEPT ![u] = jobs[u] - 1]
    BY <1>4 DEF EndJob
  <2>6. jobs' \in [Users -> 0..MaxJobs]
    BY <2>4, <2>5 DEF TypeInv, TypeOK
  <2>7. UNCHANGED <<now, codes, threads, told>>
    BY <1>4 DEF EndJob
  <2> QED BY <1>0, <2>1, <2>2, <2>6, <2>7, ForgetType, TypeFromThreads DEF TypeInv, TypeOK
<1> QED BY <1>1, <1>2, <1>3, <1>4

LEMMA NextType == TypeInv /\ [Next]_vars => TypeInv'
<1> SUFFICES ASSUME TypeInv, [Next]_vars PROVE TypeInv'
  OBVIOUS
<1>1. CASE Tick
  <2>1. now' \in 0..MaxMinutes
    BY <1>1, OtpAssumption DEF Tick, TypeInv, TypeOK
  <2> QED BY <1>1, <2>1 DEF Tick, observers, TypeInv, TypeOK
<1>2. CASE UNCHANGED vars
  BY <1>2 DEF vars, observers, TypeInv, TypeOK
<1> QED BY <1>1, <1>2, NumberType, GenerateType, CodeType, LaterType, EndType DEF Next

LEMMA TypeInvariant == Spec => []TypeInv
BY InitType, NextType, PTL DEF Spec

(* The codes, the rows and the replies keep their types: no handler makes  *)
(* a code without a number, and every reply is one the catalogue words.    *)
THEOREM TypeCorrect == Spec => []TypeOK
<1>1. TypeInv => TypeOK
  BY DEF TypeInv
<1> QED BY <1>1, TypeInvariant, PTL

(***************************************************************************)
(* What the handlers, the rows and the jobs of a user work with, since the *)
(* bot last forgot him with nothing under way.  A handler that still runs  *)
(* keeps the observers from beginning anew, so what it carries stays true  *)
(* of its user, whatever the others do to the conversation meanwhile.      *)
(***************************************************************************)
Sent(p, c) == \E i \in CodesOf(p) : codes[i].code = c

Carries(th) ==
  /\ th.pc \in {"generate", "sms"} \cup Verifying => th.phone \in given[th.user]
  /\ th.pc = "accept" => Sent(th.phone, th.code)
  /\ th.pc \in {"later", "push"} => proved[th.user] # {}

Holds(u) ==
  /\ numbers[u] \subseteq given[u]
  /\ proved[u] \subseteq given[u]
  /\ stage[u] = "verified" => proved[u] # {}
  /\ jobs[u] > 0 => proved[u] # {}
  /\ registered[u] # None => jobs[u] > 0 /\ registered[u] \in given[u]

HisInv ==
  /\ \A t \in Handlers : Carries(threads[t])
  /\ \A u \in Users : Holds(u)

CodesKept == \A p, c : Sent(p, c) => Sent(p, c)'
Grows(u) == given[u] \subseteq given'[u] /\ proved[u] \subseteq proved'[u]

LEMMA SameCodes == codes' = codes => CodesKept
BY DEF CodesKept, Sent, CodesOf

LEMMA SameObservers == UNCHANGED observers => \A u \in Users : Grows(u)
BY DEF observers, Grows

LEMMA CarriesKept ==
  ASSUME NEW th, ThreadOK(th), Carries(th), CodesKept, th.user \in Users => Grows(th.user)
  PROVE  Carries(th)'
<1>1. Sent(th.phone, th.code) => Sent(th.phone, th.code)'
  BY DEF CodesKept
<1>2. CASE th.pc = "idle"
  BY <1>2 DEF Carries, Verifying
<1>3. CASE th.pc # "idle"
  BY <1>1, <1>3 DEF Carries, ThreadOK, Grows
<1> QED BY <1>2, <1>3

LEMMA CarriesSame ==
  ASSUME NEW th, Carries(th)', NEW next, next = th
  PROVE  Carries(next)'
OBVIOUS

(* A step of one handler; the others may go on.                            *)
LEMMA OneCarries ==
  ASSUME TypeInv, HisInv, NEW t \in Handlers, NEW th, Carries(th)', CodesKept,
         threads' = [threads EXCEPT ![t] = th],
         \A s \in Handlers \ {t} : threads[s].user \in Users => Grows(threads[s].user)
  PROVE  \A s \in Handlers : Carries(threads[s])'
<1> SUFFICES ASSUME NEW s \in Handlers PROVE Carries(threads[s])'
  OBVIOUS
<1>1. threads'[s] = IF s = t THEN th ELSE threads[s]
  BY DEF TypeInv, TypeOK
<1>2. CASE s = t
  BY <1>1, <1>2, CarriesSame
<1>3. CASE s # t
  <2>1. Carries(threads[s])
    BY DEF HisInv
  <2>2. PICK old : old = threads[s]
    OBVIOUS
  <2>3. Carries(old)'
    BY <1>3, <2>1, <2>2, ThreadIsOK, CarriesKept
  <2> QED BY <1>1, <1>3, <2>2, <2>3, CarriesSame
<1> QED BY <1>2, <1>3

LEMMA AllCarry ==
  ASSUME TypeInv, HisInv, CodesKept, threads' = threads,
         \A s \in Handlers : threads[s].user \in Users => Grows(threads[s].user)
  PROVE  \A s \in Handlers : Carries(threads[s])'
<1> SUFFICES ASSUME NEW s \in Handlers PROVE Carries(threads[s])'
  OBVIOUS
<1>1. Carries(threads[s])
  BY DEF HisInv
<1>2. PICK old : old = threads[s]
  OBVIOUS
<1>3. Carries(old)'
  BY <1>1, <1>2, ThreadIsOK, CarriesKept
<1> QED BY <1>2, <1>3, CarriesSame

LEMMA HoldsKept ==
  ASSUME HisInv, UNCHANGED <<stage, numbers, jobs, registered, observers>>
  PROVE  \A u \in Users : Holds(u)'
BY DEF HisInv, Holds, observers

(* A step of one handler that touches neither rows nor jobs.               *)
LEMMA MovedOn ==
  ASSUME TypeInv, HisInv, NEW t \in Handlers, NEW th, Carries(th)', CodesKept,
         threads' = [threads EXCEPT ![t] = th],
         UNCHANGED <<stage, numbers, jobs, registered, observers>>
  PROVE  HisInv'
<1>1. \A s \in Handlers : Carries(threads[s])'
  BY OneCarries, SameObservers
<1>2. \A u \in Users : Holds(u)'
  BY HoldsKept
<1> QED BY <1>1, <1>2 DEF HisInv

LEMMA IdleCarries == Carries(Idle)'
BY DEF Carries, Idle, Verifying

LEMMA Stopped ==
  ASSUME TypeInv, HisInv, NEW t \in Handlers, Stop(t), CodesKept,
         UNCHANGED <<stage, numbers, jobs, registered, observers>>
  PROVE  HisInv'
BY IdleCarries, MovedOn DEF Stop

LEMMA Refused ==
  ASSUME TypeInv, HisInv, NEW t \in Handlers, NEW reply, GotoRefuse(t, reply), CodesKept,
         UNCHANGED <<stage, numbers, jobs, registered, observers>>
  PROVE  HisInv'
<1>0. PICK th : th = [threads[t] EXCEPT !.pc = "refuse", !.reply = reply]
  OBVIOUS
<1>1. threads' = [threads EXCEPT ![t] = th]
  BY <1>0 DEF GotoRefuse
<1>2. th.pc = "refuse"
  BY <1>0, ThreadIsOK DEF Thread
<1>3. Carries(th)'
  BY <1>2 DEF Carries, Verifying
<1> QED BY <1>1, <1>3, MovedOn

(* Moving to a label with what the handler has.                            *)
LEMMA Went ==
  ASSUME TypeInv, HisInv, NEW t \in Handlers, NEW pc, Goto(t, pc), CodesKept,
         UNCHANGED <<stage, numbers, jobs, registered, observers>>,
         NEW from, At(t, from),
         \/ pc \in {"number", "save", "code", "refuse"}
         \/ from = "later" /\ pc = "push"
         \/ from \in {"generate", "sms", "renew"} /\ pc \in {"sms", "renewSms"}
  PROVE  HisInv'
<1>0. PICK th : th = [threads[t] EXCEPT !.pc = pc]
  OBVIOUS
<1>1. threads' = [threads EXCEPT ![t] = th]
  BY <1>0 DEF Goto
<1>2. th.pc = pc /\ th.user = threads[t].user /\ th.phone = threads[t].phone
  BY <1>0, ThreadIsOK DEF Thread
<1>3. Carries(threads[t]) /\ threads[t].pc = from
  BY DEF HisInv, At
<1>4. Carries(th)'
  BY <1>2, <1>3 DEF Carries, Verifying, observers
<1> QED BY <1>1, <1>4, MovedOn

LEMMA Received ==
  ASSUME TypeInv, HisInv, NEW t \in Handlers, NEW u \in Users, NEW th,
         Receive(t, u, th), th.user = u, th.pc \in {"number", "code", "later"},
         th.pc = "later" => stage[u] = "verified"
  PROVE  HisInv'
<1>1. Holds(u)
  BY DEF HisInv
<1>2. Carries(th)'
  BY <1>1 DEF Carries, Verifying, Holds, Receive, observers
<1> QED BY <1>2, SameCodes, MovedOn DEF Receive

LEMMA NumberHis ==
  ASSUME TypeInv, HisInv, NEW t \in Handlers,
         \/ \E u \in Users, p \in Phones : HandleNumber(t, u, p)
         \/ JudgeNumber(t) \/ SaveNumber(t)
  PROVE  HisInv'
<1>1. ASSUME NEW u \in Users, NEW p \in Phones, HandleNumber(t, u, p)
      PROVE  HisInv'
  <2> DEFINE new == [Idle EXCEPT !.pc = "number", !.user = u, !.phone = p]
  <2>1. new.user = u /\ new.pc = "number" /\ Receive(t, u, new)
    BY <1>1 DEF Idle, HandleNumber
  <2> HIDE DEF new
  <2> QED BY <2>1, Received
<1>2. CASE JudgeNumber(t)
  BY <1>2, SameCodes, Went, Refused DEF JudgeNumber
<1>3. CASE SaveNumber(t)
  <2>0. PICK th, new : th = threads[t] /\ new = [th EXCEPT !.pc = "generate"]
    OBVIOUS
  <2>1. th \in Thread /\ ThreadOK(th) /\ th.pc = "save"
    BY <1>3, <2>0, ThreadIsOK DEF SaveNumber, At
  <2>2. PICK u \in Users : u = th.user
    BY <2>1 DEF ThreadOK
  <2>3. /\ given'[u] = given[u] \cup {th.phone}
        /\ numbers'[u] = numbers[u] \cup {th.phone}
        /\ stage'[u] = "code"
        /\ UNCHANGED <<proved, jobs, registered>>
        /\ \A v \in Users \ {u} : /\ given'[v] = given[v] /\ numbers'[v] = numbers[v]
                                 /\ stage'[v] = stage[v]
    BY <1>3, <2>0, <2>2 DEF SaveNumber, User, TypeInv, TypeOK
  <2>4. \A v \in Users : Grows(v)
    BY <2>3 DEF Grows
  <2>5. new.pc = "generate" /\ new.user = u /\ new.phone = th.phone
    BY <2>0, <2>1, <2>2 DEF Thread
  <2>6. threads' = [threads EXCEPT ![t] = new]
    BY <1>3, <2>0 DEF SaveNumber, Goto
  <2>7. Carries(new)'
    BY <2>3, <2>5 DEF Carries
  <2>8. \A s \in Handlers : Carries(threads[s])'
    BY <1>3, <2>4, <2>6, <2>7, SameCodes, OneCarries DEF SaveNumber
  <2>9. ASSUME NEW v \in Users
        PROVE  Holds(v)'
    <3>1. Holds(v)
      BY DEF HisInv
    <3>2. CASE v = u
      BY <2>3, <3>1, <3>2 DEF Holds
    <3>3. CASE v # u
      BY <2>3, <3>1, <3>3 DEF Holds
    <3> QED BY <3>2, <3>3
  <2> QED BY <2>8, <2>9 DEF HisInv
<1> QED BY <1>1, <1>2, <1>3

(* No code is ever deleted.                                                *)
LEMMA AppendKeeps ==
  ASSUME TypeInv, NEW row \in [phone : Phones, code : Codes, expires : Nat],
         codes' = Append(codes, row)
  PROVE  CodesKept
<1>1. codes \in Seq([phone : Phones, code : Codes, expires : Nat])
  BY DEF TypeInv, TypeOK
<1>2. /\ DOMAIN codes = 1..Len(codes) /\ Len(codes) \in Nat
      /\ DOMAIN codes' = 1..(Len(codes) + 1)
      /\ \A i \in 1..Len(codes) : codes'[i] = codes[i]
  BY <1>1, AppendProperties
<1> QED BY <1>2 DEF CodesKept, Sent, CodesOf

LEMMA GenerateHis ==
  ASSUME TypeInv, HisInv, NEW t \in Handlers, Generate(t) \/ SendSms(t)
  PROVE  HisInv'
<1>1. CASE Generate(t)
  <2> DEFINE th == threads[t]
             pc == IF At(t, "generate") THEN "sms" ELSE "renewSms"
  <2>1. CodesKept
    <3>1. now \in Nat /\ th.phone \in Phones
      BY <1>1, ThreadIsOK, OtpAssumption
      DEF TypeInv, TypeOK, Generate, ThreadOK, Numbering, Verifying
    <3>2. PICK c \in Codes : codes' = Append(codes, [phone |-> th.phone, code |-> c,
                                                    expires |-> now + Validity])
      BY <1>1 DEF Generate
    <3>3. [phone |-> th.phone, code |-> c, expires |-> now + Validity]
            \in [phone : Phones, code : Codes, expires : Nat]
      BY <3>1 DEF Validity
    <3> QED BY <3>2, <3>3, AppendKeeps
  <2>2. /\ Goto(t, pc) /\ pc \in {"sms", "renewSms"}
        /\ UNCHANGED <<stage, numbers, jobs, registered, observers>>
    BY <1>1 DEF Generate
  <2>3. PICK from \in {"generate", "renew"} : At(t, from)
    BY <1>1 DEF Generate, At
  <2> HIDE DEF pc
  <2> QED BY <2>1, <2>2, <2>3, Went
<1>2. CASE SendSms(t)
  <2>1. CodesKept /\ UNCHANGED <<stage, numbers, jobs, registered, observers>>
    BY <1>2, SameCodes DEF SendSms
  <2>2. CASE Goto(t, "refuse") /\ At(t, "renewSms")
    BY <2>1, <2>2, Went
  <2> QED BY <1>2, <2>1, <2>2, Refused, Stopped DEF SendSms
<1> QED BY <1>1, <1>2

(* A code is only found right if it was sent to the number.                *)
LEMMA FoundIsSent ==
  ASSUME NEW p, NEW c, Verdict(p, c) = "OTP_FOUND"
  PROVE  Sent(p, c)
<1> DEFINE last == {i \in CodesOf(p) : \A j \in CodesOf(p) : j <= i}
<1>1. last # {} /\ \A i \in last : codes[i].code = c
  BY DEF Verdict
<1>2. last \subseteq CodesOf(p)
  OBVIOUS
<1> HIDE DEF last
<1> QED BY <1>1, <1>2 DEF Sent

LEMMA FindHis ==
  ASSUME TypeInv, HisInv, NEW t \in Handlers, FindNumber(t) \/ VerifyOtp(t)
  PROVE  HisInv'
<1> DEFINE th == threads[t]
<1>0. CodesKept /\ UNCHANGED <<stage, numbers, jobs, registered, observers>>
  BY SameCodes DEF FindNumber, VerifyOtp
<1>1. th \in Thread /\ ThreadOK(th) /\ Carries(th)
  BY ThreadIsOK DEF HisInv
<1>2. CASE FindNumber(t)
  <2>1. ASSUME NEW p \in numbers[User(t)],
               threads' = [threads EXCEPT ![t].pc = "verify", ![t].phone = p]
        PROVE  HisInv'
    <3>0. PICK new : new = [th EXCEPT !.pc = "verify", !.phone = p]
      OBVIOUS
    <3>1. PICK u \in Users : u = th.user
      BY <1>1, <1>2 DEF FindNumber, At, ThreadOK
    <3>2. p \in given[u]
      BY <2>1, <3>1 DEF HisInv, Holds, User
    <3>3. new.pc = "verify" /\ new.user = u /\ new.phone = p
      BY <1>1, <3>0, <3>1 DEF Thread
    <3>4. threads' = [threads EXCEPT ![t] = new]
      BY <2>1, <3>0
    <3>5. Carries(new)'
      BY <1>0, <3>2, <3>3 DEF Carries, observers
    <3> QED BY <1>0, <3>4, <3>5, MovedOn
  <2> QED BY <1>0, <1>2, <2>1, Stopped DEF FindNumber
<1>3. CASE VerifyOtp(t)
  <2> DEFINE verdict == Verdict(th.phone, th.code)
             pc == CASE verdict = "OTP_FOUND"   -> "accept"
                     [] verdict = "OTP_EXPIRED" -> "renew"
                     [] OTHER                   -> "refuse"
             reply == IF verdict = "OTP_FOUND" THEN th.reply ELSE ReplyTo(verdict)
             new == [th EXCEPT !.pc = pc, !.reply = reply]
  <2>1. threads' = [threads EXCEPT ![t] = new]
    BY <1>3 DEF VerifyOtp
  <2>2. /\ pc \in {"accept", "renew", "refuse"}
        /\ pc = "accept" => Sent(th.phone, th.code)
    BY FoundIsSent
  <2>3. th.phone \in given[th.user]
    BY <1>1, <1>3 DEF VerifyOtp, At, Carries, Verifying
  <2> HIDE DEF pc, reply
  <2>4. PICK next, p, c, u : next = new /\ p = th.phone /\ c = th.code /\ u = th.user
    OBVIOUS
  <2>5. next.user = u /\ next.phone = p /\ next.code = c /\ next.pc = pc
    BY <1>1, <2>4 DEF Thread
  <2> HIDE DEF new
  <2>6. pc = "accept" => Sent(p, c)'
    BY <1>0, <2>2, <2>4 DEF CodesKept
  <2>7. PICK label : label = pc
    OBVIOUS
  <2>8. p \in given'[u]
    BY <1>0, <2>3, <2>4 DEF observers
  <2>9. next.pc = label /\ label \in {"accept", "renew", "refuse"}
        /\ (label = "accept" => Sent(p, c)')
    BY <2>2, <2>5, <2>6, <2>7
  <2>10. Carries(next)'
    BY <2>5, <2>8, <2>9 DEF Carries
  <2> QED BY <1>0, <2>1, <2>4, <2>10, MovedOn
<1> QED BY <1>2, <1>3

LEMMA CodeHis ==
  ASSUME TypeInv, HisInv, NEW t \in Handlers, NEW u \in Users, NEW c \in Codes,
         HandleCode(t, u, c)
  PROVE  HisInv'
<1> DEFINE new == [Idle EXCEPT !.pc = "code", !.user = u, !.code = c]
<1>1. new.user = u /\ new.pc = "code" /\ Receive(t, u, new)
  BY DEF Idle, HandleCode
<1> HIDE DEF new
<1> QED BY <1>1, Received

LEMMA AcceptHis ==
  ASSUME TypeInv, HisInv, NEW t \in Handlers, AcceptCode(t)
  PROVE  HisInv'
<1> DEFINE th == threads[t]
<1>1. th \in Thread /\ ThreadOK(th) /\ Carries(th) /\ th.pc = "accept"
  BY ThreadIsOK DEF HisInv, AcceptCode, At
<1>2. PICK u \in Users : u = th.user
  BY <1>1 DEF ThreadOK
<1>3. th.phone \in given[u] /\ Sent(th.phone, th.code)
  BY <1>1, <1>2 DEF Carries, Verifying
<1>4. proved' = [proved EXCEPT ![u] = @ \cup {th.phone}]
  BY <1>2, <1>3 DEF AcceptCode, Sent, User
<1>5. /\ proved'[u] = proved[u] \cup {th.phone}
      /\ UNCHANGED <<given, numbers, jobs, registered>>
      /\ \A v \in Users \ {u} : proved'[v] = proved[v] /\ stage'[v] = stage[v]
  BY <1>2, <1>4 DEF AcceptCode, User, TypeInv, TypeOK
<1>6. \A v \in Users : Grows(v)
  BY <1>5 DEF Grows
<1>7. CodesKept
  BY SameCodes DEF AcceptCode
<1>8. \A s \in Handlers : Carries(threads[s])'
  <2>1. CASE Stop(t)
    BY <1>6, <1>7, <2>1, IdleCarries, OneCarries DEF Stop
  <2>2. CASE Goto(t, "push")
    <3>0. PICK new : new = [th EXCEPT !.pc = "push"]
      OBVIOUS
    <3>1. new.pc = "push" /\ new.user = u
      BY <1>1, <1>2, <3>0 DEF Thread
    <3>2. threads' = [threads EXCEPT ![t] = new]
      BY <2>2, <3>0 DEF Goto
    <3>3. Carries(new)'
      BY <1>5, <3>1 DEF Carries, Verifying
    <3> QED BY <1>6, <1>7, <3>2, <3>3, OneCarries
  <2> QED BY <2>1, <2>2 DEF AcceptCode
<1>9. ASSUME NEW v \in Users
      PROVE  Holds(v)'
  <2>1. Holds(v)
    BY DEF HisInv
  <2>2. CASE v = u
    BY <1>3, <1>5, <2>1, <2>2 DEF Holds
  <2>3. CASE v # u
    BY <1>5, <2>1, <2>3 DEF Holds
  <2> QED BY <2>2, <2>3
<1> QED BY <1>8, <1>9 DEF HisInv

LEMMA LaterHis ==
  ASSUME TypeInv, HisInv, NEW t \in Handlers,
         (\E u \in Users : HandleLater(t, u)) \/ JudgeLater(t) \/ PushJob(t)
  PROVE  HisInv'
<1>1. ASSUME NEW u \in Users, HandleLater(t, u)
      PROVE  HisInv'
  <2> DEFINE new == [Idle EXCEPT !.pc = "later", !.user = u]
  <2>1. new.user = u /\ new.pc = "later" /\ Receive(t, u, new) /\ stage[u] = "verified"
    BY <1>1 DEF Idle, HandleLater
  <2> HIDE DEF new
  <2> QED BY <2>1, Received
<1>2. CASE JudgeLater(t)
  BY <1>2, SameCodes, Went, Refused, Stopped DEF JudgeLater
<1>3. CASE PushJob(t)
  <2>1. /\ threads[t].pc = "push" /\ Carries(threads[t])
        /\ UNCHANGED <<codes, stage, numbers, registered, observers>>
        /\ threads' = [threads EXCEPT ![t] = Idle]
    BY <1>3 DEF PushJob, At, HisInv, Stop
  <2>2. PICK u \in Users : u = threads[t].user
    BY <2>1, ThreadIsOK DEF ThreadOK
  <2>3. proved[u] # {}
    BY <2>1, <2>2 DEF Carries
  <2>4. \A s \in Handlers : Carries(threads[s])'
    BY <2>1, IdleCarries, SameCodes, SameObservers, OneCarries
  <2>5. /\ jobs[u] \in Nat /\ jobs'[u] = jobs[u] + 1
        /\ \A v \in Users \ {u} : jobs'[v] = jobs[v]
    BY <1>3, <2>2, OtpAssumption DEF PushJob, User, TypeInv, TypeOK
  <2>6. jobs'[u] > 0
    BY <2>5
  <2>7. ASSUME NEW v \in Users
        PROVE  Holds(v)'
    <3>1. Holds(v)
      BY DEF HisInv
    <3>2. CASE v = u
      BY <2>1, <2>3, <2>6, <3>1, <3>2 DEF Holds, observers
    <3>3. CASE v # u
      BY <2>1, <2>5, <3>1, <3>3 DEF Holds, observers
    <3> QED BY <3>2, <3>3
  <2> QED BY <2>4, <2>7 DEF HisInv
<1> QED BY <1>1, <1>2, <1>3

(* Forgetting a user who has nothing else under way begins anew.           *)
LEMMA Forgotten ==
  ASSUME TypeInv, HisInv, NEW u \in Users, NEW busy \in BOOLEAN, Forget(u, busy),
         jobs' \in [Users -> Nat], \A v \in Users \ {u} : jobs'[v] = jobs[v],
         jobs'[u] > 0 => jobs[u] > 0,
         \A v \in Users : registered'[v] \in {registered[v], None},
         registered'[u] # None => jobs'[u] > 0,
         jobs'[u] > 0 => busy
  PROVE  /\ \A v \in Users : Holds(v)'
         /\ \A v \in Users : v # u \/ busy => Grows(v)
<1>1. /\ numbers'[u] = {} /\ stage'[u] = "number"
      /\ \A v \in Users \ {u} : /\ numbers'[v] = numbers[v] /\ stage'[v] = stage[v]
                               /\ given'[v] = given[v] /\ proved'[v] = proved[v]
      /\ busy => given' = given /\ proved' = proved
      /\ ~busy => given'[u] = {} /\ proved'[u] = {}
  BY DEF Forget, TypeInv, TypeOK
<1>2. \A v \in Users : v # u \/ busy => Grows(v)
  BY <1>1 DEF Grows
<1>3. ASSUME NEW v \in Users
      PROVE  Holds(v)'
  <2>1. Holds(v)
    BY DEF HisInv
  <2>2. CASE v = u /\ busy
    BY <1>1, <2>1, <2>2 DEF Holds
  <2>3. CASE v = u /\ ~busy
    BY <1>1, <2>1, <2>3 DEF Holds
  <2>4. CASE v # u
    BY <1>1, <2>1, <2>4 DEF Holds
  <2> QED BY <2>2, <2>3, <2>4
<1> QED BY <1>2, <1>3

LEMMA RefuseHis ==
  ASSUME TypeInv, HisInv, NEW t \in Handlers, Refuse(t)
  PROVE  HisInv'
<1>1. PICK u \in Users : u = User(t)
  BY ThreadIsOK DEF Refuse, At, ThreadOK, User
<1>2. CASE UNCHANGED <<numbers, stage, observers>>
  BY <1>2, SameCodes, Stopped DEF Refuse
<1>3. CASE Forget(u, Handling(u, Handlers \ {t}) \/ jobs[u] > 0)
  <2> DEFINE busy == Handling(u, Handlers \ {t}) \/ jobs[u] > 0
  <2>1. busy \in BOOLEAN /\ (jobs[u] > 0 => busy) /\ Forget(u, busy)
    BY <1>3 DEF Handling
  <2>2. \A s \in Handlers \ {t} : threads[s].user = u => busy
    BY DEF Handling, User
  <2>3. UNCHANGED <<codes, jobs, registered>> /\ threads' = [threads EXCEPT ![t] = Idle]
    BY DEF Refuse, Stop
  <2>4. jobs \in [Users -> Nat] /\ (registered[u] # None => jobs[u] > 0)
    BY OtpAssumption DEF TypeInv, TypeOK, HisInv, Holds
  <2> HIDE DEF busy
  <2>5. /\ \A v \in Users : Holds(v)'
        /\ \A v \in Users : v # u \/ busy => Grows(v)
    <3>1. /\ jobs' \in [Users -> Nat] /\ \A v \in Users \ {u} : jobs'[v] = jobs[v]
          /\ jobs'[u] > 0 => jobs[u] > 0
          /\ \A v \in Users : registered'[v] \in {registered[v], None}
          /\ registered'[u] # None => jobs'[u] > 0
          /\ jobs'[u] > 0 => busy
      BY <2>1, <2>3, <2>4
    <3> QED BY <2>1, <3>1, Forgotten
  <2>6. \A s \in Handlers \ {t} : threads[s].user \in Users => Grows(threads[s].user)
    BY <2>2, <2>5
  <2>7. \A s \in Handlers : Carries(threads[s])'
    BY <2>3, <2>6, IdleCarries, SameCodes, OneCarries
  <2> QED BY <2>5, <2>7 DEF HisInv
<1> QED BY <1>1, <1>2, <1>3 DEF Refuse

LEMMA BuryHis ==
  ASSUME TypeInv, HisInv, NEW u \in Users, Bury(u)
  PROVE  HisInv'
<1> DEFINE busy == Handling(u, Handlers) \/ jobs[u] > 0
<1>1. busy \in BOOLEAN /\ (jobs[u] > 0 => busy) /\ Forget(u, busy)
  BY DEF Bury, Handling
<1>2. \A s \in Handlers : threads[s].user = u => busy
  BY DEF Handling, User
<1>3. UNCHANGED <<codes, threads, jobs, registered>>
  BY DEF Bury
<1>4. jobs \in [Users -> Nat] /\ (registered[u] # None => jobs[u] > 0)
  BY OtpAssumption DEF TypeInv, TypeOK, HisInv, Holds
<1> HIDE DEF busy
<1>5. /\ \A v \in Users : Holds(v)'
      /\ \A v \in Users : v # u \/ busy => Grows(v)
  <2>1. /\ jobs' \in [Users -> Nat] /\ \A v \in Users \ {u} : jobs'[v] = jobs[v]
        /\ jobs'[u] > 0 => jobs[u] > 0
        /\ \A v \in Users : registered'[v] \in {registered[v], None}
        /\ registered'[u] # None => jobs'[u] > 0
        /\ jobs'[u] > 0 => busy
    BY <1>1, <1>3, <1>4
  <2> QED BY <1>1, <2>1, Forgotten
<1>6. \A s \in Handlers : threads[s].user \in Users => Grows(threads[s].user)
  BY <1>2, <1>5
<1>7. \A s \in Handlers : Carries(threads[s])'
  BY <1>3, <1>6, SameCodes, AllCarry
<1> QED BY <1>5, <1>7 DEF HisInv

LEMMA RegisterHis ==
  ASSUME TypeInv, HisInv, NEW u \in Users, Register(u)
  PROVE  HisInv'
<1>1. PICK p \in numbers[u] : registered' = [registered EXCEPT ![u] = p]
  BY DEF Register
<1>2. registered'[u] = p /\ \A v \in Users \ {u} : registered'[v] = registered[v]
  BY <1>1 DEF TypeInv, TypeOK
<1>3. UNCHANGED <<codes, stage, numbers, threads, jobs, observers>> /\ jobs[u] > 0
  BY DEF Register
<1>4. \A s \in Handlers : Carries(threads[s])'
  BY <1>3, SameCodes, SameObservers, AllCarry
<1>5. ASSUME NEW v \in Users
      PROVE  Holds(v)'
  <2>1. Holds(v)
    BY DEF HisInv
  <2>2. CASE v = u
    BY <1>2, <1>3, <2>1, <2>2 DEF Holds, observers
  <2>3. CASE v # u
    BY <1>2, <1>3, <2>1, <2>3 DEF Holds, observers
  <2> QED BY <2>2, <2>3
<1> QED BY <1>4, <1>5 DEF HisInv

LEMMA EndJobHis ==
  ASSUME TypeInv, HisInv, NEW u \in Users, EndJob(u)
  PROVE  HisInv'
<1> DEFINE busy == Handling(u, Handlers) \/ jobs[u] > 1
<1>1. busy \in BOOLEAN /\ (jobs[u] > 1 => busy) /\ Forget(u, busy)
  BY DEF EndJob, Handling
<1>2. \A s \in Handlers : threads[s].user = u => busy
  BY DEF Handling, User
<1>3. UNCHANGED <<codes, threads>>
  BY DEF EndJob
<1>4. jobs \in [Users -> Nat] /\ jobs[u] > 0 /\ jobs' = [jobs EXCEPT ![u] = jobs[u] - 1]
  BY OtpAssumption DEF EndJob, TypeInv, TypeOK
<1>5. jobs[u] - 1 \in Nat
  BY <1>4
<1>6. registered'[u] = None /\ \A v \in Users \ {u} : registered'[v] = registered[v]
  BY DEF EndJob, TypeInv, TypeOK
<1> HIDE DEF busy
<1>7. /\ \A v \in Users : Holds(v)'
      /\ \A v \in Users : v # u \/ busy => Grows(v)
  <2>1. /\ jobs' \in [Users -> Nat] /\ \A v \in Users \ {u} : jobs'[v] = jobs[v]
        /\ jobs'[u] > 0 => jobs[u] > 0
        /\ jobs'[u] > 0 => busy
    BY <1>1, <1>4, <1>5
  <2>2. /\ \A v \in Users : registered'[v] \in {registered[v], None}
        /\ registered'[u] # None => jobs'[u] > 0
    BY <1>6
  <2> QED BY <1>1, <2>1, <2>2, Forgotten
<1>8. \A s \in Handlers : threads[s].user \in Users => Grows(threads[s].user)
  BY <1>2, <1>7
<1>9. \A s \in Handlers : Carries(threads[s])'
  BY <1>3, <1>8, SameCodes, AllCarry
<1> QED BY <1>7, <1>9 DEF HisInv

LEMMA InitHis == Init => HisInv
<1> SUFFICES ASSUME Init PROVE HisInv
  OBVIOUS
<1>1. \A t \in Handlers : threads[t].pc = "idle"
  BY DEF Init, Idle
<1>2. \A t \in Handlers : Carries(threads[t])
  BY <1>1 DEF Carries, Verifying
<1>3. ASSUME NEW u \in Users
      PROVE  Holds(u)
  BY DEF Init, Holds
<1> QED BY <1>2, <1>3 DEF HisInv

LEMMA StaysHis ==
  ASSUME TypeInv, HisInv, [Next]_vars
  PROVE  HisInv'
<1>1. CASE Tick \/ UNCHANGED vars
  <2>1. UNCHANGED <<codes, stage, numbers, threads, jobs, registered, observers>>
    BY <1>1 DEF Tick, vars, observers
  <2>2. \A s \in Handlers : Carries(threads[s])'
    BY <2>1, SameCodes, SameObservers, AllCarry
  <2>3. \A u \in Users : Holds(u)'
    BY <2>1, HoldsKept
  <2> QED BY <2>2, <2>3 DEF HisInv
<1>2. CASE \E u \in Users : Bury(u) \/ Register(u) \/ EndJob(u)
  BY <1>2, BuryHis, RegisterHis, EndJobHis
<1> QED BY <1>1, <1>2, NumberHis, GenerateHis, FindHis, AcceptHis, LaterHis, RefuseHis,
           CodeHis DEF Next

(* The number handed to Yango is one that its user typed since the bot     *)
(* last forgot him with nothing under way, and he typed its code, or that  *)
(* of another number he typed as well: for any users, numbers and codes    *)
(* drawn, however soon the users write again, and however the handlers and *)
(* the jobs interleave.                                                    *)
THEOREM NumberHisOwn == Spec => []NumberIsHis
<1>1. Init => TypeInv /\ HisInv
  BY InitType, InitHis
<1>2. (TypeInv /\ HisInv) /\ [Next]_vars => (TypeInv /\ HisInv)'
  BY NextType, StaysHis
<1>3. HisInv => NumberIsHis
  BY DEF HisInv, Holds, NumberIsHis
<1> QED BY <1>1, <1>2, <1>3, PTL DEF Spec
=============================================================================
