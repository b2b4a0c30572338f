-------------------------------- MODULE Otp --------------------------------
(***************************************************************************)
(* One-time codes: otp.service.ts, the OtpVerification table, and the two  *)
(* handlers of rabbitmq.service.ts that use them, one for the number typed *)
(* and one for the code.  A code belongs to a phone number, not to the     *)
(* conversation it was sent for; the number to verify is read back from    *)
(* the conversation rows of the user, in no particular order.              *)
(*                                                                         *)
(* A conversation is reduced to its stage: waiting for a number, for a     *)
(* code, or for the answers that follow.  Counting bad answers is the      *)
(* business of module Conversation: here a refusal may or may not end the  *)
(* conversation.  A user may write again before the reply has come, so     *)
(* several handlers and jobs of one user may be under way.                 *)
(*                                                                         *)
(* A definition whose name begins with Faulty is a plausible bug of the    *)
(* definition that follows it: substituted for it, it breaks a property.   *)
(***************************************************************************)
EXTENDS Integers, Sequences

CONSTANTS
  Users,         \* WhatsApp numbers
  Phones,        \* the phone numbers they may type
  Codes,         \* what randomInt may return
  Handlers,      \* threads running handleMessageReceived
  MaxCodes,      \* bound: codes generated in all
  MaxMinutes,    \* bound: minutes that pass
  MaxJobs        \* bound: jobs of one user in the queue

ASSUME OtpAssumption ==
  /\ MaxCodes \in Nat
  /\ MaxMinutes \in Nat
  /\ MaxJobs \in Nat
ASSUME NoNumberAssumption == "none" \notin Phones \cup Codes \cup Users

VARIABLES
  now,         \* the clock, in minutes
  codes,       \* the OtpVerification table, in creation order
  stage,       \* per user, what the newest conversation row waits for
  numbers,     \* per user, the numbers kept in the rows of the code step
  threads,     \* the handlers
  told,        \* the last reply each user received
  jobs,        \* per user, the jobs queued or at work
  registered,  \* per user, the number read by the job at work
  given,       \* observer: per user, the numbers saved in the conversation
  proved       \* observer: per user, those whose code was typed

observers == <<given, proved>>
vars == <<now, codes, stage, numbers, threads, told, jobs, registered, given, proved>>

None == "none"
Idle == [pc |-> "idle", user |-> None, phone |-> None, code |-> None, reply |-> "nothing"]

At(t, pc) == threads[t].pc = pc
User(t) == threads[t].user
Goto(t, pc) == threads' = [threads EXCEPT ![t].pc = pc]
GotoRefuse(t, reply) ==
  threads' = [threads EXCEPT ![t].pc = "refuse", ![t].reply = reply]
Stop(t) == threads' = [threads EXCEPT ![t] = Idle]
Tell(u, reply) == told' = [told EXCEPT ![u] = reply]

Receive(t, u, th) ==
  /\ At(t, "idle")
  /\ threads' = [threads EXCEPT ![t] = th]
  /\ UNCHANGED <<now, codes, stage, numbers, told, jobs, registered, observers>>

(***************************************************************************)
(* The number.                                                             *)
(***************************************************************************)
HandleNumber(t, u, p) ==
  /\ stage[u] = "number"
  /\ Receive(t, u, [Idle EXCEPT !.pc = "number", !.user = u, !.phone = p])

(* An invalid number, or one that the flow does not want, is refused.      *)
JudgeNumber(t) ==
  /\ At(t, "number")
  /\ \/ Goto(t, "save")
     \/ GotoRefuse(t, "wrongAnswer")
  /\ UNCHANGED <<now, codes, stage, numbers, told, jobs, registered, observers>>

SaveNumber(t) ==
  /\ At(t, "save")
  /\ numbers' = [numbers EXCEPT ![User(t)] = @ \cup {threads[t].phone}]
  /\ given' = [given EXCEPT ![User(t)] = @ \cup {threads[t].phone}]
  /\ stage' = [stage EXCEPT ![User(t)] = "code"]
  /\ Tell(User(t), "typeCode")
  /\ Goto(t, "generate")
  /\ UNCHANGED <<now, codes, jobs, registered, proved>>

(***************************************************************************)
(* generateAndSendOtp, for a new number ten seconds after the prompt, and  *)
(* again when a code has expired.                                          *)
(***************************************************************************)
Validity == 3

Generate(t) ==
  /\ t \in Handlers
  /\ threads[t].pc \in {"generate", "renew"}
  /\ Len(codes) < MaxCodes
  /\ \E c \in Codes :
       codes' = Append(codes, [phone |-> threads[t].phone, code |-> c,
                               expires |-> now + Validity])
  /\ Goto(t, IF At(t, "generate") THEN "sms" ELSE "renewSms")
  /\ UNCHANGED <<now, stage, numbers, told, jobs, registered, observers>>

(* A failed SMS is caught by the handler of the number, and only there:    *)
(* the handler of the code dies without a reply.                           *)
SendSms(t) ==
  /\ \/ At(t, "sms") /\ (Stop(t) \/ GotoRefuse(t, "smsFailed"))
     \/ At(t, "renewSms") /\ (Goto(t, "refuse") \/ Stop(t))
  /\ UNCHANGED <<now, codes, stage, numbers, told, jobs, registered, observers>>

(***************************************************************************)
(* The code.                                                               *)
(***************************************************************************)
HandleCode(t, u, c) ==
  /\ stage[u] = "code"
  /\ Receive(t, u, [Idle EXCEPT !.pc = "code", !.user = u, !.code = c])

(* findOneByStepIdAndWhaPhoneNumber: any of the rows of the step.          *)
FindNumber(t) ==
  /\ At(t, "code")
  /\ IF numbers[User(t)] = {} THEN Stop(t)
     ELSE \E p \in numbers[User(t)] :
            threads' = [threads EXCEPT ![t].pc = "verify", ![t].phone = p]
  /\ UNCHANGED <<now, codes, stage, numbers, told, jobs, registered, observers>>

CodesOf(p) == {i \in DOMAIN codes : codes[i].phone = p}

(* verifyOtp, from the latest code of the number on; isUsed is never read. *)
Verdict(p, c) ==
  LET last == {i \in CodesOf(p) : \A j \in CodesOf(p) : j <= i}
  IN  IF last = {} THEN "OTP_NOT_FOUND"
      ELSE IF \E i \in last : codes[i].code # c THEN "OTP_INVALID"
      ELSE IF \E i \in last : now > codes[i].expires THEN "OTP_EXPIRED"
      ELSE "OTP_FOUND"

(* `response === 'OTP_NOT_FOUND' || 'OTP_INVALID'` holds of every verdict. *)
FaultyReplyTo(verdict) == verdict

ReplyTo(verdict) == "incorrectCode"

VerifyOtp(t) ==
  /\ At(t, "verify")
  /\ LET verdict == Verdict(threads[t].phone, threads[t].code)
     IN threads' = [threads EXCEPT
          ![t].pc = CASE verdict = "OTP_FOUND"   -> "accept"
                      [] verdict = "OTP_EXPIRED" -> "renew"
                      [] OTHER                   -> "refuse",
          ![t].reply = IF verdict = "OTP_FOUND" THEN @ ELSE ReplyTo(verdict)]
  /\ UNCHANGED <<now, codes, stage, numbers, told, jobs, registered, observers>>

(* Once the code is marked used, the next step is saved.  In the flow that *)
(* changes the number, the same handler then pushes the job.               *)
AcceptCode(t) ==
  /\ At(t, "accept")
  /\ LET p == threads[t].phone
         sent == \E i \in CodesOf(p) : codes[i].code = threads[t].code
     IN proved' = [proved EXCEPT ![User(t)] = IF sent THEN @ \cup {p} ELSE @]
  /\ stage' = [stage EXCEPT ![User(t)] = "verified"]
  /\ Tell(User(t), "nextStep")
  /\ Stop(t) \/ Goto(t, "push")
  /\ UNCHANGED <<now, codes, numbers, jobs, registered, given>>

(***************************************************************************)
(* The answers that follow, of which the last pushes the job.              *)
(***************************************************************************)
HandleLater(t, u) ==
  /\ stage[u] = "verified"
  /\ Receive(t, u, [Idle EXCEPT !.pc = "later", !.user = u])

JudgeLater(t) ==
  /\ At(t, "later")
  /\ Goto(t, "push") \/ GotoRefuse(t, "wrongAnswer") \/ Stop(t)
  /\ UNCHANGED <<now, codes, stage, numbers, told, jobs, registered, observers>>

PushJob(t) ==
  /\ At(t, "push")
  /\ jobs[User(t)] < MaxJobs
  /\ jobs' = [jobs EXCEPT ![User(t)] = @ + 1]
  /\ Stop(t)
  /\ UNCHANGED <<now, codes, stage, numbers, told, registered, observers>>

(***************************************************************************)
(* The end of a conversation: its rows are deleted, and the user may begin *)
(* another one.  The observers begin anew unless something of the user is  *)
(* still under way, which may save, read or accept a number afterwards.    *)
(***************************************************************************)
FaultyForget(u, busy) ==
  /\ numbers' = numbers
  /\ stage' = [stage EXCEPT ![u] = "number"]
  /\ given' = IF busy THEN given ELSE [given EXCEPT ![u] = {}]
  /\ proved' = IF busy THEN proved ELSE [proved EXCEPT ![u] = {}]

Forget(u, busy) ==
  /\ numbers' = [numbers EXCEPT ![u] = {}]
  /\ stage' = [stage EXCEPT ![u] = "number"]
  /\ given' = IF busy THEN given ELSE [given EXCEPT ![u] = {}]
  /\ proved' = IF busy THEN proved ELSE [proved EXCEPT ![u] = {}]

Handling(u, handlers) == \E t \in handlers : User(t) = u

(* updateMessage: the bad answer is told, and may be one too many.         *)
Refuse(t) ==
  /\ At(t, "refuse")
  /\ Tell(User(t), threads[t].reply)
  /\ Stop(t)
  /\ \/ Forget(User(t), Handling(User(t), Handlers \ {t}) \/ jobs[User(t)] > 0)
     \/ UNCHANGED <<numbers, stage, observers>>
  /\ UNCHANGED <<now, codes, jobs, registered>>

(* deleteOldConversations: the user was silent for too long.               *)
Bury(u) ==
  /\ Forget(u, Handling(u, Handlers) \/ jobs[u] > 0)
  /\ UNCHANGED <<now, codes, threads, told, jobs, registered>>

(***************************************************************************)
(* The Yango worker reads the number from the rows once more, whatever has *)
(* become of the conversation since the job was pushed, and the end of its *)
(* job, good or bad, is the end of the conversation.                       *)
(***************************************************************************)
Register(u) ==
  /\ jobs[u] > 0
  /\ registered[u] = None
  /\ \E p \in numbers[u] : registered' = [registered EXCEPT ![u] = p]
  /\ UNCHANGED <<now, codes, stage, numbers, threads, told, jobs, observers>>

EndJob(u) ==
  /\ jobs[u] > 0
  /\ registered[u] # None \/ numbers[u] = {}
  /\ registered' = [registered EXCEPT ![u] = None]
  /\ jobs' = [jobs EXCEPT ![u] = @ - 1]
  /\ Forget(u, Handling(u, Handlers) \/ jobs[u] > 1)
  /\ UNCHANGED <<now, codes, threads, told>>

Tick ==
  /\ now < MaxMinutes
  /\ now' = now + 1
  /\ UNCHANGED <<codes, stage, numbers, threads, told, jobs, registered, observers>>

Init ==
  /\ now = 0
  /\ codes = << >>
  /\ stage = [u \in Users |-> "number"]
  /\ numbers = [u \in Users |-> {}]
  /\ threads = [t \in Handlers |-> Idle]
  /\ told = [u \in Users |-> "nothing"]
  /\ jobs = [u \in Users |-> 0]
  /\ registered = [u \in Users |-> None]
  /\ given = [u \in Users |-> {}]
  /\ proved = [u \in Users |-> {}]

Next ==
  \/ \E t \in Handlers :
       \/ \E u \in Users, p \in Phones : HandleNumber(t, u, p)
       \/ \E u \in Users, c \in Codes : HandleCode(t, u, c)
       \/ JudgeNumber(t) \/ SaveNumber(t) \/ Generate(t) \/ SendSms(t)
       \/ FindNumber(t) \/ VerifyOtp(t) \/ AcceptCode(t)
       \/ \E u \in Users : HandleLater(t, u)
       \/ JudgeLater(t) \/ PushJob(t) \/ Refuse(t)
  \/ \E u \in Users : Bury(u) \/ Register(u) \/ EndJob(u)
  \/ Tick

Spec == Init /\ [][Next]_vars

(***************************************************************************)
(* Properties.                                                             *)
(***************************************************************************)
Replies == {"nothing", "wrongAnswer", "typeCode", "smsFailed", "incorrectCode",
            "isExpired", "nextStep"}
Labels == {"idle", "number", "save", "generate", "sms", "code", "verify", "renew",
           "renewSms", "accept", "later", "push", "refuse"}

(* The values the handlers exchange; a reply is one the catalogue words.   *)
TypeOK ==
  /\ now \in 0..MaxMinutes
  /\ codes \in Seq([phone : Phones, code : Codes, expires : Nat])
  /\ stage \in [Users -> {"number", "code", "verified"}]
  /\ numbers \in [Users -> SUBSET Phones]
  /\ threads \in [Handlers -> [pc : Labels, user : Users \cup {None},
                               phone : Phones \cup {None}, code : Codes \cup {None},
                               reply : Replies]]
  /\ told \in [Users -> Replies]
  /\ jobs \in [Users -> 0..MaxJobs]
  /\ registered \in [Users -> Phones \cup {None}]
  /\ given \in [Users -> SUBSET Phones]
  /\ proved \in [Users -> SUBSET Phones]

(* The number handed to Yango is one that its user typed since the bot     *)
(* last forgot him with nothing of his under way, although the rows are    *)
(* not read per conversation (findOneByStepIdAndWhaPhoneNumber); and he    *)
(* typed the code of that very number, unless he typed another as well and *)
(* the code of that one: two messages in a row leave two rows of the step, *)
(* and a job does not notice that its conversation was aborted.            *)
NumberIsHis ==
  \A u \in Users : LET p == registered[u] IN p # None =>
    /\ p \in given[u]
    /\ \/ p \in proved[u]
       \/ \E q \in given[u] \ {p} : q \in proved[u]

(* What the catalogue says for errorType 'isExpired': "Code expire. Un     *)
(* nouveau code vous a ete envoye." (seeder/constants.ts).  Whoever was    *)
(* sent a new code because the last one had expired is told so.            *)
RenewalIsAnnounced ==
  \A t \in Handlers : At(t, "renewSms") => threads[t].reply = "isExpired"

(* What the handler of a number says when the SMS cannot be sent: "Erreur  *)
(* lors de l'envoie du OTP. Veuillez reessayer."  Whoever reads it and     *)
(* types the number again is heard.                                        *)
RetryIsPossible ==
  \A u \in Users : told[u] = "smsFailed" => stage[u] = "number"
=============================================================================
