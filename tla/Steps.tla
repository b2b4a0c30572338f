------------------------------- MODULE Steps -------------------------------
(***************************************************************************)
(* The catalogue of conversation steps that seeder/constants.ts inserts    *)
(* into the Step table, and the lookups step.service.ts offers on it.      *)
(*                                                                         *)
(* A step is known to the rest of the system by its database id.  The      *)
(* seeder inserts INITIAL_STEPS in the order of the array, so on a fresh   *)
(* database the id of a step is its position.  Several handlers compute    *)
(* with ids (step.id + 1, payload.stepId - 1), which is why the ids are    *)
(* part of the model and not abstracted away.                              *)
(*                                                                         *)
(* A definition whose name begins with Faulty is a plausible bug of the    *)
(* definition that follows it: substituted for it, it breaks a property.   *)
(***************************************************************************)
EXTENDS Integers

NoFlow == "NoFlow"
Flows  == {"Offres", "Inscription", "Changement", "Modification"}

(* Level of each step, by id: the menu, the four flows one after the       *)
(* other, and the two farewell messages.                                   *)
Levels ==
  << 0,
     1, 2, 3, 4,
     1, 2, 3, 4, 5, 14, 15, 19, 20, 24,
     1, 2, 3, 6, 7,
     1, 2, 3, 4, 5, 6,
     99, 100 >>

StepIds == 1..28

Level(s) == Levels[s]

FlowOf(s) ==
  CASE s \in 2..5   -> "Offres"
    [] s \in 6..15  -> "Inscription"
    [] s \in 16..20 -> "Changement"
    [] s \in 21..26 -> "Modification"
    [] OTHER        -> NoFlow

(* findOneBylevelAndidFlow: null when no step matches.                     *)
HasStep(level, flow) == \E s \in StepIds : Level(s) = level /\ FlowOf(s) = flow

StepAt(level, flow) ==
  CHOOSE s \in StepIds : Level(s) = level /\ FlowOf(s) = flow

(* findOneByLevel, which the code only uses for levels of a single step.   *)
StepAtLevel(level) == CHOOSE s \in StepIds : Level(s) = level

MenuStep    == StepAtLevel(0)
RetryStep   == StepAtLevel(15)
WelcomeStep == StepAtLevel(20)
TimeoutStep == StepAtLevel(99)
OfferStep   == StepAt(1, "Offres")
StoppedStep == StepAt(4, "Offres")
PhoneAckStep     == StepAt(5, "Modification")
PhoneChangedStep == StepAt(6, "Modification")
CarChangedStep   == StepAt(7, "Changement")

(***************************************************************************)
(* The steps by what their handler expects.                                *)
(***************************************************************************)
PhoneSteps == {s \in StepIds : \/ Level(s) = 1 /\ FlowOf(s) \in Flows \ {"Offres"}
                               \/ Level(s) = 3 /\ FlowOf(s) = "Modification"}

(* The steps at which the number typed must belong to a known driver.      *)
KnownDriverSteps ==
  {s \in PhoneSteps : Level(s) = 1 /\ FlowOf(s) # "Inscription"}

OtpSteps == {s \in StepIds : \/ Level(s) = 2 /\ FlowOf(s) \in Flows \ {"Offres"}
                             \/ Level(s) = 4 /\ FlowOf(s) = "Modification"}

DocumentSteps == {s \in StepIds : \/ Level(s) \in {3, 4, 5} /\ FlowOf(s) = "Inscription"
                                  \/ Level(s) = 3 /\ FlowOf(s) = "Changement"}

FaultyCarSteps == DocumentSteps

CarSteps == {s \in DocumentSteps : \/ Level(s) = 5
                                   \/ FlowOf(s) = "Changement"}

(* handleCarRegistrationUpload jumps to level 19 or 6, every other         *)
(* accepted answer goes to the next level of the flow.                     *)
FaultyNextStep(s) ==
  LET flow == FlowOf(s)
  IN  IF s \notin CarSteps
      THEN StepAt(Level(s) + (IF s \in PhoneSteps THEN 2 ELSE 1), flow)
      ELSE IF flow = "Inscription" THEN StepAt(19, flow) ELSE StepAt(6, flow)

NextStep(s) ==
  LET flow == FlowOf(s)
  IN  IF s \notin CarSteps THEN StepAt(Level(s) + 1, flow)
      ELSE IF flow = "Inscription" THEN StepAt(19, flow) ELSE StepAt(6, flow)

(* The step whose row carries the phone number an OTP handler verifies:    *)
(* for Inscription it is reached as "id of level 1, plus one".             *)
PhoneRowStep(s) ==
  IF FlowOf(s) = "Inscription" THEN StepAt(1, "Inscription") + 1
  ELSE StepAt(Level(s), FlowOf(s))

(* The messages that tell the user that sending "Start" opens a            *)
(* conversation.                                                           *)
Inviting == {StepAt(l, "Offres") : l \in {2, 3, 4}}
              \cup {StepAtLevel(l) : l \in {15, 20, 24, 99, 100}}
              \cup {CarChangedStep, PhoneChangedStep}
=============================================================================
