-------------------------- MODULE BrokerRegistration --------------------------
(***************************************************************************)
(* RegisterAgent with automatic top-up and WaitForRegistrationCompletion   *)
(* of pkg/registrybroker/agents.go, with PurchaseCreditsWithHbar of        *)
(* credits.go, called by goroutines whose agents are paid for from one     *)
(* account.                                                                *)
(*                                                                         *)
(* The broker is outside.  Every request takes effect or not and its       *)
(* answer arrives or not; between a quote, a purchase and the registration *)
(* others use the credits.  Credits are counted in halves, so a shortfall  *)
(* need not be whole.  RetriesAnyError is a wrong variant.                 *)
(***************************************************************************)
EXTENDS Integers

CONSTANTS
  Registrants,       \* goroutines, each registering one agent
  RegistrationCost,  \* in half credits
  MaxCredits,        \* bound on the account
  MaxSpending        \* bound on what others take from it

ASSUME BrokerRegistrationAssumption == RegistrationCost \in Nat \ {0}

VARIABLES
  balance,     \* the account at the broker, in half credits
  spending,    \* times somebody else used it
  registered,  \* how often each registrant's agent was registered
  progress,    \* the registration job at the broker
  enrolment    \* the call of each registrant

enrolmentVars == <<balance, spending, registered, progress, enrolment>>

EnrolmentInit ==
  /\ balance = 0
  /\ spending = 0
  /\ registered = [r \in Registrants |-> 0]
  /\ progress = [r \in Registrants |-> "none"]
  /\ enrolment = [r \in Registrants |->
       [step |-> "idle", tops |-> FALSE, attempt |-> 0, retried |-> FALSE, shortfall |-> 0]]

Step(r) == enrolment[r].step
GoesTo(r, step) == enrolment' = [enrolment EXCEPT ![r].step = step]
BrokerKeeps == UNCHANGED <<balance, spending, registered, progress>>

Shortfall == IF balance < RegistrationCost THEN RegistrationCost - balance ELSE 0

-----------------------------------------------------------------------------
(***************************************************************************)
(* With a top-up option, of the call or of the client, credits are ensured *)
(* before the first attempt.                                               *)
(***************************************************************************)
RegisterAgent(r) ==
  /\ Step(r) = "idle"
  /\ \E tops \in BOOLEAN :
       enrolment' = [enrolment EXCEPT ![r].tops = tops,
                                      ![r].step = IF tops THEN "quote" ELSE "post"]
  /\ BrokerKeeps

(***************************************************************************)
(* ensureCreditsForRegistration: quote and buy, three times at most; the   *)
(* fourth quote decides.                                                   *)
(***************************************************************************)
GetRegistrationQuote(r) ==
  /\ Step(r) = "quote"
  /\ enrolment' = [enrolment EXCEPT
       ![r].shortfall = IF enrolment[r].attempt < 3 THEN Shortfall ELSE 0,
       ![r].step = IF Shortfall = 0 THEN "post"
                   ELSE IF enrolment[r].attempt < 3 THEN "buy" ELSE "failed"]
  /\ BrokerKeeps

(***************************************************************************)
(* resolveCreditsToPurchase: whole credits, at least one; the amount in    *)
(* hbar is rounded up to tinybars, so never less than these.               *)
(***************************************************************************)
CreditsToPurchase(s) == 2 * ((s + 1) \div 2)

PurchaseCreditsWithHbar(r) ==
  /\ Step(r) = "buy"
  /\ balance + CreditsToPurchase(enrolment[r].shortfall) <= MaxCredits
  /\ balance' = balance + CreditsToPurchase(enrolment[r].shortfall)
  /\ \/ enrolment' = [enrolment EXCEPT ![r].step = "quote", ![r].attempt = @ + 1,
                                       ![r].shortfall = 0]
     \/ GoesTo(r, "failed")
  /\ UNCHANGED <<spending, registered, progress>>

(***************************************************************************)
(* The registration is accepted and paid for; its answer may be lost ...   *)
(***************************************************************************)
PerformRegisterAgent(r) ==
  /\ Step(r) = "post"
  /\ Shortfall = 0
  /\ balance' = balance - RegistrationCost
  /\ registered' = [registered EXCEPT ![r] = @ + 1]
  /\ progress' = [progress EXCEPT ![r] = "pending"]
  /\ GoesTo(r, "pending")
  /\ UNCHANGED spending

(***************************************************************************)
(* ... or it is refused for lack of credits, or fails.  Only the refusal,  *)
(* and that once, is followed by another top-up and another attempt.       *)
(***************************************************************************)
RetriesAnyError(r, refused) == enrolment[r].tops /\ ~enrolment[r].retried
Retries(r, refused) == refused /\ enrolment[r].tops /\ ~enrolment[r].retried

AfterError(r, refused) ==
  IF Retries(r, refused)
  THEN enrolment' = [enrolment EXCEPT ![r].step = "quote", ![r].attempt = 0,
                                      ![r].retried = TRUE]
  ELSE GoesTo(r, "failed")

RegistrationRefused(r) ==
  /\ Step(r) = "post"
  /\ Shortfall > 0
  /\ AfterError(r, TRUE)
  /\ BrokerKeeps

AnswerLost(r) ==
  /\ Step(r) = "post"
  /\ Shortfall = 0
  /\ balance' = balance - RegistrationCost
  /\ registered' = [registered EXCEPT ![r] = @ + 1]
  /\ progress' = [progress EXCEPT ![r] = "pending"]
  /\ AfterError(r, FALSE)
  /\ UNCHANGED spending

RequestFails(r) ==
  /\ Step(r) \in {"quote", "buy", "post", "pending"}
  /\ IF Step(r) = "post" THEN AfterError(r, FALSE) ELSE GoesTo(r, "failed")
  /\ BrokerKeeps

-----------------------------------------------------------------------------
(***************************************************************************)
(* WaitForRegistrationCompletion: each poll shows the status of the job,   *)
(* or nothing; an unsuccessful end is an error unless ThrowOnFailure is    *)
(* off, when it is returned as the progress.                               *)
(***************************************************************************)
IsCompletion(status) == status = "completed"

PollProgress(r) ==
  /\ Step(r) = "pending"
  /\ progress[r] # "pending"
  /\ IF IsCompletion(progress[r]) THEN GoesTo(r, "completed")
     ELSE GoesTo(r, "failed") \/ GoesTo(r, "returned")
  /\ BrokerKeeps

-----------------------------------------------------------------------------
JobEnds(r) ==
  /\ progress[r] = "pending"
  /\ \E end \in {"completed", "partial", "failed"} : progress' = [progress EXCEPT ![r] = end]
  /\ UNCHANGED <<balance, spending, registered, enrolment>>

OthersSpend ==
  /\ spending < MaxSpending
  /\ balance > 0
  /\ balance' = balance - 1
  /\ spending' = spending + 1
  /\ UNCHANGED <<registered, progress, enrolment>>

EnrolmentNext ==
  \/ \E r \in Registrants :
       \/ RegisterAgent(r)
       \/ GetRegistrationQuote(r)
       \/ PurchaseCreditsWithHbar(r)
       \/ PerformRegisterAgent(r)
       \/ RegistrationRefused(r)
       \/ AnswerLost(r)
       \/ RequestFails(r)
       \/ PollProgress(r)
       \/ JobEnds(r)
  \/ OthersSpend

EnrolmentSpec == EnrolmentInit /\ [][EnrolmentNext]_enrolmentVars

-----------------------------------------------------------------------------
(***************************************************************************)
(* However often the credits run out between a quote and the registration, *)
(* and whichever answers are lost, a call registers and pays for its agent *)
(* at most once, and reports completion only of a job that completed.      *)
(***************************************************************************)
RegistersOnce ==
  \A r \in Registrants :
    /\ registered[r] <= 1
    /\ Step(r) = "completed" => registered[r] = 1 /\ progress[r] = "completed"
=============================================================================
