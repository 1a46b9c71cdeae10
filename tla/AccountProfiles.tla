--------------------------- MODULE AccountProfiles ---------------------------
(***************************************************************************)
(* HCS-11 profiles (pkg/hcs11): a profile or an image is inscribed, the    *)
(* account's memo is set to the inscription's topic, and readers go from   *)
(* the memo to the content.  Several programs use the same account.        *)
(*                                                                         *)
(* An inscription is known by its number; the memo is that number, 0 when  *)
(* it is of no profile and -1 when it refers to content from elsewhere.    *)
(* ConfirmedWhenPaid is a wrong variant.                                   *)
(***************************************************************************)
EXTENDS Integers, Sequences, FiniteSetsExt, SequencesExt

CONSTANTS
  ProfileCallers,   \* programs that inscribe for the account
  MaxInscribed,     \* bound on the inscriptions
  MaxMemos          \* bound on the changes of the memo

VARIABLES
  inscribed,     \* the inscriptions: what, how far, whether the CDN has it
  memoLog,       \* the memos of the account, in consensus order
  memoShown,     \* how many of them the mirror node has seen
  profileCall,   \* of each program: where it is
  fetch11        \* one FetchProfileByAccountID

profileVars == <<inscribed, memoLog, memoShown, profileCall, fetch11>>

Resting11 == [pc |-> "idle", kind |-> "none", update |-> FALSE, topic |-> 0]
Unfetched == [pc |-> "idle", topic |-> 0]

ProfilesInit ==
  /\ inscribed = << >>
  /\ memoLog = <<0>> /\ memoShown = 1
  /\ profileCall = [c \in ProfileCallers |-> Resting11]
  /\ fetch11 = Unfetched

At(c, pc) == profileCall[c].pc = pc
Becomes11(c, call) == profileCall' = [profileCall EXCEPT ![c] = call]

-----------------------------------------------------------------------------
(***************************************************************************)
(* InscribeProfile and CreateAndInscribeProfile: a missing id is made from *)
(* the account's DID, and the profile must validate.                       *)
(***************************************************************************)
ValidateProfile(content) == content = "complete"

BeginsInscription(c, kind, update) ==
  /\ Becomes11(c, [pc |-> "start", kind |-> kind, update |-> update, topic |-> 0])
  /\ UNCHANGED <<inscribed, memoLog, memoShown, fetch11>>

InscribeProfile(c) ==
  /\ At(c, "idle")
  /\ \E content \in {"complete", "incomplete"}, update \in BOOLEAN :
       ValidateProfile(content) /\ BeginsInscription(c, "profile", update)

(* InscribeImage wants bytes and a file name, and goes the same way. *)
InscribeImage(c) == At(c, "idle") /\ BeginsInscription(c, "image", FALSE)

(* authenticateInscriber and StartInscription. *)
StartInscription(c) ==
  /\ At(c, "start") /\ Len(inscribed) < MaxInscribed
  /\ inscribed' = Append(inscribed, [kind |-> profileCall[c].kind, status |-> "started",
                                     served |-> FALSE])
  /\ Becomes11(c, [profileCall[c] EXCEPT !.pc = "pay", !.topic = Len(inscribed) + 1])
  /\ UNCHANGED <<memoLog, memoShown, fetch11>>

(* ExecuteTransaction: the payment and its answer may each get lost. *)
ExecutePayment(c) ==
  /\ At(c, "pay")
  /\ \E paid, answered \in BOOLEAN :
       /\ inscribed' = [inscribed EXCEPT ![profileCall[c].topic].status =
                          IF paid THEN "paid" ELSE @]
       /\ Becomes11(c, IF paid /\ answered THEN [profileCall[c] EXCEPT !.pc = "wait"]
                                           ELSE Resting11)
  /\ UNCHANGED <<memoLog, memoShown, fetch11>>

ConfirmedWhenPaid(status) == status \in {"paid", "completed"}
Confirmed(status) == status = "completed"

AwaitInscription(c) ==
  /\ At(c, "wait")
  /\ Confirmed(inscribed[profileCall[c].topic].status)
  /\ Becomes11(c, [profileCall[c] EXCEPT !.pc =
                    IF profileCall[c].update THEN "update" ELSE "done"])
  /\ UNCHANGED <<inscribed, memoLog, memoShown, fetch11>>

(***************************************************************************)
(* UpdateAccountMemoWithProfile, by CreateAndInscribeProfile or by a       *)
(* caller with the topic InscribeProfile returned: the transaction is      *)
(* refused, or it takes effect and its receipt arrives or not.             *)
(***************************************************************************)
UpdateAccountMemo(c) ==
  /\ At(c, "update") \/ (At(c, "done") /\ profileCall[c].kind = "profile")
  /\ Len(memoLog) <= MaxMemos
  /\ \E accepted, answered \in BOOLEAN :
       /\ memoLog' = IF accepted THEN Append(memoLog, profileCall[c].topic) ELSE memoLog
       /\ Becomes11(c, IF accepted /\ answered THEN [profileCall[c] EXCEPT !.pc = "done"]
                                               ELSE Resting11)
  /\ UNCHANGED <<inscribed, memoShown, fetch11>>

(* Each request may fail, and waiting gives up. *)
InscriptionFails(c) ==
  /\ profileCall[c].pc \in {"start", "wait"}
  /\ Becomes11(c, Resting11)
  /\ UNCHANGED <<inscribed, memoLog, memoShown, fetch11>>

AnotherInscription(c) ==
  /\ At(c, "done")
  /\ Becomes11(c, Resting11)
  /\ UNCHANGED <<inscribed, memoLog, memoShown, fetch11>>

-----------------------------------------------------------------------------
(* The inscription service, the CDN, the mirror node and other software. *)
InscriptionEnds(i) ==
  /\ inscribed[i].status = "paid"
  /\ \E status \in {"completed", "failed"} :
       inscribed' = [inscribed EXCEPT ![i].status = status]
  /\ UNCHANGED <<memoLog, memoShown, profileCall, fetch11>>

Served(i) ==
  /\ inscribed[i].status = "completed" /\ ~inscribed[i].served
  /\ inscribed' = [inscribed EXCEPT ![i].served = TRUE]
  /\ UNCHANGED <<memoLog, memoShown, profileCall, fetch11>>

MemoArrives ==
  /\ memoShown < Len(memoLog)
  /\ memoShown' = memoShown + 1
  /\ UNCHANGED <<inscribed, memoLog, profileCall, fetch11>>

(* Others, and callers of UpdateAccountMemoWithProfile with a topic from elsewhere. *)
OthersSetMemo ==
  /\ Len(memoLog) <= MaxMemos
  /\ \E m \in {0, -1} : memoLog' = Append(memoLog, m)
  /\ UNCHANGED <<inscribed, memoShown, profileCall, fetch11>>

-----------------------------------------------------------------------------
(***************************************************************************)
(* FetchProfileByAccountID: first the memo, then the content it refers to, *)
(* which may be missing, an image, or something else altogether.           *)
(***************************************************************************)
FetchMemo ==
  /\ fetch11.pc = "idle"
  /\ LET memo == memoLog[memoShown] IN
     fetch11' = [pc |-> IF memo = 0 THEN "none" ELSE "content", topic |-> memo]
  /\ UNCHANGED <<inscribed, memoLog, memoShown, profileCall>>

FetchContent ==
  /\ fetch11.pc = "content"
  /\ fetch11' = [fetch11 EXCEPT !.pc =
       IF \/ fetch11.topic = -1
          \/ inscribed[fetch11.topic].served /\ inscribed[fetch11.topic].kind = "profile"
       THEN "fetched" ELSE "none"]
  /\ UNCHANGED <<inscribed, memoLog, memoShown, profileCall>>

FetchFails ==
  /\ fetch11.pc = "content"
  /\ fetch11' = [fetch11 EXCEPT !.pc = "none"]
  /\ UNCHANGED <<inscribed, memoLog, memoShown, profileCall>>

FetchAgain ==
  /\ fetch11.pc \in {"none", "fetched"}
  /\ fetch11' = Unfetched
  /\ UNCHANGED <<inscribed, memoLog, memoShown, profileCall>>

ProfilesNext ==
  \/ \E c \in ProfileCallers :
       \/ InscribeProfile(c) \/ InscribeImage(c) \/ StartInscription(c) \/ ExecutePayment(c)
       \/ AwaitInscription(c) \/ UpdateAccountMemo(c)
       \/ InscriptionFails(c) \/ AnotherInscription(c)
  \/ \E i \in DOMAIN inscribed : InscriptionEnds(i) \/ Served(i)
  \/ MemoArrives \/ OthersSetMemo
  \/ FetchMemo \/ FetchContent \/ FetchFails \/ FetchAgain

ProfilesSpec == ProfilesInit /\ [][ProfilesNext]_profileVars

-----------------------------------------------------------------------------
(***************************************************************************)
(* Whatever failed on the way, and whoever else sets the memo, the account *)
(* never names a profile that is not inscribed, and a call that was to set *)
(* the memo and reports success was named by it.  What a reader fetches is *)
(* therefore complete, whenever the memo changed.                          *)
(***************************************************************************)
ProfileIsInscribed ==
  /\ \A t \in ToSet(memoLog) \ {0, -1} :
       inscribed[t].status = "completed" /\ inscribed[t].kind = "profile"
  /\ \A c \in ProfileCallers :
       At(c, "done") /\ profileCall[c].update => profileCall[c].topic \in ToSet(memoLog)
  /\ fetch11.pc = "fetched" /\ fetch11.topic > 0 =>
       inscribed[fetch11.topic].status = "completed"
=============================================================================
