------------------------ MODULE TransactionExecution ------------------------
(***************************************************************************)
(* ExecuteTransaction of pkg/inscriber/client.go: the transfer that pays   *)
(* for an inscription, which the inscription service has prepared, is      *)
(* signed by the operator and submitted.  When one way of submitting it    *)
(* fails the next one is tried: straight to each node the list names, with *)
(* the SDK and the signature appended, with four combinations of operator  *)
(* and signature, and at last rebuilt from its fields.                     *)
(*                                                                         *)
(* The Hedera network is outside: a transaction id takes effect at most    *)
(* once, a reply may be lost after the transaction was accepted, an        *)
(* accepted transaction is handled later, and may then fail or expire.     *)
(*                                                                         *)
(* Definitions named after a slip (RegeneratedId, ...) are wrong variants  *)
(* of the definition below them, for mutation runs.                        *)
(***************************************************************************)
EXTENDS Naturals, Sequences, FiniteSets

CONSTANTS
  TxInputs,    \* the (transaction bytes, operator) pairs ExecuteTransaction is called with
  MaxIds       \* bound on the transaction ids one call can use up

(***************************************************************************)
(* The decoded transaction list: one entry for each node that may be asked *)
(* and the signature pairs it carries.                                     *)
(***************************************************************************)
Entry == [body: {"missing", "garbled", "other", "transfer"}, node: BOOLEAN,
          sigs: SUBSET {"service", "operator"}]
TxInput == [network: BOOLEAN, account: BOOLEAN, keyType: {"ecdsa", "ed25519", "unknown"},
            mirror: BOOLEAN, key: {"ecdsa", "ed25519"}, base64: BOOLEAN,
            entries: Seq(Entry), payerIsOperator: BOOLEAN]

ASSUME TxInputsAssumption == TxInputs \subseteq TxInput
ASSUME MaxIdsAssumption == MaxIds \in Nat \ {0}

Ids == 1..MaxIds     \* 1 is the id the service chose
NoTx == [ok |-> FALSE, id |-> 0, why |-> "none"]

VARIABLES
  txInput,   \* the arguments of the call
  txPc,      \* where ExecuteTransaction is
  txEntries, \* preSignedBytes
  txIndex,   \* index of the entry, or of the attempt, being tried
  txSubmitted, \* the id of the submission whose receipt is awaited
  txResult,  \* what the call returned
  network    \* the network's record of each transaction id

txVars == <<txInput, txPc, txEntries, txIndex, txSubmitted, txResult, network>>

-----------------------------------------------------------------------------
(***************************************************************************)
(* The network.  A reply of a submission, and the record after it.         *)
(***************************************************************************)
Replies == {"OK", "INVALID_SIGNATURE", "DUPLICATE", "ERROR", "LOST"}

Submit(id, reply) ==
  \/ /\ reply \in {"OK", "LOST"}
     /\ network' = [network EXCEPT ![id] = IF @ = "none" THEN "pending" ELSE @]
  \/ /\ reply = "DUPLICATE"
     /\ network[id] # "none"
     /\ UNCHANGED network
  \/ /\ reply \in {"INVALID_SIGNATURE", "ERROR"}
     /\ UNCHANGED network

Handle(id) ==
  /\ network[id] = "pending"
  /\ \E status \in {"SUCCESS", "FAILED", "expired"} :
        network' = [network EXCEPT ![id] = status]
  /\ UNCHANGED <<txInput, txPc, txEntries, txIndex, txSubmitted, txResult>>

Paid == {id \in Ids : network[id] = "SUCCESS"}

-----------------------------------------------------------------------------
TxInit ==
  /\ txInput \in TxInputs
  /\ txPc = "idle"
  /\ txEntries = << >>
  /\ txIndex = 0
  /\ txSubmitted = 0
  /\ txResult = NoTx
  /\ network = [id \in Ids |-> "none"]

Return(result) ==
  /\ txPc' = "done"
  /\ txResult' = result
Fail(why) == Return([NoTx EXCEPT !.why = why])

(***************************************************************************)
(* parseOperatorPrivateKey: the mirror node names the key's type, and a    *)
(* key of the other type is refused; without a type both are tried.        *)
(***************************************************************************)
KeyParses(x) == x.mirror /\ x.keyType \in {x.key, "unknown"}

(***************************************************************************)
(* appendSerializedTransactionSignature: an empty list, an entry without   *)
(* signed bytes or with bytes that do not decode is an error; otherwise    *)
(* the operator's pair is added where it is not present yet.               *)
(***************************************************************************)
Signable(x) ==
  /\ x.base64
  /\ x.entries # << >>
  /\ \A i \in DOMAIN x.entries : x.entries[i].body \notin {"missing", "garbled"}

WithSignature(x) ==
  [i \in DOMAIN x.entries |-> [x.entries[i] EXCEPT !.sigs = @ \cup {"operator"}]]

Prepare ==
  /\ txPc = "prepare"
  /\ IF txInput.network /\ txInput.account /\ KeyParses(txInput) /\ Signable(txInput)
       THEN /\ txEntries' = WithSignature(txInput)
            /\ txPc' = "addressBook"
            /\ UNCHANGED txResult
       ELSE /\ Fail("invalid")
            /\ UNCHANGED txEntries
  /\ UNCHANGED <<txInput, txIndex, txSubmitted, network>>

(***************************************************************************)
(* executeSerializedTransferTransaction: without the address book there is *)
(* no direct submission; an entry that is not a transfer, or whose node is *)
(* not known or has no certificate hash, is passed over.                   *)
(***************************************************************************)
ResolveAddressBook ==
  /\ txPc = "addressBook"
  /\ \/ txPc' = "direct" /\ txIndex' = 1
     \/ txPc' = "passThrough" /\ txIndex' = 0
  /\ UNCHANGED <<txInput, txEntries, txSubmitted, txResult, network>>

IsTransferEntry(e) == e.body = "transfer"     \* serializedTransactionMetadata
NodeKnown(e) == e.node                        \* its address and its certificate's hash
Reachable(e) == IsTransferEntry(e) /\ NodeKnown(e)

(***************************************************************************)
(* Every submission of a call names the id the service chose, the rebuilt  *)
(* one too: SetRegenerateTransactionID(false), SetTransactionID.           *)
(***************************************************************************)
RegeneratedId ==
  LET unused == {id \in Ids : network[id] = "none"}
  IN  IF unused = {} THEN 1 ELSE CHOOSE id \in unused : \A j \in unused : id <= j
SubmissionId == 1

SkipEntry ==
  /\ txPc = "direct"
  /\ txIndex \in DOMAIN txEntries
  /\ ~Reachable(txEntries[txIndex])
  /\ txIndex' = txIndex + 1
  /\ UNCHANGED <<txInput, txPc, txEntries, txSubmitted, txResult, network>>

SubmitEntry ==
  /\ txPc = "direct"
  /\ txIndex \in DOMAIN txEntries
  /\ Reachable(txEntries[txIndex])
  /\ \E reply \in Replies :
       /\ Submit(SubmissionId, reply)
       /\ IF reply = "OK"
            THEN txPc' = "directReceipt" /\ txSubmitted' = SubmissionId /\ UNCHANGED txIndex
            ELSE txIndex' = txIndex + 1 /\ UNCHANGED <<txPc, txSubmitted>>
  /\ UNCHANGED <<txInput, txEntries, txResult>>

DirectFails ==
  /\ txPc = "direct"
  /\ txIndex \notin DOMAIN txEntries
  /\ txPc' = "passThrough"
  /\ UNCHANGED <<txInput, txEntries, txIndex, txSubmitted, txResult, network>>

(***************************************************************************)
(* A receipt, once there is one, or an error at any time.                  *)
(***************************************************************************)
Receipts == (IF network[txSubmitted] \in {"SUCCESS", "FAILED"} THEN {network[txSubmitted]} ELSE {})
              \cup {"ERROR"}

ReceiptUnchecked(status) == status # "ERROR"
ReceiptAccepted(status) == status = "SUCCESS"

DirectReceipt ==
  /\ txPc = "directReceipt"
  /\ \E status \in Receipts :
       IF ReceiptAccepted(status)
         THEN Return([ok |-> TRUE, id |-> txSubmitted, why |-> "direct"])
         ELSE txPc' = "passThrough" /\ UNCHANGED txResult
  /\ UNCHANGED <<txInput, txEntries, txIndex, txSubmitted, network>>

(***************************************************************************)
(* The SDK submits the list as it was signed.  An error of Execute goes on *)
(* to the next strategy; an error of the receipt ends the call.            *)
(***************************************************************************)
DecodesTransfer == \A i \in DOMAIN txEntries : IsTransferEntry(txEntries[i])

PassThrough ==
  /\ txPc = "passThrough"
  /\ IF ~DecodesTransfer
       THEN Fail("undecodable") /\ UNCHANGED <<txIndex, txSubmitted, network>>
       ELSE \E reply \in Replies :
              /\ Submit(SubmissionId, reply)
              /\ IF reply = "OK"
                   THEN /\ txPc' = "receipt"
                        /\ txSubmitted' = SubmissionId
                        /\ UNCHANGED txIndex
                   ELSE txPc' = "attempt" /\ txIndex' = 1 /\ UNCHANGED txSubmitted
              /\ UNCHANGED txResult
  /\ UNCHANGED <<txInput, txEntries>>

AwaitReceipt ==
  /\ txPc = "receipt"
  /\ \E status \in Receipts :
       IF ReceiptAccepted(status)
         THEN Return([ok |-> TRUE, id |-> txSubmitted, why |-> "sdk"])
         ELSE Fail("receipt")
  /\ UNCHANGED <<txInput, txEntries, txIndex, txSubmitted, network>>

(***************************************************************************)
(* The four attempts: only INVALID_SIGNATURE leads to the next, and after  *)
(* the last to the rebuilt transfer, which the operator can only make when *)
(* it is the payer.                                                        *)
(***************************************************************************)
Attempts == <<"operator-auto-sign", "operator-manual-sign",
              "manual-sign-pass-through", "unsigned-pass-through">>

Attempt ==
  /\ txPc = "attempt"
  /\ txIndex \in DOMAIN Attempts
  /\ \E reply \in Replies :
       /\ Submit(SubmissionId, reply)
       /\ CASE reply = "OK" ->
                 /\ txPc' = "receipt"
                 /\ txSubmitted' = SubmissionId
                 /\ UNCHANGED <<txIndex, txResult>>
            [] reply = "INVALID_SIGNATURE" ->
                 txIndex' = txIndex + 1 /\ UNCHANGED <<txPc, txSubmitted, txResult>>
            [] OTHER -> Fail(reply) /\ UNCHANGED <<txIndex, txSubmitted>>
  /\ UNCHANGED <<txInput, txEntries>>

Rebuild ==
  /\ txPc = "attempt"
  /\ txIndex \notin DOMAIN Attempts
  /\ IF ~txInput.payerIsOperator
       THEN Fail("INVALID_SIGNATURE") /\ UNCHANGED <<txSubmitted, network>>
       ELSE \E reply \in Replies :
              /\ Submit(SubmissionId, reply)
              /\ IF reply = "OK"
                   THEN txPc' = "receipt" /\ txSubmitted' = SubmissionId /\ UNCHANGED txResult
                   ELSE Fail("INVALID_SIGNATURE") /\ UNCHANGED txSubmitted
  /\ UNCHANGED <<txInput, txEntries, txIndex>>

TxStep == \/ Prepare \/ ResolveAddressBook \/ SkipEntry \/ SubmitEntry \/ DirectFails
          \/ DirectReceipt \/ PassThrough \/ AwaitReceipt \/ Attempt \/ Rebuild
NetworkStep == \E id \in Ids : Handle(id)

-----------------------------------------------------------------------------
(***************************************************************************)
(* The inscription is paid for at most once, whichever strategies were     *)
(* tried and whichever replies were lost: every strategy keeps the id, and *)
(* only a new id could take effect a second time.                          *)
(***************************************************************************)
PaidAtMostOnce == Cardinality(Paid) <= 1

(***************************************************************************)
(* ExecuteTransaction returns an id only when the network has that         *)
(* transaction with status SUCCESS: acceptance by a node is not enough.    *)
(***************************************************************************)
SuccessMeansPaid == txResult.ok => network[txResult.id] = "SUCCESS"

(***************************************************************************)
(* Both together: a call pays once when it succeeds, and at most once when *)
(* it returns an error.                                                    *)
(***************************************************************************)
PaidOnce == PaidAtMostOnce /\ SuccessMeansPaid
=============================================================================
