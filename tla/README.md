# Verification of standards-sdk-go

TLA+ models, TLC runs and TLAPS proofs for `hashgraph-online/standards-sdk-go`,
the Go SDK for the HCS standards of Hedera. Paths are relative to `src/`.

## 1. The system

The SDK is a set of client packages. Most of them build a message, sign and
submit one transaction, or read a topic back from a mirror node. What keeps
state, runs concurrently or goes through several steps is listed here.

| Component | State | Operations | Interacts with | What is hard | What makes it correct |
|---|---|---|---|---|---|
| HCS-20 points indexer (`pkg/hcs20/indexer.go`) | derived ledger, one cursor per topic, two channel fields | `IndexOnce`, `StartPolling`, `StopPolling`, four message handlers | mirror node, callers, its own polling goroutine | the mutex is dropped across every query and between messages; failing queries; a registry that contradicts itself; start and stop from several goroutines | points are conserved, supply stays within the maximum, each message counts once and in order, nothing is skipped, polling starts, stops and does not double |
| Mirror client (`pkg/mirror/client.go`) | none | `GetTopicMessages` follows page links, other single queries | every package | pages of a topic that grows; all-or-nothing paging | a read has no gaps and shows what was there when it began |
| HCS-20 client (`pkg/hcs20/client.go`) | two default topic ids, without a lock | deploy, mint, transfer, burn, register, create topics | Hedera network, mirror node | an error after the submission was accepted; topic ids replaced while calls use them; a mirror node that lags | what a call reports as done can be read from then on |
| Registry broker chat (`pkg/registrybroker/chat.go`, `encrypted_chat.go`, `chat_handle.go`) | conversation contexts per session, the handles it returns | start and accept a conversation, send, fetch and decrypt history | broker service, the other side of the session | handshake between two parties that poll and time out by themselves; requests that fail after they took effect; a slice of contexts read without the lock | both sides end in one mode with one secret; nothing that must be sealed goes out in clear; what was sealed can be opened; every wait ends; history credits are bought once |
| Registry broker client (`pkg/registrybroker`) | default headers behind a mutex | agents, credits, login, skills, search | broker service, Hedera network | automatic top-up while others spend; answers that are lost; a login in three critical sections | a call registers once; requests carry the headers of their caller |
| Inscriber (`pkg/inscriber`) | none that lasts | authenticate, start, execute, wait (HTTP or websocket), via the broker | inscription service, Hedera network | several ways to submit one transaction; lost replies; events of other jobs; timers | paid once, for the job that was created; confirmed means inscribed; every call returns |
| HCS-27 checkpoints (`pkg/hcs27`) | none | Merkle roots and proofs, publishing and reading checkpoint chains | inscriber, mirror node | boundary cases of the proofs; metadata that cannot be resolved yet | a proof verifies exactly when it is true; an accepted chain has no gap |
| HCS-26 skills (`pkg/hcs26`) | none | resolve a skill from directory, versions and manifest | mirror node | four reads while publishers write | the skill resolved is not older than the call |
| HCS-2 registries (`pkg/hcs2`) | registry type cache | create, register, update, delete, migrate, read | inscriber, Hedera network, mirror node | check-then-fill cache shared by goroutines, large payloads | a non-indexed registry gets no change; a read is what was written |
| HCS-18 discovery (`pkg/hcs18`) | none | announce, propose, respond, withdraw, complete, readiness | Hedera network, mirror node | responses that are withdrawn, doubled or rejecting | a completed proposal was accepted by its members |
| HCS-16 floras (`pkg/hcs16`) | none | create an account with three topics, announce it | Hedera network | creation that fails half way and is begun again | a completed flora has its account and its own three topics |
| HCS-17 state hashes (`pkg/hcs17`) | none | hash an account or composite, publish, verify | mirror node | sources read one by one while they grow | a hash verifies exactly when nothing changed |
| HCS-14 universal agent ids (`pkg/hcs14`) | none | make ids, resolve them by profiles | DNS, web, DID resolvers | four profiles with follow-ups and fallbacks over answers that change | resolved means confirmed |
| HCS-11 profiles (`pkg/hcs11`) | none | inscribe a profile or image, set the memo, fetch | inscriber, Hedera network, CDN | an inscription paid for and a memo refused; several writers | the account never names a profile that is not there |
| HCS-10, 12, 15, 21, 5, 6, 7, shared helpers, examples | none or configuration | single submissions, formatting, validation | Hedera network, mirror node | little control of their own | formats |

The packages meet in three places only: those that inscribe call the inscriber,
those that read call the mirror client, and an application's goroutines share a
client. Every model that needs one of the first two has its outcomes as actions
of its own.

## 2. Modules

    Hcs20Ledger                the derived ledger: handlers as operators on a ledger
      PointsReplica            what an indexer promises (abstract specification)
      Hcs20Indexer             IndexOnce by one or several goroutines
      Hcs20PolledIndexer       Hcs20Indexer and Hcs20Polling composed
    Hcs20Polling               StartPolling, StopPolling and the polling loop
    Hcs20Ledger_proofs, PointsReplica_proofs,
    Hcs20Indexer_proofs, Hcs20PolledIndexer_proofs
    EncryptedChat              StartConversation, AcceptConversation and the key exchange
    ConversationContexts       the client's slice of contexts and its readers
      SharedContexts           ... used by all goroutines of an application
      ChatHistory              EncryptedChat and ConversationContexts composed, with messages
    Chat_proofs
    BrokerRegistration         RegisterAgent with automatic top-up
    BrokerRequests             default headers, requests and the ledger login
    TransactionExecution       ExecuteTransaction: the payment of an inscription
      Inscriber                one inscription, from its options to its response
    PointsClient               the HCS-20 client, the mirror node and its pages
    MerkleProofs, Checkpoints  HCS-27
    TopicRegistry              HCS-2
    SkillRegistry              HCS-26
    Floras                     HCS-18 and HCS-16
    StateHashes                HCS-17
    UaidResolution             HCS-14
    AccountProfiles            HCS-11
    Clients_proofs             PointsClient, Checkpoints, TopicRegistry, SkillRegistry,
                               Inscriber
    Agents_proofs              BrokerRegistration, BrokerRequests, AccountProfiles, Floras,
                               UaidResolution, StateHashes
    Merkle_proofs              MerkleProofs
    MC*.tla, *.cfg             inputs and bounds of the runs

**Hcs20Ledger.** `Ledger` is `PointsState`: deployed points, current supply, the
balances with their key set (`holders`: an account with an entry of 0 may
transfer 0, one without may not), recorded transactions and
`LastProcessedSequence`. Each handler holds the mutex from its first read to its
last write, so `ProcessDeploy`, `ProcessMint`, `ProcessTransfer`, `ProcessBurn`
are functions from ledger to ledger; every early return is a conjunct of
`MintAccepted`, `TransferAccepted` or `BurnAccepted`. Amounts are `big.Int` in
the code and naturals here. Ticks, accounts and topics are taken after
normalization. Names, memos and timestamps are left out.

**PointsReplica.** The abstract specification: topics grow, and some topic's
next parseable message is applied under a ruling on whether the topic is
private. The public topic never is; the first register message rules for others;
a caller's own list counts as private for topics the registry had not named.

**Hcs20Indexer.** One action per critical section or query of `IndexOnce` and
`indexTopic`: reading the cursor, the query, handling one message, writing the
cursor. Locals of a call are functions over `Workers`. A failed query ends the
call (`QueryFails`), whatever topics were left. A message that does not decode,
parse or validate is `Garbage`: it is skipped and does not raise `maxSequence`.

**Hcs20Polling.** The two channel fields are one number (`current`), since both
are set and cleared together under the mutex. `StopPolling` is three steps: take
the channels, close the stop channel after unlocking, wait for the done channel.
The loop's `select` may take any ready case.

**Hcs20PolledIndexer.** Loop *i* is worker *i*. A loop enters `indexing` with the
first step of its `IndexOnce` call and leaves it with the last.

**EncryptedChat.** One `StartConversation` call, which creates the session, and any
number of `AcceptConversation` calls for it. An action is the code between two
requests; `phase` is where a call is: creating the session, posting its key,
polling the handshake (`poll`, `check`), polling the summary (`summary`,
`unready`), holding the derived secret, returned. A key is named by the call
that generated it, and a secret is the set of the two keys: both sides derive
the same from them (`DeriveSharedSecret`). `CallFails` stands for every error a
request, the context or a malformed peer key can cause. External are the broker
(`session`, `posted`, `BrokerTakes`, `EnableEncryption`) and the clock
(`DeadlinePasses`). `CreateSession`'s retry after buying credits is
`TopUpHistory`.

**ConversationContexts.** `arrays` are the backing arrays that have been allocated
and `contexts` is the slice header in the map. A registration holds the lock: it
overwrites the first match in place, or appends, in place where the array has
room and to a copy of twice the size where it has not. A reader copies the
header under the lock and then reads elements of *its* array; an element is
copied word by word, since nothing orders the copy with a registration. An
identity is a set of names, and matches if one name is shared.

**SharedContexts** adds the callers, and records what an indivisible
`ResolveDecryptionContext` could have returned.

**ChatHistory** composes the two: `FinishHandle` is `CreateHandle` together with the
registration it makes before it returns. `Send` seals under the handle's secret;
readers fetch, resolve and open. All calls use one client, so that the contexts
of both sides meet in one slice.

**BrokerRegistration.** One action per request of a registration: quote, purchase,
registration, poll. `enrolment` holds a call's locals, the shortfall and the
attempt among them; the broker's account, what it registered and the job are
outside. Every request may take effect without an answer (`AnswerLost`; a purchase
that fails after it was paid), and others spend between requests. Credits are in
halves because `resolveCreditsToPurchase` rounds up.

**BrokerRequests.** `defaultHeaders` with one action per critical section: a login
writes the API key (`SetLedgerAPIKey`), drops the ledger key (`DropLedgerKey`) and
may set the account (`SetAccountHeader`), with anything in between. `fresh` is a
history of the headers written since a login got its key.

**TransactionExecution.** `txPc` follows `ExecuteTransaction` through its ways of
submitting one signed transaction: to each entry of the prepared list, with the
SDK, in four combinations of operator and signature, rebuilt. The network records
each transaction id (`network`); a reply may be lost after that.

**Inscriber** adds the call around it: options, authentication, start, and waiting.
The socket's handlers, its three channels with their capacities, the inactivity
timer and the polls are separate actions. `outbox` is what the service has sent
and no handler has taken yet. The service and the events of other jobs are external.

**PointsClient.** Several operations of one client under way at once. A call reads
its target topic when it begins and, for a payer check, the public id again. The
mirror node shows a growing prefix (`ingested`), and `paging` is a read of
`GetTopicMessages`, one page at a time. Its `limit` is the size of a page.

**MerkleProofs.** Roots and the two verifiers as functions over hash terms, and an
auditor that verifies RFC 9162 proofs, proofs of other logs and malformed ones. Where the
code cuts slices and calls itself, the model counts: `Subtrees` is the table of all roots by
size and first leaf, of which `NodeOver` is one. The three halving loops are one
(`HalvedWhile`), and a walk is a fold of its step over the path.
**Checkpoints.** A publisher that inscribes large metadata, chunks that arrive one
by one, and a reader that lists, resolves and validates.

**TopicRegistry.** Goroutines with one cache of registry types; `read2` is a reader
that decodes entry by entry. A message keeps a history of who is answerable for it
(`via`): it was checked against the type of its registry, its caller named the type,
it came through the exported `SubmitMessage`, which checks nothing, or from other
software. **SkillRegistry.** `ResolveSkill` request by request.
**Floras.** An application that makes the calls in the order of its proposal; the single
calls and `IsProposalReady` are the packages'. **StateHashes.** A publisher and a verifier
read the same sources one by one. **UaidResolution.** One lookup per action, over a
`zone` that changes; the profiles still to be tried are a set, taken in the registry's order
(`First14`), and `seen` keeps what `zone` was during the call. **AccountProfiles.** Inscription and memo update of several
programs, and a reader.

`MCClients`, `MCAgents` and `MCPointsReplica` put parts that share no state into one
run: a variable names the part a behaviour is about, the others rest.

Definitions named after a slip (`MoveStale`, `SkippedWithoutSeen`,
`FieldReadAgain`, `TimeoutUnavailable`, ...) are wrong variants of the definition below them. They are
used for mutation runs, which show that each property can fail.

## 3. Runs

| Run | Instance | Shows |
|---|---|---|
| `Replica` | the ledger: one tick, two accounts, one registered topic, four messages out of thirteen kinds and garbage, two registry entries; or the points client: two callers, three topics, pages of one message; or an HCS-2 registry: two goroutines, two entries | conservation, maximum supply, mint limits, an auditable record, consent outside private topics, although deploy messages for the tick may repeat; what a call reported is in every read that begins later; the checked operations of a registry make no change its type forbids, whatever the cache and lost lookups, and `GetRegistry` returns what is on the topic, also of what `SubmitMessage` and others post |
| `IndexerSolo` | one worker with default options, two topics, two messages each, a registry of two entries that may contradict each other | refinement of `PointsReplica`, and so each message once and in order; every message of a followed topic is applied in the end |
| `IndexerRacing` | two workers on one topic of three messages | conservation and nothing skipped hold although messages are applied twice; the inductive invariant, which includes the types and the maximum supply |
| `PollingShared` | two callers, two loops | no double close, no orphan loop, `StopPolling` returns, a cancelled loop ends, a loop keeps indexing |
| `PollingRefused` | the same | violated: see section 7 |
| `PolledOwner` | one caller, two loops, two topics, a private topic named twice | one loop at a time; exactly once in order across stop and restart; refinement of `PointsReplica` |
| `PolledOverlap` | two callers, two loops, the public topic | violated: see section 7 |
| `ChatPair` | one call on each side, all preferences, one reader, two messages | what a reader fetched opens, credits are bought once, every call returns; the invariants of the proofs |
| `ChatCrowd` | the chat: two `AcceptConversation` calls, all preferences, one message; two registrations of 1.5 credits, two spendings of others; two goroutines that log in and send requests; a flora of three members, two attempts; three sources of state | modes and secrets of the two sides agree and nothing that must be sealed is sent in clear, while the responders' keys replace each other; one registration per call; headers of the caller; a completed flora is whole; a state hash verifies exactly when nothing changed |
| `Clients` | contexts: four identities (three agents and nobody), two secrets, one reader; trees of up to six entries; three checkpoints of two logs, one inscribed; three changes to a skill; one change to what an id resolves to; two inscriptions, two memos | the newest secret of an identity wins and a read without the lock returns what it could have returned under it; proofs verify exactly when they are true; accepted checkpoint chains have no gap; resolved skills and ids are current and confirmed; an account names only profiles that exist |
| `Inscription` | nine calls, seven payments with lists of up to two entries, two polls, one inactivity tick, one foreign event | paid at most once and for the job that was created; confirmed means inscribed and paid; every call returns |
| `SkillYank` | one change | violated: see section 7 |

Why the bounds are enough: a refusal depends on at most the deploy message, the
mints before it and one more message, which four messages reach; a stale cursor
needs two workers and a batch that grows between their queries, which three
messages reach; the races between start and stop need two callers and two loops.
In a chat, two responders are the fewest whose keys can replace each other, and
two messages the fewest of which one is sent before and one after a reader has
fetched; `append` first writes in place for a fourth identity.
A registration that is refused after its quote needs one other that spends, twice to
be refused again; a transaction that is paid twice needs a second way and a second id;
six entries give paths of three hashes and right subtrees of one and of two. A gap in a chain needs three checkpoints. A header lost between critical
sections needs two goroutines. The theorems of section 5 have no bounds.

## 4. Fairness

`Hcs20Indexer!Fairness`: local steps of a goroutine are weakly fair (the Go
scheduler runs every goroutine). Queries are strongly fair per topic, since a
query that is repeated forever succeeds now and then; the polling loop
(`Hcs20Polling`) is what repeats them, and it ignores errors of `IndexOnce`.
`Hcs20Polling!PollingFairness`: `IndexOnce` returns and the ticker keeps firing
(weak); `select` chooses at random among ready cases, so a case that is ready
again and again is taken (strong). Starting, stopping and cancelling are never
assumed to happen. Where a cycle fails for ever on one topic, the topics after
it in the same cycle are never read: `EveryMessageIndexed` holds only under the
strong fairness of every topic's query.
`ChatHistory!FairHistorySpec`: a call that has begun is run on, its requests
return, and deadlines pass (weak). That the other side ever calls, that the
broker enables encryption and that keys arrive is not assumed.
`Inscriber!InscriberSpec`: the goroutine of the call, the inactivity timer and the
socket's reader run on (weak); HTTP requests return because the client has a timeout.
Nothing is assumed of the service, the network's handling of the payment or the
caller's context: `InscribeReturns` holds for a service that stays silent, and for one
that sends foreign events as long as there are finitely many.

## 5. Proofs

Theorems hold for all values of the constants: any ticks, any number of accounts,
topics, workers, callers, loops, calls, identities and members, and any number of
messages. Where a theorem assumes more it says so below.

**The ledger** (`Hcs20Ledger_proofs`).

* `ProcessMessageSound`: every handler preserves `LedgerInv`. The sum of the
  balances is a recursive function over accounts; `RunningTotalDef` shows it is
  well defined and `TotalOfUpdate` what one changed entry does to it, both by the
  least counterexample (well-founded induction on the naturals).
* `ProcessMessageAudited`: every handler preserves `Audited`, which relates each
  balance and each supply to the recorded transactions. The handlers append a
  transaction and change one or two balances; the lemmas on the counters of a
  record say by how much it grows.

**The abstract specification** (`PointsReplica_proofs`). `ReplicaInvariant`:
`ReplicaInv` is inductive. It joins the types, `LedgerInv` and `Audited`, and adds that
each transaction names a message that is on its topic, and had the consent of
the account it takes from or came from a topic that may be ruled private. The
last holds for ever because rulings are only added. From it: `ReplicaConserves`,
`ReplicaSupplyBounded`, `ReplicaKeepsLimits`, `BooksAudited`, `ConsentKept`.

**The indexer** (`Hcs20Indexer_proofs`).

* `IndexerInvariant`: `IndexerInv` is inductive. `NothingSkipped` alone is not: a
  call writes a cursor from its own snapshot and batch, so `InFlight` adds that
  the snapshot, and the part of the batch already handled, are covered by what
  was applied. From it: `TypesHold`, `PointsConserved`, `SupplyBounded`,
  `NoMessageSkipped`. `BooksKept`: the books are audited also while several
  workers apply a message twice.
* `OneWorkerExactlyOnce`: with one worker, `OnceInv` adds that nothing recorded
  of a topic is newer than its cursor, except by the call applying a batch.
* `TopicsRuled`: however many workers, a call indexes each topic under a ruling the
  registry or a caller's list gives it. `RulingsInv` says so of what is queued and of
  what is being indexed, and that only messages that do not parse lie between the
  highest sequence number seen and the next message of a batch.
* `OneWorkerImplementsReplica`: with one worker, `Spec` implements `PointsReplica`. The
  mapping takes, for the topic being indexed, the messages of the batch already
  handled, and else the cursor. Applying a message is the replica's step: `OnceInv`
  makes it the next one, `IndexerInv` makes the messages between garbage, and
  `RulingsInv` makes its ruling one the replica has. All other steps of a worker
  stutter, since garbage moves what is done over what does not parse.

**Polling and its composition** (`Hcs20PolledIndexer_proofs`).

* `PollingInvariant`, `NoDoubleClose`, `NoOrphans`: `PollingInv`
  adds that the channels in the fields are fresh and that callers that have still
  to close one hold different ones. `OneCallerOneLoop` needs `OneLoopInv`.
* `SystemImplementsParts`: the composition implements both components, so their
  theorems hold of it. `OneCallerExactlyOnce` and `OneCallerImplementsReplica`: with
  one caller, across any number of stops and restarts, the composition
  applies every message at most once and implements `PointsReplica`, because a worker
  inside `IndexOnce` is the loop that is indexing (`Coupled`) and there is one such loop.

**The chat** (`Chat_proofs`).

* `ChatInvariant`: `ChatInv` is inductive. The properties are not by themselves:
  it adds that the broker holds keys only of calls that have passed the last
  point at which they could fall back (`Committed`), each under its own role, and
  that a call derives its secret from such a key. From it: `ModesNeverMix`,
  `EndsAgree`, for any number of `AcceptConversation` calls.
* `HistoryImplementsChat`: every step of `ChatHistory` is a step of `EncryptedChat`
  or leaves it alone, so the theorems hold of the composition.
* `ClearOnlyByChoice`: `NoMessageInClear`, for any number of calls. A message keeps
  the mode of the handle that sent it, and a handle that has been returned is final.
* `HistoryInvariant`, `HistoryOpens`, for a conversation of two calls (`TwoCalls`)
  and any number of readers, identities and messages: every slice a reader may be
  looking at, in whichever array, holds the pair's secret and nothing else
  (`SliceOpens`), and a sealed message implies a registered context. The lemmas
  `ElementWritten`, `ArrayAdded` and `RegisterKeeps` say what the three ways of
  registering do to all arrays, whatever the identities.
* `SharedInvariant`, `ResolvesToNewest`, `ReadersStayCurrent`, for identities of which
  no two share a name (`Apart`): the newest secret of an identity wins, and a reader
  that copies elements word by word without the lock returns what it could have
  returned under it, or, from the fourth identity on, a first context newer than that.
  `SharedInv` ties a reader's slice to the array it was cut from: up to two contexts an
  array has no room, so that its slices are all of it or it has been left behind;
  identities stay where they are in what a reader looks at; what it has passed is not
  what it wants; and each word it has copied was there during its call. Identities that
  overlap are outside this theorem and the runs: they may match each other's contexts.

**Inscriptions** (`Clients_proofs`). `InscriberInvariant`, `PaysOnce`,
`ConfirmsWhatItPays`, for every request, transaction list, number of polls, ticks and
foreign events. `PaidOnce` is not inductive: `PaymentInv` adds that the network knows
no id but the one the service chose and that a receipt is awaited for that id only. For
the confirmation, `CallInv` ties every step of the call to the job and the payment made
so far, and `EventsInv` says that no event on its way, in the outbox or in a channel,
announces the job before it is completed. What `Listen` takes may be stale, never untrue.

**Clients and agents** (`Clients_proofs`, `Agents_proofs`). The properties are about what a call returned, or a
reader read, long after the steps that made it true; each invariant carries that along
the call.

* `RegistriesAreSound` (HCS-2): `RegistryInv` says that what the cache knows of a topic
  is what its memo says, which never changes, so that a call that has passed the check is
  still allowed when it posts. This is of `UpdateEntry` and `DeleteEntry` without a type of
  their caller's: `SubmitMessage` is a step of the specification, but what it posts was not
  checked, and the property only says how it is read. And of a read, that the entries so
  far are the readable ones of
  what was fetched, each once, in the order asked for.
* `SuccessfulCallsAreRead` (HCS-20): `PointsInv` says that what a call has sent stays at
  its place, that the mirror shows a prefix, and that a read that began with so many
  messages visible has every one of them, or its next page begins before it (`ReadingOf`).
* `SkillsAreCurrent` (HCS-26): `SkillInv` ties the scan of the directory and the version
  that was chosen to what was there when the call began. No status is known of a
  register when it is listed (`TopicsOK`), which is also why `SkillYank` is violated. The
  property asks for a version at least as high as the active ones that no update or
  deletion names (`Untouched`), so that it is as true of a client that heeds them, be they
  older than the call or made during it.
* `CheckpointsKeptWhole` (HCS-27): `CkInv` says that each checkpoint on the topic, and the
  one under way, continues a root not smaller than any before it in its log. An accepted
  chain links each record to the one before, so a tree that lies between two linked
  ones has the root of the first (`AcceptedHasNoGap`). Of each inscription the
  publisher's chunks are there up to some number, and the first chunk is one of them;
  therefore a reference reads as what was published or as nothing (`FilesReadWhole`).
* `RegistersAtMostOnce`, for any number of goroutines, any cost, any balance:
  before its registration was answered a call has registered nothing, so that only
  a refusal leads back to another attempt (`Enrols`).
* `CarriesItsOwnHeaders`, for any number of goroutines and any keys: `RequestsInv`
  adds that the map never holds a token of a call and that a login which has passed
  a critical section finds its header among those written since.
* `MemoNamesProfiles` (HCS-11): `ProfilesInv` follows a payment: an inscription that
  completed stays so, only the call that started one pays for it, a call sets the memo
  only to a profile it saw complete, at once or later with `UpdateAccountMemoWithProfile`,
  and whoever else writes memos, one of the package's names such a profile.
* `FlorasAreWhole` (HCS-18 and 16), for a finite set of members: `FlorasInv` says which
  topics exist at each step of forming a flora and that what was announced is
  complete. A proposal that is ready was accepted by each other member
  (`ReadyMeansAccepted`: the newest answer of each is one of those counted).
* `ResolutionsAreConfirmed` (HCS-14), for any number of changes: `ResolutionInv` says
  that each profile no longer to be tried was refuted, if nothing changed or was lost; that
  while one profile is followed up, the record that led to it was seen and the follow-ups
  already made were refuted too; and that the documents and the agent record kept between
  two lookups were there at some time during the call.
* `HashesMeanStates` (HCS-17), for finitely many sources and any order in which the two
  parties list them. A set of distinct ids has exactly one sorted listing: places are
  ranks, and two sortings that differ would differ at a first place. So equal hashes are
  of equal readings. `HashesInv` adds that a party that reads has each source behind it,
  with a reading that it once showed, or before it, and that what is anchored or
  verified is the hash of a complete list.

**Merkle trees** (`Merkle_proofs`), for trees of every size with any leaf hashes.

* `InclusionMeans`, `ConsistencyMeans`: whatever the path, an accepted proof is true.
  Pairing the hashes of a level (`Pairs`) gives the level above, with the same root
  (`RootOfPairs`), although the reference splits at the greatest power of two. A step of
  the walk at a level leads to the level above, so that a proof accepted there would be
  accepted here (`InclusionSound`, `ConsistencySound`, by induction over sizes); equal
  roots over equally many leaves have equal leaves (`RootInjective`).
* `InclusionComplete`, `ConsistencyComplete`: the paths of RFC 9162 lead to the root. The
  path to a leaf is its sibling and the path to their pair (`PathOfPairs`). The
  consistency proof of an even old size is the one of the level above (`ProofOfPairs`), that
  of an odd one is the last old leaf and the path to it (`ProofOfOdd`), which is why
  the verifier puts the old root first exactly when the old size is a power of two.
* `ProofsTellTheTruth`: the auditor's verdicts, from these, for any `MaxTree`. The order of an
  entry's members does not matter (`CanonicalObject`) and its leaf hash tells it from
  others (`LeafHashesTell`).

Assumptions on the constants: there is an account, the values standing for
"absent" are not real values, published messages and registrations are well
formed, loops are workers; chat calls are distinct, secrets are sets of calls; a
registration costs something; the token of a call is none of the values a default
header is given; requests and transaction lists are well typed; a page holds a message
and there are topics beside the first; the members of a flora are finitely many and the
proposer is one of them; a state hash has finitely many sources;
`MaxTree` is a number. TLC evaluates each of them on every run that uses its module.

Every invariant a run checks is proved. Only model-checked:

* liveness (`EveryMessageIndexed`, `StopReturns`, `CancelledLoopEnds`, `KeepsIndexing`,
  `CallsReturn`, `InscribeReturns`), which needs fairness and ENABLED;
* what violated runs show.

## 6. Plan

Done: the HCS-20 indexer and client, the registry broker's chat, registration and
headers, the inscriber, and the stateful part of HCS-2, 11, 14, 16, 17, 18, 26, 27.

Left, in this order:

1. HCS-10 connections, whose requests and confirmations an application has to match.
2. `AccountProfiles` composed with `Inscriber`, which it abstracts to paid, completed
   or failed.
3. Joining a flora (HCS-16) on top of `Floras`.

## 7. Findings

* `PolledOverlap`: `StopPolling` clears the channel fields before the loop has
  ended; a `StartPolling` from another goroutine then runs a second loop beside
  the first, and messages are applied twice. The same happens whenever two
  goroutines call `IndexOnce`: no lock spans reading a cursor and writing it.
* `PollingRefused`: a loop that ends with its context leaves the fields set, and
  `StartPolling` reports that polling is already running.
* `SkillYank`: `ListVersionRegisters` (`pkg/hcs26/client.go:258`) applies status
  updates and deletions to the registers that come after them in the topic, where they
  never name one. A version that was yanked before the call is resolved, although the
  package promises the active state of a skill.

Observed, and with no run of its own:

* From the fourth identity of a session on, `ResolveDecryptionContext` may return
  a first context that is newer than the moment at which the identity asked for
  had none (`ResolutionCurrent` says so).
* A handshake that completes just after one side has timed out leaves that side
  with an error and the other with an encrypted handle.
* Of two `AcceptConversation` calls for one session, at most one shares its secret
  with the requester.
* `SetPublicTopicID` between the two reads of the public topic id lets a transfer of
  somebody else's points reach the public topic, where the indexer refuses it.
* An error of an HCS-20 operation says nothing about whether the message is on the
  topic, so that a caller who tries again may mint twice.
* Every event on the inscriber's socket, also of other jobs, restarts the inactivity
  timer, and an error event of another job ends the wait.
* The HCS-2 client's `SubmitMessage` (`pkg/hcs2/client.go:375`) validates nothing and
  looks at no type: an update reaches a registry that is not indexed this way, and so does
  a message of no operation, although a comment in a test says of one that it "will fail
  the validation step" (`pkg/hcs2/coverage_test.go:498`; there the network refuses its
  operator). No run is given to this: it is what the function's three lines do.
* A UAID made from a DID of another method with a native id of HCS-10 resolves to
  a Hedera DID put together from its parts.

## 8. Not modelled

* HCS-10, 12, 15, 21, 5, 6, 7, the shared helpers and the examples: one submission or
  query per call, with nothing that lives longer than the call. What could go wrong in
  them is a format.
* Chat: `StartChat` with an agent URL, `CompactHistory` and `EndSession` (single
  requests), the cryptography of an envelope but for which secret opens it, and several
  sessions of one client, which share nothing but the map.
* Indexer: malformed topic ids in `IndexOptions` (an early return that changes
  nothing); a registry topic that is at the same time a points topic. The order in which
  messages of different topics take effect depends on the cycles; nothing in the code
  promises one.
* Registry broker: paths and bodies of endpoints that are one request each.
* Inscriber: the cost summary, which only reports, and the encoding of transactions.
* Mirror client: single queries and URLs.
* HCS-2: keys, the transaction builders a caller executes, and of `ValidateMessage` the
  checks of protocol, `t_id`, memo and ttl, which tell no property apart. HCS-26: memos.
* HCS-18: the creation of the discovery topic. HCS-16: the messages of a running flora.
* HCS-17: the creation of the topic, `SubmitMessage` with a hash that the caller brings
  (its verification fails unless it is of the same readings), and key fingerprints.
* HCS-11: profile builders, which are setters. A topic that a caller of
  `UpdateAccountMemoWithProfile` has from elsewhere counts as content of others
  (`OthersSetMemo`), about which nothing is claimed; that includes the topic of an image or
  of an inscription that is not completed, which the package does not refuse. The service is
  taken to name a topic for each inscription it completes: `InscribeProfile` does not check,
  and the memo would name none.
* A state hash of readings of different moments, and broker requests that combine headers
  of two logins: both occur in the models, and no document rules them out, so that no
  property forbids them.
* Hashes: SHA-256 of HCS-27 and SHA-384 of HCS-17 are taken as injective, and the
  concatenation that HCS-17 hashes as unambiguous. Canonical JSON and base58 of HCS-14
  are left out.
* Mirror and inscription service, DNS, CDN, network and broker are external: they are
  modelled by the outcomes the code tells apart.
