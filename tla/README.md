# Verification of the cloud drive

TLA+ models of the cloud drive in `src/`: a file service with resumable
uploads, versioned files, idempotent mutations and an account change feed, on
PostgreSQL and a directory of immutable objects. TLC checks the models on small
instances; TLAPS proves all of their safety properties and refinements for every
instance. Line numbers below are those of the files in `src/src/`.

## 1. The system

A request passes `http-server.js` (routing, headers, status codes),
`cloud-drive-service.js` (validation, owner fingerprint, request digest, fresh
UUIDs) and `postgres-repository.js` (one transaction), which uses
`object-store.js` for content. Requests run concurrently: Node interleaves them
at every `await`, that is at every SQL statement and file operation, and several
processes may share the database. All coordination is done by PostgreSQL row
locks and unique indexes; no state is shared in memory but the pool.

| component | state | operations | hard behaviour | what makes it correct |
|---|---|---|---|---|
| Namespace mutations (`postgres-repository.js:292-585`) | `accounts`, `files`, `file_versions`, `mutation_requests`, `account_changes`, consumption of uploads | `createFile`, `updateFile`, `deleteFile` | interleaved transactions of an account, waiting for rows, lost responses and retries, crashes around COMMIT, rejected results that are durable too | gap-free revisions, no silent overwrite, unique active names, one result per key, all rows of a mutation or none, no deadlock, every request ends |
| Resumable uploads (`:107-290`) | `upload_sessions`, `upload_chunk_requests`, objects | `openUpload`, `headUpload`, `commitChunk`, `finalizeUpload` | the race for a key (23505), chunks racing for an offset, retries after finalization, objects stored before rows | one upload per key, chunks tile the bytes, finalized is what was declared, told offsets are durable |
| Change feed (`:637-683`, `cloud-drive-service.js:177-218`) | reads `accounts`, `account_changes` | `createStartToken`, `listChanges` | pages read in two transactions while mutations commit, late and repeated answers, old tokens | a page chain delivers each change up to its high-water mark once, in order |
| Cursors (`cursor-codec.js`) | none (HMAC secret) | `checkpoint`, `page`, `decode` | tokens of other owners, damaged tokens | a decoded token is one the server built for this owner |
| Object store (`object-store.js`) | files below `objects/` | `put`, `read`, `verify` | two puts of one digest, a kill or power failure between write, sync, link and unlink | an object read is the object named, never a part of it |
| Reads (`postgres-repository.js:587-635`, `contracts.js:122-146`) | none | `readFile`, `readContent`, byte ranges | content read after the row lookup; boundary ranges | bytes of one version, exactly the range |
| Locks across operations (`postgres-repository.js`, foreign keys of `schema.js`) | row locks, uncommitted keys, connections | all | mutations, opens, chunks and feed requests wait for rows and connections of each other | nobody waits in a circle, every operation ends |
| Pool and lifecycle (`main.js`, `#connect`) | connections, server | acquire, release, shutdown | exhausted pool, callers that leave, two signals | who waits holds nothing, no caller is cut off, a signal ends the process |
| Errors, crypto, contracts, HTTP | none | pure | | |

Interactions: `createFile` and `updateFile` consume a finalized upload under
its row lock; the change feed reads what the mutations publish; reads use
version rows and objects; `openUpload`'s foreign key needs a share of the
account row that mutations hold `FOR UPDATE`.

`PROJECT.json` lists every component and every hazard at its line, with the
properties that cover it or the reason why none does yet.

## 2. Modules

| module | what it is |
|---|---|
| `Namespace` | the mutations, one action per SQL statement that waits or decides |
| `DriveLog` | what the mutations promise: an append-only log of results, one atomic step per mutation |
| `NamespaceProofs` | theorems about `Namespace`: types, locks, revisions, answers, names |
| `NamespaceLogProofs` | theorems about its history, and that it implements `DriveLog` |
| `MCNamespace` | instances of `Namespace` for TLC |
| `Uploads` | the upload operations, statement by statement |
| `ByteLog` | what uploads promise: one append-only byte string per key, sealed when it is the declared one |
| `UploadsProofs` | theorems about `Uploads`, and that it implements `ByteLog` |
| `MCUploads` | instances of `Uploads` for TLC |
| `ChangeFeed` | start tokens and pages, statement by statement, and clients that follow an account |
| `ChangeStream` | what the feed promises: the changes in order, read in sessions whose end is fixed |
| `ChangeFeedProofs` | theorems about `ChangeFeed`, and that it implements `ChangeStream` |
| `ObjectStore` | put, read and verify as file operations, with kills and power failures |
| `BlobSet` | what the store promises: a set of contents to which a put adds in one step |
| `ObjectStoreProofs` | theorems about `ObjectStore`, and that it implements `BlobSet` |
| `ReadPath` | reads of metadata and content between mutations and lost objects |
| `ByteRange` | `parseSingleByteRange`, and the positions that a header selects |
| `ReadPathProofs` | theorems about `ReadPath` and the byte ranges |
| `Contention` | every operation of the repository as the connection and locks it takes |
| `ContentionProofs` | that the order of locks and connections admits no deadlock |
| `Lifecycle` | connections, callers, signals and the end of the process |
| `LifecycleProofs` | theorems about the pool and the shutdown |
| `MCChangeFeed`, `MCObjectStore`, `MCReadPath`, `MCContention`, `MCLifecycle` | their instances for TLC |

### Correspondence with the code

*Tables* are variables: a map from generated id to row, or a set of rows where
the program computes the key (`changes`, `receipts`, `chunks`). A set does not
enforce uniqueness, so that no constraint of `schema.js` is assumed; the
invariants show that the code never runs into one. The exception is
`UNIQUE (owner_fingerprint, idempotency_key)` of `upload_sessions`, which
`openUpload` relies on: `Uploads` models the index itself (`claim`).

*Requests* are workers with a program counter `pc`, the request (`intent`), the
rows read into local variables (`seen`) and the result on its way (`reply`).

*Transactions* run at READ COMMITTED. A statement that waits for a row is an
action guarded by the row being free. The writes of a transaction cannot be seen
before COMMIT, and after the last row lock nothing can make them fail but the
connection, so the INSERTs and UPDATEs of a mutation and its COMMIT are one
action (`CommitCreate`, `CommitUpdate`, `CommitDelete`, `CommitChunk`); a
failure at any statement before is `Fail`, which rolls back. `openUpload`'s
INSERT is a step of its own (`ClaimKey`), because other requests wait for its
uncommitted row, and so is the installation of a source (`StoreSource`), because
it outlives a rollback.

| code | `Namespace` |
|---|---|
| `BEGIN` in the three methods | `Start` |
| `#ensureAccount` 99-105: insert, or wait for another inserter | `EnsureAccount` |
| `SELECT ... accounts ... FOR UPDATE` 294-298 | `LockAccount` |
| `#existingMutation` 301-309 | `ReplayReceipt`, `RefuseReusedKey`, `MissReceipt` |
| name lookup 355-370 | `RecordNameConflict`, `FindNameFree` |
| file lookup, 410/404, If-Match 444-461, 536-552 | `RefuseFile`, `RecordStaleBase`, `LockCurrentFile` |
| `#finalizedUpload` 333-343 | `RefuseUpload`, `LockUpload` |
| writes and COMMIT 372-424, 463-516, 553-577 | `CommitCreate`, `CommitUpdate`, `CommitDelete` |
| `catch` and `finally` | `Rollback` in `Refuse...`, `Fail` |
| SIGKILL after COMMIT, `main.js:67-73`, or anywhere | `Crash` |

| code | `Uploads` |
|---|---|
| `openUpload` 125-165 | `EnsureAccount`, `ReplayOpen`, `RefuseOpenKey`, `MissSession`, `ClaimKey`, `LoseRace`, `CommitOpen` |
| `#uploadAfterRace` 112-123 | `ReplayOpen`, `RefuseOpenKey` at `pc = "after"` |
| `commitChunk` 180-238 | `StoreChunk`, `RefuseUpload`, `LockUpload`, `ReplayChunk`, `RefuseChunkKey`, `RefuseSealed`, `RefuseOffset`, `CommitChunk` |
| `finalizeUpload` 240-290 | `LockUpload`, `ReplayFinalize`, `RefuseIncomplete`, `RefuseSource`, `StoreSource`, `CommitFinalize` |
| `headUpload` 167-178 | `ReadHead`, `RefuseUpload` |

| code | `ChangeFeed` |
|---|---|
| `createStartToken`, `service:177-188` | `AskStart`, `EnsureAccount`, `ReadRevision` |
| `decode`, `cursor-codec.js` | `Decodes`, `RefuseToken` |
| `listChanges` of the service 190-218 | `AskFromCheckpoint`, `AskPage`, `PageOf` |
| `currentRevision` 637-655, `listChanges` 657-683 | `EnsureAccount`, `ReadRevision`; `EnsureAccount`, `ReadBounds`, `ReadRows` |
| the client, external | `Take`, `Ignore` |

| code | `ObjectStore` |
|---|---|
| `open` of the temporary file, `writeFile`, `sync`, `link`, directory sync, 69-78 | `OpenTemp`, `WritePart`, `WriteRest`, `SyncTemp`, `Link`, `SyncDirectory` |
| `EEXIST` and the verification of what is there 79-82 | `FindExisting`, then `Stat`, `Load` |
| errors, and `finally` | `FailStep`, `RemoveTemp` |
| `lstat`, `readFile` and the digest 35-55 | `Stat`, `RefuseStat`, `Load` |
| SIGKILL, power failure, a change from outside | `Kill`, `PowerLoss`, `Drift` |

| code | `ReadPath` |
|---|---|
| the lookup of `readFile` and `readContent` 587-615 | `Lookup`, `RefuseLookup` |
| `objectStore.read` 617, the slice in the service | `Load`, `RefuseObject`, `parseSingleByteRange` |
| commits of mutations, finalizations, damage | `CreateFile`, `UpdateFile`, `DeleteFile`, `Install`, `ObjectLost` |

`Contention` writes each operation as the sequence of the locks that it takes
(`createFile`, `updateFile`, `deleteFile`, `openUpload`, `lockUpload`,
`readFeed`, `Query`); one worker runs one sequence with `Connect`, the statement
actions and `Commit`, may leave it early where the code returns, and gives
everything back in `Release`. `Lifecycle` writes an operation as the connections
it asks for: `LoseRace` is the `return this.#uploadAfterRace(...)` without
`await`, which asks for a second connection in the turn in which `finally` gives
back the first one. `Signal` is `shutdown`, which calls `server.close`. Node emits
its close event in the turn in which no caller is connected any more, so
`CloseUnless`, the callbacks with their `pool.end`, is part of `Signal` and of
the departure of a caller (`Leave` in `Respond` and `Disconnect`); `PoolEnds` and
`Exit` are the ends of a pool that was in use and of the process.

*Abstractions.* A digest is the value it digests; a request digest is the
intent. An id of a file, version or upload in a request is any id, known to the
caller or not. In `Namespace` an upload's content is one model value and
`openUpload` and `finalizeUpload` are environment steps (`UploadOpened` respects
the foreign key share); in `Uploads` the consumption by a file is one
(`Consumed`). `ObjectLost` takes an object in `Drifting` away, and putting it
again restores it; a damaged object is treated as a lost one, so that a `put`
over it, which the code refuses (`object-store.js:79-82`), is a request that
fails (`Fail`) and not a lasting refusal. In `Uploads` no
mutation holds the account row, so the foreign key check of an open does not
wait; `Contention` has the share lock it takes. The account may be registered by
a feed request (`AccountRegistered`). In `ChangeFeed` and `ReadPath` a mutation
is one step, its COMMIT, because nothing of it can be seen before; a token is a
record, for the HMAC lets nobody but the server build one. In `ObjectStore` a
power failure leaves any part of a file that was not synced and may lose any
directory entry. `replies`, `heard`, `named`, `got`, `past`, `told` and `window`
are history variables of what callers were told or could have seen. Timestamps, byte counts of versions, logging and HTTP status codes are
left out.

## 3. Properties and runs

The properties are defined at the end of each module, each with a comment that
states it. The type invariant of a module is a property of its own (`race`,
`chunks`) or the first part of an invariant (`PagesExact`, `NeverTorn`,
`ReadIsCurrent`, `WaitersHoldNothing`, `NoDeadlock`).

| run | instance | what it shows |
|---|---|---|
| `race` | 2 requests, 1 account, 1 file, 2 versions, 2 uploads; create, updates and deletes over 3 keys, one key for an update or a delete | `TypeOK`, `CommittedPrefix`, `MutationJoin`, `NoSilentOverwrite`, `ReadsStayTrue`, `NoWaitCycle`, `HistoryIsFinal` |
| `names` | 2 requests, 2 files; creates of `Report`, `report`, `notes`, a delete | `NamespaceIsTheLog`, `ActiveNamesUnique`, `AnswersAreDurable`, `ImplementsDriveLog` |
| `accounts` | 2 accounts that use each other's file and upload; the object may be lost; with fairness | `MutationJoin`, `NamespaceIsTheLog`, `EveryRequestEnds` |
| `loser` | as `race` | refutes `LoserRecorded`, see below |
| `chunks` | 2 requests on 1 upload of two bytes: chunks that overlap, collide, overrun, reuse a key or carry a wrong byte; head, finalize, consumption; a chunk object may be lost | `TypeOK`, `ChunksTile`, `SealedAsDeclared`, `ToldIsDurable`, `ReadsStayTrue`, `CommittedChunkAcknowledged`, `UploadsOnlyGrow`, `ImplementsByteLog` |
| `opens` | 2 requests open under 1 key with 2 declarations, append and finalize; another account names the uploads; with fairness | `OneUploadPerKey`, `AnswersFit`, `EveryRequestEnds` |
| `feed` | a client of one of 2 accounts, 2 files, 3 changes in each, pages of 1 and 2, an old token and one of the other account; with fairness and persistence | `PagesExact`, `MirrorIsListing`, `EveryChangeDelivered`, `ImplementsChangeStream` |
| `objects` | 3 puts and reads of 2 contents, one of which drifts | `NeverTorn`, `AnswersTrue`, `ImplementsBlobSet` |
| `reads` | a read by either of 2 accounts of 1 file with 3 versions, 3 contents of 1 to 3 bytes, one of which drifts, every header with numbers up to 5 where 4 is the largest safe one | `ReadIsCurrent`, `FailsOnlyOnDrift`, `SliceIsExact` |
| `contention` | 3 operations of any kind on an account, a file, an upload and a key, 2 connections; with fairness | `NoDeadlock`, `EveryOperationEnds` |
| `lifecycle` | 2 requests of any kind, 1 connection, both signals; with fairness | `WaitersHoldNothing`, `OrderlyShutdown`, `ShutdownEnds` |
| `signals` | as `lifecycle` | refutes `PoolClosedBeforeExit`, see below |

*Bounds.* Two concurrent requests are enough for every race on one row: a third
only queues behind the first two. Where operations of different kinds meet
(`contention`) there are three, one more than the connections; so are there in
`objects`, for two puts and a read of one object. A page request and a read
write nothing that another one looks at, and each answers from what is committed
between its own statements: `feed` and `reads` have one request, next to every
mutation that may commit; a late answer of the feed is one to the old token, and
the wait for a concurrent registration of the account is in `contention`. Two
version ids make a create and one update possible; ids run out, so every history
is finite without a counter bound, and a request that then needs a fresh id can
only fail. `MaxRevision` bounds the mutations of an account in `feed`: three
changes make a chain of three pages of one, a full page that is the last and a
page of two that is followed by one. A file can be created, updated, deleted and
addressed with every stale base in one history; a crash or failure may come at
any point and any number of times. Two bytes give a first, a last and an
overrunning chunk; contents of one to three bytes and numbers up to five give
ranges before, at and beyond either end. Two requests on one connection make one
wait for the other, and let both signals meet any of their states. The sets of
ids and workers are symmetric and used as symmetry sets in the safety runs
only. The process of `Lifecycle` stops when it has ended; in all other runs
deadlock is checked. Every action fires in a passing run.

*Fairness.* `WF(Statement)`: Node and PostgreSQL execute the next statement of
a running request. `SF` of the statements that wait (`EnsureAccount`,
`LockAccount`; `Queued` in `Uploads`; `Statement` in `Contention`; `LockRow` in
`Lifecycle`): PostgreSQL queues the waiters of a row, so one that keeps waiting
is served although later ones keep coming. `SF(Connect)` in `Contention` is the
queue of the pool, which `Lifecycle` models itself (`Grant`). No fairness is
assumed of callers, failures, crashes or environment steps, with two exceptions.
`EveryChangeDelivered` is about a client that goes on asking with the token it
holds and whose requests do not fail every time at the same step
(`Persistence`). `ShutdownEnds` needs callers that take their answer and let
their connection end (`WF` of `Respond`): `server.close` waits for them, and the
code sets it no limit. A request that needs a fresh id when none is left could not
commit, so `accounts` has more version ids than uploads, and `opens` more upload
ids than keys.

*Findings.* ADR 0001 (lines 45-46) says that the second of two writers from one
base records a precondition-failed result. `LoserRecorded` states it of updates
and deletes, and run `loser` refutes it: when the first writer is a delete, the
second one finds a tombstone, gets 410 and its transaction is rolled back
(lines 450 and 542). Its key stays free, and a retry is answered 410 again.

`docs/operations.md:68` says that SIGTERM or SIGINT closes the server and then
the pool. Run `signals` refutes it of both signals (`main.js:83-90`): each
registers a callback of `server.close`, the second `pool.end` rejects, and the
unhandled rejection kills the process. When no connection is in use, the first
`pool.end` has ended the pool by then; but a request whose caller has gone runs
on with its connection, and is cut off in a pool that is still ending. Callers
that are connected are never cut off, and after one signal the pool is closed
(`OrderlyShutdown`).

`SliceIsExact` excepts numbers above `Number.MAX_SAFE_INTEGER`: such a last
position or suffix length is answered 416 although the range selects bytes
(`contracts.js:135` and `:142`), where a smaller number beyond the end is
clamped.

## 4. Proofs

Every invariant, action property and refinement that a passing run checks is
also a theorem about `Spec`, for any sets of requests, accounts, ids and
contents that satisfy the module's named assumption. Each module has one
inductive invariant, which TLC has checked on its instances as well; the
properties follow from it or are parts of it.

| module | inductive invariant | theorems |
|---|---|---|
| `NamespaceProofs` | `IInv` (`Invariance`) | `TypeCorrect`, `PrefixCorrect` (`CommittedPrefix`), `AnswersCorrect` (`AnswersAreDurable`), `ReadsCorrect` (`ReadsStayTrue`), `NoDeadlock` (`NoWaitCycle`), `NamesCorrect` (`ActiveNamesUnique`), `HistoryCorrect` (`HistoryIsFinal`) |
| `NamespaceLogProofs` | `IInv /\ HInv` (`HistoryInvariance`) | `JoinCorrect` (`MutationJoin`), `LogCorrect` (`NamespaceIsTheLog`), `OverwriteCorrect` (`NoSilentOverwrite`), `Implementation` (`ImplementsDriveLog`) |
| `UploadsProofs` | `UInv` (`UploadsInvariance`) | `UploadsTypeCorrect`, `ChunksCorrect` (`ChunksTile`), `SealedCorrect` (`SealedAsDeclared`), `ToldCorrect` (`ToldIsDurable`), `ReadsCorrect` (`ReadsStayTrue`), `KeysCorrect` (`OneUploadPerKey`), `AnswersCorrect` (`AnswersFit`), `GrowCorrect` (`UploadsOnlyGrow`), `RetryCorrect` (`CommittedChunkAcknowledged`), `UploadsImplementation` (`ImplementsByteLog`) |
| `ChangeFeedProofs` | `FInv` (`FeedInvariance`) | `PagesCorrect` (`PagesExact`), `MirrorCorrect` (`MirrorIsListing`), `FeedImplementation` (`ImplementsChangeStream`) |
| `ObjectStoreProofs` | `SInv` (`StoreInvariance`) | `TornCorrect` (`NeverTorn`), `AnswersCorrect` (`AnswersTrue`), `StoreImplementation` (`ImplementsBlobSet`) |
| `ReadPathProofs` | `RInv` (`ReadInvariance`) | `CurrentCorrect` (`ReadIsCurrent`), `FailureCorrect` (`FailsOnlyOnDrift`), `SliceCorrect` (`SliceIsExact`) |
| `ContentionProofs` | `CInv` (`ContentionInvariance`) | `DeadlockFree` (`NoDeadlock`) |
| `LifecycleProofs` | `LInv` (`LifecycleInvariance`) | `PoolCorrect` (`WaitersHoldNothing`), `ShutdownCorrect` (`OrderlyShutdown`) |

*Assumptions.* The named assumptions say that the constants are of one piece:
inputs have the declared types, the absent value `None` is none of the values it
stands in for, and ids of different tables differ, which are lock names in
`Namespace`, `Uploads` and `Contention`. Two more come from the code. In
`ReadPath` a content has at least one byte, as `contracts.js` demands of an
upload, and at most `MaxSafe`: a size comes from `Number(...)` of a column, and
`SliceIsExact` fails beyond that number. In `ChangeFeed` a page size is in
`1 .. 100`; without the lower bound a page would not move on.

### Mutations

Parts of `IInv`: the local variables fit the program counter (`Locals`); a row
lock is held only by a request whose `pc` says so (`LockHolders`). With it
`ReadsStayTrue` is inductive: every action that changes an account, file or
upload row belongs to the holder of the lock or respects the lock.
`CommittedPrefix` needs `ReadsStayTrue`, for the revision published is one more
than the revision read, which is still the committed one. `AnswersAreDurable`
needs it too: when a receipt is recorded, none is bound to its key, because the
account has been locked since the lookup. `CurrentExists`: the current version of
a file is a row, so the update's lookup of it never fails. `NoWaitCycle` follows
from the order account, file, upload; `ActiveNamesUnique` is preserved by a
create because `ReadsHold` keeps `~NameTaken` until it commits.

`HInv` adds what the tables say of each other. `MutationJoin`,
`NamespaceIsTheLog` and `NoSilentOverwrite` are not inductive: that no second
version builds on one predecessor, for instance, needs that a current version has
no successor (`VersionsFit`), and that the current version stays the newest of
its file needs the change rows it was announced by (`ChangesFit`, `FilesFit`).
`AppliedOnce` and `UploadsFit` make the receipt and the consumed upload of a
change unique.

`Implementation`: a commit of an applied or rejected result is the one abstract
step that appends it, an answer that arrives is the step that tells it, and
every other statement, failure or crash is not seen.

### Uploads

`UInv` is the type invariant, the properties `ReadsStayTrue`, `ChunksTile`,
`SealedAsDeclared`, `ToldIsDurable` and `OneUploadPerKey`, and three parts that
carry them: the program counters (`Locals`), that a request has locked an upload
of its own account (`OwnUploads`), and that an answer under way says no more than
the committed row (`RepliesTrue`), which is what makes `ToldIsDurable`
inductive: it says something of the next answer. `ReadsStayTrue` carries the
decision of `finalizeUpload` over the write of the source object, during which
other requests run. Contents have any length: `Assembled` is a function on byte
positions, and the bytes of an upload after a chunk are shown to be those before
with the chunk's behind them.

`UploadsImplementation`: the commit of an open, a chunk and a finalization are
the abstract opening, appending and sealing, and an answer is the telling. The
mapping chooses the session of a key, which is unique by `OneUploadPerKey`.

### Change feed

`FInv` says that the revisions of an account are counted without a gap
(`LogFits`), that its files are what the last change of each made them
(`FilesFit`), that the listing after revision `n` is the replay of the changes up
to `n` (`PastFits`), that a request's bound lies between its token and what is
committed (`StartFits`, `ListFits`), and that a client has the changes from its
start to its token (`HeldFits`). `PagesExact` alone is not inductive: it speaks
of an answer, and whether the answer is right was decided when the token was
sealed and the bound read, two transactions earlier. That a query returns the
changes in order without a gap follows by counting the rows before each
(`CountRun`, `CountBefore`, `FirstRowsFacts`).

`FeedImplementation`: the mapped log of an account is the one sequence that has
a change for each revision. A mutation appends to it; taking an answer is the
beginning, the first page of a session or its next one, according to the token
that the client held; all other steps are not seen.

### Object store, reads

`SInv` ties the temporary file to the program counter: what is linked is whole
and synced, so a power failure can take a target away but not tear it; and a
content that was acknowledged, or whose link or verification a put is beyond, is
there unless something outside took it (`Located`). `StoreImplementation`: the
link is the abstract installation, whether or not its put survives.

`RInv` keeps with each read the versions its file has had since it began; the row
it has looked up is one of them, and objects of versions are in the store unless
something outside took them. `SliceIsExact` is a fact about
`parseSingleByteRange` for all numbers, by cases on the form of the header.

### Locks and lifecycle

`CInv` says what an operation that still needs a lock can hold (`LocksFit`):
locks before it in the order account, file, upload, but for the account that
`openUpload` shares after its key, and that account is committed or its own
(`KeysFit`). In a set of operations that wait only for each other nobody waits
for an upload, for its holder needs nothing more; hence nobody for a file. Who
waits for an account waits for an operation that needs a key of this account,
which it is registering itself; but the holder of that key found the account
committed. So nobody waits for an account, and then nobody for a key, whose
holder needs its account. Nor do all wait for connections, for whoever has one
runs. That the plans of all operations have this order is a lemma
(`OperationsOrdered`).

`LInv` counts connections: a request has one while its statements run and none
otherwise, and the pool's count is that of a finite set of uses. For the shutdown
it ties the stages of server, callbacks and pool together: callbacks wait exactly
while the server is closing, the pool is given up exactly when it has closed, and
only a second signal kills the process.

### Only model-checked

`EveryRequestEnds` (of `Namespace` and `Uploads`), `EveryChangeDelivered`,
`EveryOperationEnds` and `ShutdownEnds`: liveness under fairness is out of the
prover's reach. Of the code's assumptions about PostgreSQL and the file system
nothing is proved; they are the external actions of the modules.

## 5. Plan

Done: all modules of section 2, their runs, and the theorems of section 4.

1. A composition of `Uploads` and `Namespace` over one table of uploads, which
   would discharge the environment steps `UploadOpened`, `UploadFinalized` and
   `Consumed`. Today they are matched by reading: each has the guard and effect
   of the action it stands for, and `Contention` has the locks of both.
2. The same for the mutations that `ChangeFeed` and `ReadPath` take as one step:
   that the steps of `Namespace` map to theirs.
3. Safety halves of the liveness properties that a proof could reach: that a
   request which waits is always behind one that can move.

Not modelled, and why: HTTP parsing, status codes, error classes, digests and
HMAC keep no state between requests; the reuse of keep-alive connections only
delays the close of the server; `stats()` counts rows for operators and nothing
reads it; migration and configuration run before the first request; the smoke
and benchmark scripts are drivers; SQL semantics other than locks, visibility
and unique keys is PostgreSQL's.
