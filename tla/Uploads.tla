------------------------------- MODULE Uploads -------------------------------
(***************************************************************************)
(* Resumable uploads: openUpload, headUpload, commitChunk and              *)
(* finalizeUpload of src/src/postgres-repository.js over the tables        *)
(* upload_sessions and upload_chunk_requests and the object store.         *)
(*                                                                         *)
(* Content is a short sequence over a small alphabet, and the SHA-256      *)
(* digest of a content is the content itself.  PostgreSQL is external, as  *)
(* in Namespace; here the unique index on (owner, key) matters too: an     *)
(* INSERT waits for an uncommitted row with the same key, and fails with   *)
(* 23505 when that row commits.                                            *)
(***************************************************************************)
EXTENDS Naturals, Sequences

CONSTANTS
  Workers,      \* requests the server may run at the same time
  Owners, Keys, UploadIds,
  Bytes,        \* the alphabet of contents
  Intents,      \* the requests callers may send
  Drifting,     \* contents whose object something outside may remove
  Nobody,       \* no worker: the row is not locked, the key not claimed
  None          \* SQL NULL

-----------------------------------------------------------------------------
(* Values *)

Content == Seq(Bytes)

\* size and data of an open are expectedBytes and expectedSha256.
OpenIntent == [kind: {"open"}, owner: Owners, key: Keys, upload: {None},
               start: {0}, data: Content, size: Nat \ {0}]
ChunkIntent == [kind: {"chunk"}, owner: Owners, key: Keys, upload: UploadIds,
                start: Nat, data: Content \ {<<>>}, size: {0}]
OtherIntent == [kind: {"head", "finalize"}, owner: Owners, key: {None}, upload: UploadIds,
                start: {0}, data: {<<>>}, size: {0}]

States == {"uploading", "finalized", "consumed"}
SessionRow == [owner: Owners, key: Keys, size: Nat, digest: Content,
               offset: Nat, state: States]
\* byte_count, chunk_sha256 and committed_offset follow from start and data.
ChunkRow == [upload: UploadIds, key: Keys, start: Nat, data: Content]

Statuses == {"done", "not_found", "request_conflict", "state_conflict",
             "offset_conflict", "integrity"}
Reply == [status: Statuses, upload: UploadIds \cup {None}, offset: Nat, sealed: BOOLEAN]

PCs == {"idle", "ensure", "select", "insert", "commit", "after",
        "put", "lock", "check", "install", "read", "reply"}

ASSUME UploadsAssumption ==
  /\ Intents \subseteq OpenIntent \cup ChunkIntent \cup OtherIntent
  /\ Nobody \notin Workers
  /\ None \notin UploadIds \cup Keys \cup Intents \cup SessionRow \cup Reply
  /\ Owners \cap UploadIds = {}

-----------------------------------------------------------------------------
VARIABLES
  registered,        \* owners with a committed row in accounts
  sessions, chunks,  \* the committed tables
  stored,            \* contents whose object reads back intact
  lock,              \* which transaction holds each account and upload row
  claim,             \* which transaction has inserted a key, uncommitted
  pc, intent, seen, reply,   \* each request's progress and local variables
  heard,             \* history: the largest offset and the last state told of an upload
  named              \* history: the upload told to the opener of each key

tables   == <<registered, sessions, chunks>>
requests == <<pc, intent, seen, reply>>
told     == <<heard, named>>
vars     == <<tables, stored, lock, claim, requests, told>>

TypeOK ==
  /\ registered \in SUBSET Owners
  /\ DOMAIN sessions \subseteq UploadIds /\ sessions \in [DOMAIN sessions -> SessionRow]
  /\ \A c \in chunks : c \in ChunkRow
  /\ \A d \in stored : d \in Content
  /\ lock \in [Owners \cup UploadIds -> Workers \cup {Nobody}]
  /\ claim \in [Owners \X Keys -> Workers \cup {Nobody}]
  /\ pc \in [Workers -> PCs]
  /\ intent \in [Workers -> Intents \cup {None}]
  /\ seen \in [Workers -> SessionRow \cup {None}]
  /\ reply \in [Workers -> Reply \cup {None}]
  /\ heard \in [UploadIds -> [offset: Nat, sealed: BOOLEAN]]
  /\ named \in SUBSET (Owners \X Keys \X UploadIds)

Init ==
  /\ registered = {}
  /\ sessions = [u \in {} |-> None]
  /\ chunks = {} /\ stored = {}
  /\ lock = [x \in Owners \cup UploadIds |-> Nobody]
  /\ claim = [s \in Owners \X Keys |-> Nobody]
  /\ pc = [w \in Workers |-> "idle"]
  /\ intent = [w \in Workers |-> None]
  /\ seen = [w \in Workers |-> None]
  /\ reply = [w \in Workers |-> None]
  /\ heard = [u \in UploadIds |-> [offset |-> 0, sealed |-> FALSE]]
  /\ named = {}

-----------------------------------------------------------------------------
(* Statements shared by the operations *)

Available(x, w) == lock[x] \in {Nobody, w}
FreedBy(w, table) == [x \in DOMAIN table |-> IF table[x] = w THEN Nobody ELSE table[x]]
Goto(w, label) == pc' = [pc EXCEPT ![w] = label]
Put(table, id, row) == [x \in DOMAIN table \cup {id} |-> IF x = id THEN row ELSE table[x]]

Mine(w) == intent[w].owner
Slot(w) == <<intent[w].owner, intent[w].key>>
Named(s) == {u \in DOMAIN sessions : <<sessions[u].owner, sessions[u].key>> = s}
ChunksOf(u) == {c \in chunks : c.upload = u}

Sealed(row) == row.state # "uploading"
\* publicUpload and the result of commitChunk, as far as callers rely on them.
Result(u, offset, sealed) ==
  [status |-> "done", upload |-> u, offset |-> offset, sealed |-> sealed]
Public(u, row) == Result(u, row.offset, Sealed(row))

\* The end of the transaction, COMMIT or ROLLBACK, with an answer on its way.
Finish(w, r) ==
  /\ lock' = FreedBy(w, lock)
  /\ claim' = FreedBy(w, claim)
  /\ seen' = [seen EXCEPT ![w] = None]
  /\ reply' = [reply EXCEPT ![w] = r]
  /\ Goto(w, "reply")
  /\ UNCHANGED <<intent, told>>

\* An answer that changes no table: a replay, a read, or an error.
Tell(w, r) == Finish(w, r) /\ UNCHANGED <<tables, stored>>
Refuse(w, status) ==
  Tell(w, [status |-> status, upload |-> None, offset |-> 0, sealed |-> FALSE])

FirstStatement(kind) ==
  CASE kind = "open" -> "ensure" [] kind = "chunk" -> "put"
    [] kind = "finalize" -> "lock" [] kind = "head" -> "read"

Start(w, i) ==
  /\ pc[w] = "idle"
  /\ intent' = [intent EXCEPT ![w] = i]
  /\ Goto(w, FirstStatement(i.kind))
  /\ UNCHANGED <<tables, stored, lock, claim, seen, reply, told>>

-----------------------------------------------------------------------------
(* openUpload *)

EnsureAccount(w) ==
  /\ pc[w] = "ensure"
  /\ Mine(w) \in registered \/ Available(Mine(w), w)
  /\ lock' = IF Mine(w) \in registered THEN lock ELSE [lock EXCEPT ![Mine(w)] = w]
  /\ Goto(w, "select")
  /\ UNCHANGED <<tables, stored, claim, intent, seen, reply, told>>

\* Mutant: only the key is compared, not the digest of the request.
SameKeyOnly(w, row) == TRUE

\* The digest of the request covers owner, size and digest of the source.
SameRequest(w, row) == row.size = intent[w].size /\ row.digest = intent[w].data

\* #classifyUpload, in the transaction or, in #uploadAfterRace, out of it.
ReplayOpen(w) ==
  /\ pc[w] \in {"select", "after"}
  /\ \E u \in Named(Slot(w)) :
       /\ SameRequest(w, sessions[u])
       /\ Tell(w, Public(u, sessions[u]))

RefuseOpenKey(w) ==
  /\ pc[w] \in {"select", "after"}
  /\ \E u \in Named(Slot(w)) : ~SameRequest(w, sessions[u])
  /\ Refuse(w, "request_conflict")

MissSession(w) ==
  /\ pc[w] = "select"
  /\ Named(Slot(w)) = {}
  /\ Goto(w, "insert")
  /\ UNCHANGED <<tables, stored, lock, claim, intent, seen, reply, told>>

\* Mutant: no unique index on (owner, key).
ClaimAnyway(w) ==
  /\ pc[w] = "insert"
  /\ claim' = [claim EXCEPT ![Slot(w)] = w]
  /\ Goto(w, "commit")
  /\ UNCHANGED <<tables, stored, lock, intent, seen, reply, told>>

\* INSERT INTO upload_sessions
ClaimKey(w) ==
  /\ pc[w] = "insert"
  /\ claim[Slot(w)] = Nobody
  /\ Named(Slot(w)) = {}
  /\ claim' = [claim EXCEPT ![Slot(w)] = w]
  /\ Goto(w, "commit")
  /\ UNCHANGED <<tables, stored, lock, intent, seen, reply, told>>

\* The INSERT fails with 23505, and the transaction is rolled back.
LoseRace(w) ==
  /\ pc[w] = "insert"
  /\ claim[Slot(w)] = Nobody
  /\ Named(Slot(w)) # {}
  /\ lock' = FreedBy(w, lock)
  /\ Goto(w, "after")
  /\ UNCHANGED <<tables, stored, claim, intent, seen, reply, told>>

CommitOpen(w) ==
  /\ pc[w] = "commit"
  /\ \E u \in UploadIds \ DOMAIN sessions :
       LET row == [owner |-> Mine(w), key |-> intent[w].key, size |-> intent[w].size,
                   digest |-> intent[w].data, offset |-> 0, state |-> "uploading"]
       IN /\ sessions' = Put(sessions, u, row)
          /\ Finish(w, Public(u, row))
  /\ registered' = registered \cup {Mine(w)}
  /\ UNCHANGED <<chunks, stored>>

-----------------------------------------------------------------------------
(* commitChunk *)

\* The chunk's object is installed before the transaction begins.
StoreChunk(w) ==
  /\ pc[w] = "put"
  /\ stored' = stored \cup {intent[w].data}
  /\ Goto(w, "lock")
  /\ UNCHANGED <<tables, lock, claim, intent, seen, reply, told>>

\* Mutant: the upload of any account.
AnyUploadFound(w) == intent[w].upload \in DOMAIN sessions

UploadFound(w) ==
  /\ intent[w].upload \in DOMAIN sessions
  /\ sessions[intent[w].upload].owner = Mine(w)

RefuseUpload(w) ==
  /\ pc[w] \in {"lock", "read"}
  /\ ~UploadFound(w)
  /\ Refuse(w, "not_found")

\* Mutant: a SELECT without FOR UPDATE.
LockUploadNot(w) ==
  /\ pc[w] = "lock"
  /\ UploadFound(w)
  /\ seen' = [seen EXCEPT ![w] = sessions[intent[w].upload]]
  /\ Goto(w, "check")
  /\ UNCHANGED <<tables, stored, lock, claim, intent, reply, told>>

\* SELECT * FROM upload_sessions ... FOR UPDATE
LockUpload(w) ==
  /\ pc[w] = "lock"
  /\ UploadFound(w)
  /\ Available(intent[w].upload, w)
  /\ lock' = [lock EXCEPT ![intent[w].upload] = w]
  /\ seen' = [seen EXCEPT ![w] = sessions[intent[w].upload]]
  /\ Goto(w, "check")
  /\ UNCHANGED <<tables, stored, claim, intent, reply, told>>

\* The row of upload_chunk_requests that the request's key is bound to.
BoundChunks(w) == {c \in ChunksOf(intent[w].upload) : c.key = intent[w].key}
SameChunk(w, c) == c.start = intent[w].start /\ c.data = intent[w].data
NextOffset(w) == intent[w].start + Len(intent[w].data)

ReplayChunk(w) ==
  /\ pc[w] = "check" /\ intent[w].kind = "chunk"
  /\ \E c \in BoundChunks(w) :
       /\ SameChunk(w, c)
       /\ Tell(w, Result(c.upload, c.start + Len(c.data), FALSE))

RefuseChunkKey(w) ==
  /\ pc[w] = "check" /\ intent[w].kind = "chunk"
  /\ \E c \in BoundChunks(w) : ~SameChunk(w, c)
  /\ Refuse(w, "request_conflict")

\* Mutant: the state is tested before the key is looked up.
RefuseSealedFirst(w) ==
  /\ pc[w] = "check" /\ intent[w].kind = "chunk"
  /\ Sealed(seen[w])
  /\ Refuse(w, "state_conflict")

RefuseSealed(w) ==
  /\ pc[w] = "check" /\ intent[w].kind = "chunk"
  /\ BoundChunks(w) = {}
  /\ Sealed(seen[w])
  /\ Refuse(w, "state_conflict")

\* Mutant: any offset up to the committed one is accepted.
FitsBehind(w) == intent[w].start <= seen[w].offset /\ NextOffset(w) <= seen[w].size

\* Mutant: the chunk may end beyond the declared source.
FitsBeyond(w) == intent[w].start = seen[w].offset

Fits(w) == intent[w].start = seen[w].offset /\ NextOffset(w) <= seen[w].size

RefuseOffset(w) ==
  /\ pc[w] = "check" /\ intent[w].kind = "chunk"
  /\ BoundChunks(w) = {}
  /\ ~Sealed(seen[w])
  /\ ~Fits(w)
  /\ Refuse(w, "offset_conflict")

CommitChunk(w) ==
  /\ pc[w] = "check" /\ intent[w].kind = "chunk"
  /\ BoundChunks(w) = {}
  /\ ~Sealed(seen[w])
  /\ Fits(w)
  /\ chunks' = chunks \cup {[upload |-> intent[w].upload, key |-> intent[w].key,
                             start |-> intent[w].start, data |-> intent[w].data]}
  /\ sessions' = [sessions EXCEPT ![intent[w].upload].offset = NextOffset(w)]
  /\ Finish(w, Result(intent[w].upload, NextOffset(w), FALSE))
  /\ UNCHANGED <<registered, stored>>

-----------------------------------------------------------------------------
(* finalizeUpload *)

Covers(c, p) == c.start < p /\ p <= c.start + Len(c.data)

\* The chunks of u, in order of their start, are contiguous and end at n.
Tiles(u, n) ==
  /\ \A p \in 1 .. n : \E c \in ChunksOf(u) : Covers(c, p)
  /\ \A c \in ChunksOf(u) : c.start + Len(c.data) <= n
  /\ \A c, d \in ChunksOf(u) : \A p \in 1 .. n : Covers(c, p) /\ Covers(d, p) => c = d

\* Buffer.concat of the first n bytes.
Assembled(u, n) ==
  [p \in 1 .. n |-> LET c == CHOOSE c \in ChunksOf(u) : Covers(c, p)
                    IN c.data[p - c.start]]

Readable(u) == \A c \in ChunksOf(u) : c.data \in stored

\* Mutant: the digest of the whole source is not compared.
ContiguousOnly(w) ==
  LET u == intent[w].upload
  IN Tiles(u, seen[w].size) /\ Readable(u)

Verified(w) ==
  LET u == intent[w].upload
  IN /\ Tiles(u, seen[w].size)
     /\ Readable(u)
     /\ Assembled(u, seen[w].size) = seen[w].digest

ReplayFinalize(w) ==
  /\ pc[w] = "check" /\ intent[w].kind = "finalize"
  /\ Sealed(seen[w])
  /\ Tell(w, Public(intent[w].upload, seen[w]))

RefuseIncomplete(w) ==
  /\ pc[w] = "check" /\ intent[w].kind = "finalize"
  /\ ~Sealed(seen[w])
  /\ seen[w].offset # seen[w].size
  /\ Refuse(w, "state_conflict")

\* IntegrityError: the key of the upload stays bound to a source it never gets.
RefuseSource(w) ==
  /\ pc[w] = "check" /\ intent[w].kind = "finalize"
  /\ ~Sealed(seen[w])
  /\ seen[w].offset = seen[w].size
  /\ ~Verified(w)
  /\ Refuse(w, "integrity")

\* Mutant: the assembled source is not installed as an object of its own.
StoreNoSource(w) ==
  /\ pc[w] = "check" /\ intent[w].kind = "finalize"
  /\ ~Sealed(seen[w])
  /\ seen[w].offset = seen[w].size
  /\ Verified(w)
  /\ Goto(w, "install")
  /\ UNCHANGED <<tables, stored, lock, claim, intent, seen, reply, told>>

\* Mutant: the state of the session is not looked at.
StoreSourceAgain(w) ==
  /\ pc[w] = "check" /\ intent[w].kind = "finalize"
  /\ seen[w].offset = seen[w].size
  /\ Verified(w)
  /\ stored' = stored \cup {seen[w].digest}
  /\ Goto(w, "install")
  /\ UNCHANGED <<tables, lock, claim, intent, seen, reply, told>>

\* The source object is installed inside the transaction, before its COMMIT.
StoreSource(w) ==
  /\ pc[w] = "check" /\ intent[w].kind = "finalize"
  /\ ~Sealed(seen[w])
  /\ seen[w].offset = seen[w].size
  /\ Verified(w)
  /\ stored' = stored \cup {seen[w].digest}
  /\ Goto(w, "install")
  /\ UNCHANGED <<tables, lock, claim, intent, seen, reply, told>>

\* Mutant: a state that the schema does not know.
CommitComplete(w) ==
  /\ pc[w] = "install"
  /\ sessions' = [sessions EXCEPT ![intent[w].upload].state = "complete"]
  /\ Finish(w, Result(intent[w].upload, seen[w].offset, TRUE))
  /\ UNCHANGED <<registered, chunks, stored>>

CommitFinalize(w) ==
  /\ pc[w] = "install"
  /\ sessions' = [sessions EXCEPT ![intent[w].upload].state = "finalized"]
  /\ Finish(w, Result(intent[w].upload, seen[w].offset, TRUE))
  /\ UNCHANGED <<registered, chunks, stored>>

-----------------------------------------------------------------------------
(* headUpload, answers, failures, and what happens outside *)

ReadHead(w) ==
  /\ pc[w] = "read"
  /\ UploadFound(w)
  /\ Tell(w, Public(intent[w].upload, sessions[intent[w].upload]))

\* The caller keeps the largest offset and the most advanced state it was told.
Hear(r) ==
  heard' = [heard EXCEPT ![r.upload] =
              [offset |-> IF r.offset > @.offset THEN r.offset ELSE @.offset,
               sealed |-> r.sealed \/ @.sealed]]

Idle(w) ==
  /\ Goto(w, "idle")
  /\ intent' = [intent EXCEPT ![w] = None]
  /\ seen' = [seen EXCEPT ![w] = None]
  /\ reply' = [reply EXCEPT ![w] = None]

AnswerError(w) ==
  /\ pc[w] = "reply"
  /\ reply[w].status # "done"
  /\ Idle(w)
  /\ UNCHANGED <<tables, stored, lock, claim, told>>

\* The response reaches the caller.
Answer(w) ==
  /\ pc[w] = "reply"
  /\ reply[w].status = "done"
  /\ Hear(reply[w])
  /\ named' = IF intent[w].kind = "open"
                THEN named \cup {<<Mine(w), intent[w].key, reply[w].upload>>} ELSE named
  /\ Idle(w)
  /\ UNCHANGED <<tables, stored, lock, claim>>

\* Mutant: a failure leaves the connection with its transaction open.
FailOpen(w) ==
  /\ pc[w] # "idle"
  /\ Idle(w)
  /\ UNCHANGED <<tables, stored, lock, claim, told>>

\* A failing query or object write: ROLLBACK.  After COMMIT, a lost response.
Fail(w) ==
  /\ pc[w] # "idle"
  /\ lock' = FreedBy(w, lock)
  /\ claim' = FreedBy(w, claim)
  /\ Idle(w)
  /\ UNCHANGED <<tables, stored, told>>

\* The process is killed: every request fails at once.
Crash ==
  /\ \E w \in Workers : pc[w] # "idle"
  /\ lock' = [x \in DOMAIN lock |-> Nobody]
  /\ claim' = [s \in DOMAIN claim |-> Nobody]
  /\ pc' = [w \in Workers |-> "idle"]
  /\ intent' = [w \in Workers |-> None]
  /\ seen' = [w \in Workers |-> None]
  /\ reply' = [w \in Workers |-> None]
  /\ UNCHANGED <<tables, stored, told>>

\* currentRevision, as far as the uploads see it: the first request of an account
\* may ask for its changes.
AccountRegistered(o) ==
  /\ o \notin registered /\ lock[o] = Nobody
  /\ registered' = registered \cup {o}
  /\ UNCHANGED <<sessions, chunks, stored, lock, claim, requests, told>>

\* createFile or updateFile, as far as the uploads see it.
Consumed(u) ==
  /\ u \in DOMAIN sessions /\ lock[u] = Nobody
  /\ sessions[u].state = "finalized"
  /\ sessions' = [sessions EXCEPT ![u].state = "consumed"]
  /\ UNCHANGED <<registered, chunks, stored, lock, claim, requests, told>>

\* Something outside the program removes an object.
ObjectLost(d) ==
  /\ d \in stored
  /\ stored' = stored \ {d}
  /\ UNCHANGED <<tables, lock, claim, requests, told>>

-----------------------------------------------------------------------------
\* The statements that wait for another transaction.
Queued(w) == EnsureAccount(w) \/ ClaimKey(w) \/ LoseRace(w) \/ LockUpload(w)
Statement(w) ==
  \/ ReplayOpen(w) \/ RefuseOpenKey(w) \/ MissSession(w) \/ CommitOpen(w)
  \/ StoreChunk(w) \/ RefuseUpload(w)
  \/ ReplayChunk(w) \/ RefuseChunkKey(w) \/ RefuseSealed(w) \/ RefuseOffset(w) \/ CommitChunk(w)
  \/ ReplayFinalize(w) \/ RefuseIncomplete(w) \/ RefuseSource(w) \/ StoreSource(w)
  \/ CommitFinalize(w)
  \/ ReadHead(w) \/ Answer(w) \/ AnswerError(w)

Next ==
  \/ \E w \in Workers :
       \/ \E i \in Intents : Start(w, i)
       \/ Queued(w)
       \/ Statement(w)
       \/ Fail(w)
  \/ Crash
  \/ \E o \in Owners : AccountRegistered(o)
  \/ \E u \in UploadIds : Consumed(u)
  \/ \E d \in Drifting : ObjectLost(d)

Spec == Init /\ [][Next]_vars

\* A request's statements are executed as long as the server runs, and
\* PostgreSQL wakes the waiters of a row or key in turn.
Fairness == \A w \in Workers : SF_vars(Queued(w)) /\ WF_vars(Statement(w))

FairSpec == Spec /\ Fairness

-----------------------------------------------------------------------------
(* What the uploads guarantee *)

\* A key opens one upload, whoever wins the race for it: callers that opened
\* with one key were all told the same upload, and it still exists.
OneUploadPerKey ==
  /\ \A u, t \in DOMAIN sessions :
       sessions[u].owner = sessions[t].owner /\ sessions[u].key = sessions[t].key => u = t
  /\ \A n, m \in named : n[1] = m[1] /\ n[2] = m[2] => n[3] = m[3]
  /\ \A n \in named : n[3] \in Named(<<n[1], n[2]>>)

\* The committed chunks of an upload cover its bytes up to committed_offset,
\* each byte once, and a chunk key is bound to one chunk.
ChunksTile ==
  /\ \A u \in DOMAIN sessions :
       /\ Tiles(u, sessions[u].offset)
       /\ sessions[u].offset <= sessions[u].size
  /\ \A c \in chunks : c.upload \in DOMAIN sessions
  /\ \A c, d \in chunks : c.upload = d.upload /\ c.key = d.key => c = d

\* A finalized upload is the declared source, byte for byte, and the object it
\* names is in the store unless something outside took it away.
SealedAsDeclared ==
  \A u \in DOMAIN sessions :
    Sealed(sessions[u]) =>
      /\ sessions[u].offset = sessions[u].size
      /\ Assembled(u, sessions[u].size) = sessions[u].digest
      /\ sessions[u].digest \in stored \cup Drifting

\* Nothing a caller was told is taken back: the offset it resumes from is
\* committed, and an upload it saw finalized is finalized.
ToldIsDurable ==
  \A u \in UploadIds :
    /\ heard[u].offset > 0 =>
         u \in DOMAIN sessions /\ heard[u].offset <= sessions[u].offset
    /\ heard[u].sealed => u \in DOMAIN sessions /\ Sealed(sessions[u])

\* An answer is about an upload of the caller's own account, although accounts
\* choose the same keys and may name each other's upload IDs; and an opener is
\* given an upload of the source it declared.
AnswersFit ==
  \A w \in Workers :
    pc[w] = "reply" /\ reply[w].status = "done" =>
      /\ reply[w].upload \in DOMAIN sessions
      /\ sessions[reply[w].upload].owner = Mine(w)
      /\ intent[w].kind = "open" => /\ sessions[reply[w].upload].digest = intent[w].data
                                    /\ sessions[reply[w].upload].size = intent[w].size

\* Once a retry has locked its upload, a chunk that was committed is not refused
\* again, even after finalization: a retry of a lost response gets its committed
\* offset.  Before, it may fail (Fail), as it does on a damaged chunk object.
CommittedChunkAcknowledged ==
  [][\A w \in Workers :
       /\ pc[w] = "check" /\ intent[w].kind = "chunk" /\ pc'[w] = "reply"
       /\ \E c \in BoundChunks(w) : SameChunk(w, c)
       => reply'[w] = Result(intent[w].upload, NextOffset(w), FALSE)]_vars

\* A session keeps its intent, its offset never moves back, and its state only
\* goes from uploading over finalized to consumed; chunks are never removed.
UploadsOnlyGrow ==
  [][/\ chunks \subseteq chunks'
     /\ \A u \in DOMAIN sessions :
          /\ u \in DOMAIN sessions'
          /\ sessions[u].offset <= sessions'[u].offset
          /\ Sealed(sessions[u]) => Sealed(sessions'[u]) /\ sessions'[u].offset = sessions[u].offset
          /\ sessions[u].state = "consumed" => sessions'[u].state = "consumed"
          /\ \A field \in {"owner", "key", "size", "digest"} :
               sessions'[u][field] = sessions[u][field]]_vars

\* What w has read, locked and claimed, seen from each statement yet to come.
ReadsHold(w) ==
  /\ pc[w] = "after" => Named(Slot(w)) # {}
  /\ pc[w] = "commit" => claim[Slot(w)] = w /\ Named(Slot(w)) = {}
  /\ pc[w] \in {"check", "install"} =>
       /\ intent[w].upload \in DOMAIN sessions
       /\ lock[intent[w].upload] = w
       /\ seen[w] = sessions[intent[w].upload]
  /\ pc[w] = "install" =>
       /\ ~Sealed(seen[w]) /\ seen[w].offset = seen[w].size
       /\ Assembled(intent[w].upload, seen[w].size) = seen[w].digest
       /\ seen[w].digest \in stored \cup Drifting

\* What a request has read is still true at its next statement: the loser of an
\* open race finds the winner's session, and the row of a chunk or finalize is
\* the one it decided on.
ReadsStayTrue == \A w \in Workers : ReadsHold(w)

\* An operation that has begun ends, whatever the others do.
EveryRequestEnds == \A w \in Workers : pc[w] # "idle" ~> pc[w] = "idle"

\* The byte strings that the session and chunk tables stand for.
KeysOpened == {<<sessions[u].owner, sessions[u].key>> : u \in DOMAIN sessions}
SessionOf(s) == CHOOSE u \in DOMAIN sessions : <<sessions[u].owner, sessions[u].key>> = s
SourceOf(u) == [size |-> sessions[u].size, digest |-> sessions[u].digest,
                bytes |-> Assembled(u, sessions[u].offset), sealed |-> Sealed(sessions[u])]
SourcesOpened == [s \in KeysOpened |-> SourceOf(SessionOf(s))]
HeardOfKeys == [s \in KeysOpened |-> heard[SessionOf(s)]]
Source == INSTANCE ByteLog WITH
  Slots <- Owners \X Keys, sources <- SourcesOpened, told <- HeardOfKeys

\* Sessions, chunk rows and objects together behave as one append-only byte
\* string per key, which is sealed only when it is the declared source.
ImplementsByteLog == Source!Spec
=============================================================================
