------------------------------ MODULE Namespace ------------------------------
(***************************************************************************)
(* The namespace transactions of the cloud drive: createFile, updateFile   *)
(* and deleteFile of src/src/postgres-repository.js, one action per SQL    *)
(* statement that waits for a row or decides the outcome, run by a bounded *)
(* number of requests at a time over the tables of src/src/schema.js.      *)
(*                                                                         *)
(* PostgreSQL is external: READ COMMITTED transactions and row locks.  The *)
(* writes of a transaction are invisible until COMMIT, so the INSERTs and  *)
(* UPDATEs of a mutation and its COMMIT are one step; a failure anywhere   *)
(* before it is Fail.  A table is a map from its generated id to its row,  *)
(* or, where the key is computed by the program, a set of rows whose keys  *)
(* are shown to be unique.                                                 *)
(***************************************************************************)
EXTENDS Naturals, FiniteSets

CONSTANTS
  Workers,      \* requests the server may run at the same time
  Owners,       \* owner fingerprints
  Keys,         \* idempotency keys
  Names,        \* display names
  Folded,       \* Folded[n] is n.toLowerCase(), the normalized name
  FileIds, VersionIds, UploadIds,   \* UUIDs
  Digests,      \* SHA-256 digests of whole sources
  Intents,      \* the mutation requests callers may send
  Drifting,     \* digests whose object something outside may remove
  Nobody,       \* no worker: the row is not locked
  None          \* SQL NULL

-----------------------------------------------------------------------------
(* Values *)

CreateIntent == [kind: {"create"}, owner: Owners, key: Keys, name: Names,
                 upload: UploadIds, file: {None}, base: {None}]
UpdateIntent == [kind: {"update"}, owner: Owners, key: Keys, name: {None},
                 upload: UploadIds, file: FileIds, base: VersionIds]
DeleteIntent == [kind: {"delete"}, owner: Owners, key: Keys, name: {None},
                 upload: {None}, file: FileIds, base: VersionIds]

\* What a row lock can be taken on.
Rows == Owners \cup FileIds \cup UploadIds

FileRow == [owner: Owners, name: Names, state: {"active", "tombstoned"},
            current: VersionIds, created: Nat, updated: Nat]
VersionRow == [file: FileIds, number: Nat, predecessor: VersionIds \cup {None},
               blob: Digests, created: Nat]
UploadRow == [owner: Owners, state: {"uploading", "finalized", "consumed"},
              source: Digests, consumedBy: VersionIds \cup {None}]
ChangeRow == [owner: Owners, revision: Nat, file: FileIds,
              kind: {"created", "updated", "deleted"},
              version: VersionIds \cup {None}, name: Names]
\* A stored mutation result; revision 0 is NULL (the schema wants revision > 0).
Receipt == [intent: Intents,
            outcome: {"applied", "precondition_failed", "namespace_conflict"},
            file: FileIds \cup {None}, version: VersionIds \cup {None},
            current: VersionIds \cup {None}, revision: Nat]

\* The local variables account, file and upload of a transaction.
Seen == [revision: Nat, file: FileRow \cup {None}, source: Digests \cup {None}]
NothingSeen == [revision |-> 0, file |-> None, source |-> None]

PCs == {"idle", "ensure", "lock", "receipt", "target", "upload", "write", "reply"}

ASSUME ConstantsAssumption ==
  /\ Intents \subseteq CreateIntent \cup UpdateIntent \cup DeleteIntent
  /\ Nobody \notin Workers
  /\ None \notin VersionIds \cup FileIds \cup UploadIds \cup Digests \cup Names
  /\ None \notin Intents \cup Receipt \cup FileRow
  /\ Owners \cap FileIds = {} /\ Owners \cap UploadIds = {} /\ FileIds \cap UploadIds = {}

-----------------------------------------------------------------------------
VARIABLES
  registered,   \* owners with a committed row in accounts
  revision,     \* accounts.committed_revision
  files, versions, uploads, changes, receipts,   \* the committed tables
  stored,       \* digests whose object reads back intact
  lock,         \* which transaction holds each row lock
  pc, intent, seen, reply,   \* each request's progress and local variables
  replies       \* history: every mutation result a caller has received

tables   == <<registered, revision, files, versions, uploads, changes, receipts>>
requests == <<pc, intent, seen, reply>>
vars     == <<tables, stored, lock, requests, replies>>

TypeOK ==
  /\ registered \in SUBSET Owners
  /\ revision \in [Owners -> Nat]
  /\ DOMAIN files \subseteq FileIds /\ files \in [DOMAIN files -> FileRow]
  /\ DOMAIN versions \subseteq VersionIds /\ versions \in [DOMAIN versions -> VersionRow]
  /\ DOMAIN uploads \subseteq UploadIds /\ uploads \in [DOMAIN uploads -> UploadRow]
  /\ changes \in SUBSET ChangeRow
  /\ receipts \in SUBSET Receipt
  /\ stored \in SUBSET Digests
  /\ lock \in [Rows -> Workers \cup {Nobody}]
  /\ pc \in [Workers -> PCs]
  /\ intent \in [Workers -> Intents \cup {None}]
  /\ seen \in [Workers -> Seen]
  /\ reply \in [Workers -> Receipt \cup {None}]
  /\ replies \in SUBSET Receipt

Init ==
  /\ registered = {}
  /\ revision = [o \in Owners |-> 0]
  /\ files = [f \in {} |-> None]
  /\ versions = [v \in {} |-> None]
  /\ uploads = [u \in {} |-> None]
  /\ changes = {} /\ receipts = {} /\ stored = {}
  /\ lock = [x \in Rows |-> Nobody]
  /\ pc = [w \in Workers |-> "idle"]
  /\ intent = [w \in Workers |-> None]
  /\ seen = [w \in Workers |-> NothingSeen]
  /\ reply = [w \in Workers |-> None]
  /\ replies = {}

-----------------------------------------------------------------------------
(* Statements shared by the three mutations *)

Available(x, w) == lock[x] \in {Nobody, w}
Released(w) == [x \in Rows |-> IF lock[x] = w THEN Nobody ELSE lock[x]]
Goto(w, label) == pc' = [pc EXCEPT ![w] = label]
\* The account, file and upload that w has read so far.
Sees(w, rev, file, source) ==
  seen' = [seen EXCEPT ![w] = [revision |-> rev, file |-> file, source |-> source]]
\* A row in a map of rows, new or replaced.
Put(table, id, row) ==
  [x \in DOMAIN table \cup {id} |-> IF x = id THEN row ELSE table[x]]

Mine(w) == intent[w].owner
Bound(w) == {r \in receipts : r.intent.owner = Mine(w) /\ r.intent.key = intent[w].key}

\* COMMIT, and the result on its way to the caller.
Commit(w, r) ==
  /\ registered' = registered \cup {Mine(w)}
  /\ lock' = Released(w)
  /\ Goto(w, "reply")
  /\ seen' = [seen EXCEPT ![w] = NothingSeen]
  /\ reply' = [reply EXCEPT ![w] = r]
  /\ UNCHANGED <<intent, replies, stored>>

\* Mutant: the connection goes back to the pool without a ROLLBACK.
RollbackForgotten(w) ==
  /\ Goto(w, "idle")
  /\ intent' = [intent EXCEPT ![w] = None]
  /\ seen' = [seen EXCEPT ![w] = NothingSeen]
  /\ reply' = [reply EXCEPT ![w] = None]
  /\ UNCHANGED <<tables, stored, lock, replies>>

\* An error: ROLLBACK, release the connection, answer with an error code.
Rollback(w) ==
  /\ lock' = Released(w)
  /\ Goto(w, "idle")
  /\ intent' = [intent EXCEPT ![w] = None]
  /\ seen' = [seen EXCEPT ![w] = NothingSeen]
  /\ reply' = [reply EXCEPT ![w] = None]
  /\ UNCHANGED <<tables, stored, replies>>

\* #recordMutation for a rejected mutation, and COMMIT.
RecordRejection(w, outcome, file, current) ==
  LET r == [intent |-> intent[w], outcome |-> outcome, file |-> file,
            version |-> None, current |-> current, revision |-> 0]
  IN /\ receipts' = receipts \cup {r}
     /\ Commit(w, r)
     /\ UNCHANGED <<revision, files, versions, uploads, changes>>

\* BEGIN: a caller's first attempt, a retry, or a second copy of a request.
Start(w, i) ==
  /\ pc[w] = "idle"
  /\ intent' = [intent EXCEPT ![w] = i]
  /\ Goto(w, "ensure")
  /\ UNCHANGED <<tables, stored, lock, seen, reply, replies>>

\* Mutant: the upload is verified and locked before the account is.
EnsureAccountAfterUpload(w) ==
  /\ pc[w] = "ensure"
  /\ Mine(w) \in registered \/ Available(Mine(w), w)
  /\ intent[w].upload \in DOMAIN uploads => Available(intent[w].upload, w)
  /\ lock' = [x \in Rows |->
       IF \/ x = Mine(w) /\ Mine(w) \notin registered
          \/ x = intent[w].upload /\ x \in DOMAIN uploads
       THEN w ELSE lock[x]]
  /\ Goto(w, "lock")
  /\ UNCHANGED <<tables, stored, intent, seen, reply, replies>>

\* INSERT INTO accounts ... ON CONFLICT DO NOTHING: an insert of the same row
\* by a transaction still running is waited for; the inserter owns the row.
EnsureAccount(w) ==
  /\ pc[w] = "ensure"
  /\ Mine(w) \in registered \/ Available(Mine(w), w)
  /\ lock' = IF Mine(w) \in registered THEN lock ELSE [lock EXCEPT ![Mine(w)] = w]
  /\ Goto(w, "lock")
  /\ UNCHANGED <<tables, stored, intent, seen, reply, replies>>

\* Mutant: a SELECT without FOR UPDATE.
LockAccountNot(w) ==
  /\ pc[w] = "lock"
  /\ Sees(w, revision[Mine(w)], None, None)
  /\ Goto(w, "receipt")
  /\ UNCHANGED <<tables, stored, lock, intent, reply, replies>>

\* SELECT ... FROM accounts ... FOR UPDATE
LockAccount(w) ==
  /\ pc[w] = "lock"
  /\ Available(Mine(w), w)
  /\ lock' = [lock EXCEPT ![Mine(w)] = w]
  /\ Sees(w, revision[Mine(w)], None, None)
  /\ Goto(w, "receipt")
  /\ UNCHANGED <<tables, stored, intent, reply, replies>>

\* #existingMutation finds the receipt of the same intent.
ReplayReceipt(w) ==
  /\ pc[w] = "receipt"
  /\ \E r \in Bound(w) :
       /\ r.intent = intent[w]
       /\ Commit(w, r)
  /\ UNCHANGED <<revision, files, versions, uploads, changes, receipts>>

\* #existingMutation: the key is bound to a different request digest.
RefuseReusedKey(w) ==
  /\ pc[w] = "receipt"
  /\ \E r \in Bound(w) : r.intent # intent[w]
  /\ Rollback(w)

\* Mutant: a rejected mutation's receipt is not found again.
MissRejection(w) ==
  /\ pc[w] = "receipt"
  /\ {r \in Bound(w) : r.outcome = "applied"} = {}
  /\ Goto(w, "target")
  /\ UNCHANGED <<tables, stored, lock, intent, seen, reply, replies>>

MissReceipt(w) ==
  /\ pc[w] = "receipt"
  /\ Bound(w) = {}
  /\ Goto(w, "target")
  /\ UNCHANGED <<tables, stored, lock, intent, seen, reply, replies>>

-----------------------------------------------------------------------------
(* The name of a create, the target file of an update or delete *)

\* Mutant: display names are compared instead of normalized names.
DisplayNameTaken(w) ==
  \E f \in DOMAIN files :
    /\ files[f].owner = Mine(w)
    /\ files[f].state = "active"
    /\ files[f].name = intent[w].name

NameTaken(w) ==
  \E f \in DOMAIN files :
    /\ files[f].owner = Mine(w)
    /\ files[f].state = "active"
    /\ Folded[files[f].name] = Folded[intent[w].name]

RecordNameConflict(w) ==
  /\ pc[w] = "target" /\ intent[w].kind = "create"
  /\ NameTaken(w)
  /\ RecordRejection(w, "namespace_conflict", None, None)

FindNameFree(w) ==
  /\ pc[w] = "target" /\ intent[w].kind = "create"
  /\ ~NameTaken(w)
  /\ Goto(w, "upload")
  /\ UNCHANGED <<tables, stored, lock, intent, seen, reply, replies>>

\* Mutant: the file of any account.
AnyFileFound(w) == intent[w].file \in DOMAIN files

\* SELECT * FROM files WHERE id AND owner FOR UPDATE: only a matching row is
\* waited for and locked.
FileFound(w) ==
  /\ intent[w].file \in DOMAIN files
  /\ files[intent[w].file].owner = Mine(w)

SelectFile(w) ==
  /\ pc[w] = "target" /\ intent[w].kind \in {"update", "delete"}
  /\ FileFound(w) => Available(intent[w].file, w)

\* NotFoundError, GoneError
RefuseFile(w) ==
  /\ SelectFile(w)
  /\ FileFound(w) => files[intent[w].file].state = "tombstoned"
  /\ Rollback(w)

\* Mutant: the receipt names the caller's base as the current version.
RecordStaleBaseAsCurrent(w) ==
  /\ SelectFile(w)
  /\ FileFound(w)
  /\ files[intent[w].file].state = "active"
  /\ files[intent[w].file].current # intent[w].base
  /\ RecordRejection(w, "precondition_failed", intent[w].file, intent[w].base)

RecordStaleBase(w) ==
  /\ SelectFile(w)
  /\ FileFound(w)
  /\ files[intent[w].file].state = "active"
  /\ files[intent[w].file].current # intent[w].base
  /\ RecordRejection(w, "precondition_failed", intent[w].file, files[intent[w].file].current)

\* Mutant: If-Match is not compared with the locked row.
LockAnyVersion(w) ==
  /\ SelectFile(w)
  /\ FileFound(w)
  /\ files[intent[w].file].state = "active"
  /\ lock' = [lock EXCEPT ![intent[w].file] = w]
  /\ Sees(w, seen[w].revision, files[intent[w].file], None)
  /\ Goto(w, IF intent[w].kind = "update" THEN "upload" ELSE "write")
  /\ UNCHANGED <<tables, stored, intent, reply, replies>>

\* Mutant: a tombstoned file, which keeps its current version, is accepted.
LockTombstone(w) ==
  /\ SelectFile(w)
  /\ FileFound(w)
  /\ files[intent[w].file].current = intent[w].base
  /\ lock' = [lock EXCEPT ![intent[w].file] = w]
  /\ Sees(w, seen[w].revision, files[intent[w].file], None)
  /\ Goto(w, IF intent[w].kind = "update" THEN "upload" ELSE "write")
  /\ UNCHANGED <<tables, stored, intent, reply, replies>>

\* Mutant: the transaction with the account's lock ends before the file is read.
LockFileOnly(w) ==
  /\ SelectFile(w)
  /\ FileFound(w)
  /\ files[intent[w].file].state = "active"
  /\ files[intent[w].file].current = intent[w].base
  /\ lock' = [Released(w) EXCEPT ![intent[w].file] = w]
  /\ Sees(w, seen[w].revision, files[intent[w].file], None)
  /\ Goto(w, IF intent[w].kind = "update" THEN "upload" ELSE "write")
  /\ UNCHANGED <<tables, stored, intent, reply, replies>>

LockCurrentFile(w) ==
  /\ SelectFile(w)
  /\ FileFound(w)
  /\ files[intent[w].file].state = "active"
  /\ files[intent[w].file].current = intent[w].base
  /\ lock' = [lock EXCEPT ![intent[w].file] = w]
  /\ Sees(w, seen[w].revision, files[intent[w].file], None)
  /\ Goto(w, IF intent[w].kind = "update" THEN "upload" ELSE "write")
  /\ UNCHANGED <<tables, stored, intent, reply, replies>>

-----------------------------------------------------------------------------
(* #finalizedUpload *)

\* Mutant: the upload of any account.
AnyUploadFound(w) == intent[w].upload \in DOMAIN uploads

UploadFound(w) ==
  /\ intent[w].upload \in DOMAIN uploads
  /\ uploads[intent[w].upload].owner = Mine(w)

SelectUpload(w) ==
  /\ pc[w] = "upload"
  /\ UploadFound(w) => Available(intent[w].upload, w)

\* Mutant: an upload another version has consumed is accepted again.
UploadUsableAgain(w) ==
  /\ UploadFound(w)
  /\ uploads[intent[w].upload].state \in {"finalized", "consumed"}
  /\ uploads[intent[w].upload].source \in stored

UploadUsable(w) ==
  /\ UploadFound(w)
  /\ uploads[intent[w].upload].state = "finalized"
  /\ uploads[intent[w].upload].source \in stored

\* NotFoundError, StateConflictError, IntegrityError
RefuseUpload(w) ==
  /\ SelectUpload(w)
  /\ ~UploadUsable(w)
  /\ Rollback(w)

LockUpload(w) ==
  /\ SelectUpload(w)
  /\ UploadUsable(w)
  /\ lock' = [lock EXCEPT ![intent[w].upload] = w]
  /\ Sees(w, seen[w].revision, seen[w].file, uploads[intent[w].upload].source)
  /\ Goto(w, "write")
  /\ UNCHANGED <<tables, stored, intent, reply, replies>>

-----------------------------------------------------------------------------
(* The writes of an applied mutation, and COMMIT *)

NextRevision(w) == seen[w].revision + 1

\* Account revision, change row and receipt, the same in the three mutations.
Publish(w, f, v, changeKind, name) ==
  LET o == Mine(w)
      rev == NextRevision(w)
      r == [intent |-> intent[w], outcome |-> "applied", file |-> f,
            version |-> v, current |-> None, revision |-> rev]
  IN /\ revision' = [revision EXCEPT ![o] = rev]
     /\ changes' = changes \cup {[owner |-> o, revision |-> rev, file |-> f,
                                  kind |-> changeKind, version |-> v, name |-> name]}
     /\ receipts' = receipts \cup {r}
     /\ Commit(w, r)

Consume(u, v) ==
  uploads' = [uploads EXCEPT ![u].state = "consumed", ![u].consumedBy = v]

CommitCreate(w) ==
  /\ pc[w] = "write" /\ intent[w].kind = "create"
  /\ \E f \in FileIds \ DOMAIN files, v \in VersionIds \ DOMAIN versions :
       /\ files' = Put(files, f, [owner |-> Mine(w), name |-> intent[w].name,
                                  state |-> "active", current |-> v,
                                  created |-> NextRevision(w), updated |-> NextRevision(w)])
       /\ versions' = Put(versions, v, [file |-> f, number |-> 1, predecessor |-> None,
                                        blob |-> seen[w].source, created |-> NextRevision(w)])
       /\ Consume(intent[w].upload, v)
       /\ Publish(w, f, v, "created", intent[w].name)

CommitUpdate(w) ==
  /\ pc[w] = "write" /\ intent[w].kind = "update"
  /\ \E v \in VersionIds \ DOMAIN versions :
       LET f == intent[w].file
           old == seen[w].file.current
       IN /\ versions' = Put(versions, v, [file |-> f, number |-> versions[old].number + 1,
                                           predecessor |-> old, blob |-> seen[w].source,
                                           created |-> NextRevision(w)])
          /\ files' = [files EXCEPT ![f].current = v, ![f].updated = NextRevision(w)]
          /\ Consume(intent[w].upload, v)
          /\ Publish(w, f, v, "updated", seen[w].file.name)

\* Mutant: the tombstone keeps the revision of the last update.
CommitDeleteUnstamped(w) ==
  /\ pc[w] = "write" /\ intent[w].kind = "delete"
  /\ files' = [files EXCEPT ![intent[w].file].state = "tombstoned"]
  /\ Publish(w, intent[w].file, None, "deleted", seen[w].file.name)
  /\ UNCHANGED <<versions, uploads>>

\* Mutant: the tombstone loses its current version.
CommitDeleteForgets(w) ==
  /\ pc[w] = "write" /\ intent[w].kind = "delete"
  /\ files' = [files EXCEPT ![intent[w].file].state = "tombstoned",
                            ![intent[w].file].current = None,
                            ![intent[w].file].updated = NextRevision(w)]
  /\ Publish(w, intent[w].file, None, "deleted", seen[w].file.name)
  /\ UNCHANGED <<versions, uploads>>

CommitDelete(w) ==
  /\ pc[w] = "write" /\ intent[w].kind = "delete"
  /\ files' = [files EXCEPT ![intent[w].file].state = "tombstoned",
                            ![intent[w].file].updated = NextRevision(w)]
  /\ Publish(w, intent[w].file, None, "deleted", seen[w].file.name)
  /\ UNCHANGED <<versions, uploads>>

-----------------------------------------------------------------------------
(* Answers, failures, and what happens outside the mutations *)

\* The response reaches the caller.
Answer(w) ==
  /\ pc[w] = "reply"
  /\ replies' = replies \cup {reply[w]}
  /\ Goto(w, "idle")
  /\ intent' = [intent EXCEPT ![w] = None]
  /\ reply' = [reply EXCEPT ![w] = None]
  /\ UNCHANGED <<tables, stored, lock, seen>>

\* The connection fails: a running transaction is rolled back; one already
\* committed stays, and only its result is lost.
Fail(w) == pc[w] # "idle" /\ Rollback(w)

\* The process is killed: every request fails at once.
Crash ==
  /\ \E w \in Workers : pc[w] # "idle"
  /\ lock' = [x \in Rows |-> Nobody]
  /\ pc' = [w \in Workers |-> "idle"]
  /\ intent' = [w \in Workers |-> None]
  /\ seen' = [w \in Workers |-> NothingSeen]
  /\ reply' = [w \in Workers |-> None]
  /\ UNCHANGED <<tables, stored, replies>>

\* openUpload, as far as the mutations see it.  Its foreign key check needs a
\* share of the account row, which no mutation may hold for update.
UploadOpened(u, o, d) ==
  /\ u \notin DOMAIN uploads
  /\ lock[o] = Nobody
  /\ registered' = registered \cup {o}
  /\ uploads' = Put(uploads, u, [owner |-> o, state |-> "uploading",
                                 source |-> d, consumedBy |-> None])
  /\ UNCHANGED <<revision, files, versions, changes, receipts,
                 stored, lock, requests, replies>>

\* finalizeUpload, as far as the mutations see it: the verified source object
\* is installed before the session becomes finalized.
UploadFinalized(u) ==
  /\ u \in DOMAIN uploads /\ lock[u] = Nobody
  /\ uploads[u].state = "uploading"
  /\ stored' = stored \cup {uploads[u].source}
  /\ uploads' = [uploads EXCEPT ![u].state = "finalized"]
  /\ UNCHANGED <<registered, revision, files, versions, changes, receipts,
                 lock, requests, replies>>

\* Something outside the program removes an object.
ObjectLost(d) ==
  /\ d \in stored
  /\ stored' = stored \ {d}
  /\ UNCHANGED <<tables, lock, requests, replies>>

-----------------------------------------------------------------------------
\* The statements that wait for a row another request may hold for long.
Queued(w) == EnsureAccount(w) \/ LockAccount(w)
Statement(w) ==
  \/ ReplayReceipt(w) \/ RefuseReusedKey(w) \/ MissReceipt(w)
  \/ RecordNameConflict(w) \/ FindNameFree(w)
  \/ RefuseFile(w) \/ RecordStaleBase(w) \/ LockCurrentFile(w)
  \/ RefuseUpload(w) \/ LockUpload(w)
  \/ CommitCreate(w) \/ CommitUpdate(w) \/ CommitDelete(w)
  \/ Answer(w)

Outside ==
  \/ \E u \in UploadIds, o \in Owners, d \in Digests : UploadOpened(u, o, d)
  \/ \E u \in UploadIds : UploadFinalized(u)
  \/ \E d \in Drifting : ObjectLost(d)

Next ==
  \/ \E w \in Workers :
       \/ \E i \in Intents : Start(w, i)
       \/ Queued(w)
       \/ Statement(w)
       \/ Fail(w)
  \/ Crash
  \/ Outside

Spec == Init /\ [][Next]_vars

\* A request's statements are executed as long as the server runs, and
\* PostgreSQL grants a contended row to its waiters in turn.
Fairness ==
  \A w \in Workers : SF_vars(EnsureAccount(w)) /\ SF_vars(LockAccount(w)) /\ WF_vars(Statement(w))

FairSpec == Spec /\ Fairness

-----------------------------------------------------------------------------
(* What the transactions guarantee *)

Log(o) == {c \in changes : c.owner = o}
Applied == {r \in receipts : r.outcome = "applied"}
ChangeKind(kind) ==
  CASE kind = "create" -> "created" [] kind = "update" -> "updated" [] kind = "delete" -> "deleted"

\* Visible account revision r means that every mutation 1..r of the account is
\* committed and queryable, once: no hole, no revision used twice (R6).
CommittedPrefix ==
  \A o \in Owners :
    /\ {c.revision : c \in Log(o)} = 1 .. revision[o]
    /\ \A c, d \in Log(o) : c.revision = d.revision => c = d

\* The receipt that a change row belongs to, and the rows they agree about.
Explains(r, c) ==
  /\ r.outcome = "applied"
  /\ r.intent.owner = c.owner /\ r.revision = c.revision
  /\ r.file = c.file /\ r.version = c.version
  /\ c.kind = ChangeKind(r.intent.kind)
  /\ r.intent.kind = "create" => c.name = r.intent.name
  /\ r.intent.kind # "create" => c.file = r.intent.file
  /\ r.intent.kind # "delete" =>
       /\ c.version \in DOMAIN versions
       /\ versions[c.version].file = c.file
       /\ versions[c.version].created = c.revision
       /\ r.intent.upload \in DOMAIN uploads
       /\ uploads[r.intent.upload].owner = c.owner
       /\ uploads[r.intent.upload].consumedBy = c.version
       /\ uploads[r.intent.upload].source = versions[c.version].blob

\* Receipt, change, version and consumed upload of a mutation exist together or
\* not at all, and tell the same story (R5).
MutationJoin ==
  /\ \A r \in Applied : \E c \in changes : Explains(r, c)
  /\ \A c \in changes : \E r \in receipts : Explains(r, c) /\ \A q \in receipts : Explains(q, c) => q = r
  /\ \A v \in DOMAIN versions : \E c \in changes : c.version = v
  /\ \A u \in DOMAIN uploads :
       IF uploads[u].state = "consumed"
         THEN uploads[u].consumedBy \in DOMAIN versions
         ELSE uploads[u].consumedBy = None
  /\ \A u, t \in DOMAIN uploads :
       uploads[u].state = "consumed" /\ uploads[t].consumedBy = uploads[u].consumedBy => u = t

\* The files table is what a client gets by applying the account's changes in
\* order: nothing is visible that the change feed did not announce (R5, R7).
NamespaceIsTheLog ==
  /\ \A c \in changes : c.file \in DOMAIN files
  /\ \A f \in DOMAIN files :
       LET mine == {c \in changes : c.file = f}
       IN \E first, last, content \in mine :
            /\ \A c \in mine : first.revision <= c.revision /\ c.revision <= last.revision
            /\ \A c \in mine : c.kind # "deleted" => c.revision <= content.revision
            /\ \A c \in mine : c.owner = files[f].owner /\ c.name = files[f].name
            /\ \A c \in mine : c.kind = "created" <=> c = first
            /\ \A c \in mine : c.kind = "deleted" => c = last
            /\ content.kind # "deleted"
            /\ files[f].created = first.revision
            /\ files[f].updated = last.revision
            /\ files[f].current = content.version
            /\ files[f].state = "tombstoned" <=> last.kind = "deleted"

\* Versions of a file form one chain, and each applied update or delete was
\* based on the version its caller named: no silent overwrite (R4).
NoSilentOverwrite ==
  /\ \A v \in DOMAIN versions :
       LET p == versions[v].predecessor
       IN IF p = None
            THEN versions[v].number = 1
            ELSE /\ p \in DOMAIN versions
                 /\ versions[p].file = versions[v].file
                 /\ versions[v].number = versions[p].number + 1
                 /\ versions[p].created < versions[v].created
  /\ \A v, w \in DOMAIN versions :
       versions[v].file = versions[w].file /\ versions[v].predecessor = versions[w].predecessor => v = w
  /\ \A r \in Applied :
       /\ r.intent.kind = "update" => versions[r.version].predecessor = r.intent.base
       /\ r.intent.kind = "delete" => files[r.file].current = r.intent.base

\* At most one active file has a given normalized name in an account, although
\* the names are compared one transaction before they are inserted.
ActiveNamesUnique ==
  \A f, g \in DOMAIN files :
    /\ files[f].state = "active" /\ files[g].state = "active"
    /\ files[f].owner = files[g].owner
    /\ Folded[files[f].name] = Folded[files[g].name]
    => f = g

\* A caller is only told what is durable, and an idempotency key has one result
\* for ever, however often and however concurrently the request is sent (R1).
AnswersAreDurable ==
  /\ replies \subseteq receipts
  /\ \A w \in Workers : pc[w] = "reply" => reply[w] \in receipts
  /\ \A r, q \in receipts : r.intent.owner = q.intent.owner /\ r.intent.key = q.intent.key => r = q

\* What w has read and locked, seen from each statement it has yet to execute.
ReadsHold(w) ==
  /\ pc[w] \in {"receipt", "target", "upload", "write"} =>
       lock[Mine(w)] = w /\ seen[w].revision = revision[Mine(w)]
  /\ pc[w] \in {"target", "upload", "write"} => Bound(w) = {}
  /\ pc[w] \in {"upload", "write"} /\ intent[w].kind = "create" => ~NameTaken(w)
  /\ pc[w] \in {"upload", "write"} /\ intent[w].kind # "create" =>
       /\ lock[intent[w].file] = w
       /\ FileFound(w)
       /\ seen[w].file = files[intent[w].file]
       /\ files[intent[w].file].state = "active"
       /\ files[intent[w].file].current = intent[w].base
       /\ intent[w].base \in DOMAIN versions
  /\ pc[w] = "write" /\ intent[w].kind # "delete" =>
       /\ lock[intent[w].upload] = w
       /\ UploadFound(w)
       /\ uploads[intent[w].upload].state = "finalized"
       /\ uploads[intent[w].upload].source = seen[w].source

\* What a transaction read before it waited for its next row is still true
\* when it uses it: no constraint of the schema can fail at its writes, and the
\* current version of an updated file is never missing.
ReadsStayTrue == \A w \in Workers : ReadsHold(w)

\* The row the next statement of w waits for, if another request holds it.
WaitsFor(w, v) ==
  LET blockedBy(x) == v # w /\ lock[x] = v
  IN \/ pc[w] = "ensure" /\ Mine(w) \notin registered /\ blockedBy(Mine(w))
     \/ pc[w] = "lock" /\ blockedBy(Mine(w))
     \/ pc[w] = "target" /\ intent[w].kind # "create" /\ FileFound(w) /\ blockedBy(intent[w].file)
     \/ pc[w] = "upload" /\ UploadFound(w) /\ blockedBy(intent[w].upload)

\* Account, then file, then upload: no set of requests in which each waits for
\* another of the set, so PostgreSQL never has to break a deadlock.
NoWaitCycle ==
  \A S \in SUBSET Workers : S # {} => \E w \in S : \A v \in S : ~WaitsFor(w, v)

\* History is append-only: a version, a change and a receipt never alter, a
\* tombstone is final, and a file keeps its owner, name and first revision.
HistoryIsFinal ==
  [][/\ \A v \in DOMAIN versions : v \in DOMAIN versions' /\ versions'[v] = versions[v]
     /\ changes \subseteq changes' /\ receipts \subseteq receipts'
     /\ \A f \in DOMAIN files :
          /\ f \in DOMAIN files'
          /\ files'[f].owner = files[f].owner /\ files'[f].name = files[f].name
          /\ files'[f].created = files[f].created
          /\ files[f].state = "tombstoned" => files'[f] = files[f]
     /\ \A u \in DOMAIN uploads :
          /\ u \in DOMAIN uploads'
          /\ uploads[u].state = "consumed" => uploads'[u] = uploads[u]]_vars

\* ADR 0001 on two concurrent writers from one base: "the second records a
\* precondition-failed result".  So an update or delete whose base another
\* applied mutation has used up is never refused without a receipt.
LoserRecorded ==
  [][\A w \in Workers :
       RefuseFile(w) => \A r \in Applied : \/ r.intent.kind = "create"
                                           \/ r.intent.base # intent[w].base]_vars

Drive == INSTANCE DriveLog WITH log <- receipts, told <- replies

\* The transactions behave as atomic steps on a log of results: each receipt is
\* the one that the earlier receipts alone call for, and callers hear no other.
ImplementsDriveLog == Drive!Spec

\* A request that has begun is answered, refused or failed in the end: row
\* locks are given back on every path, and waiting for one ends.
EveryRequestEnds == \A w \in Workers : pc[w] # "idle" ~> pc[w] = "idle"
=============================================================================
