---------------------------- MODULE NamespaceProofs ----------------------------
(* Proofs about Namespace, for any number of requests, accounts and files. *)
EXTENDS Namespace, TLAPS

-----------------------------------------------------------------------------
(* The inductive invariant *)

Holding == {"receipt", "target", "upload", "write"}

\* A request that runs has an intent.
Locals == \A w \in Workers : pc[w] # "idle" => intent[w] \in Intents

CurrentExists == \A f \in DOMAIN files : files[f].current \in DOMAIN versions

\* A row lock belongs to a running transaction on the row's account.
LockHolders ==
  \A x \in Rows, w \in Workers : lock[x] = w =>
    \/ pc[w] = "lock" /\ x = Mine(w)
    \/ /\ pc[w] \in Holding
       /\ x \in Owners => x = Mine(w)
       /\ x \in FileIds => x \in DOMAIN files /\ files[x].owner = Mine(w)
       /\ x \in UploadIds => x \in DOMAIN uploads /\ uploads[x].owner = Mine(w)

IInv ==
  /\ TypeOK
  /\ Locals
  /\ CurrentExists
  /\ LockHolders
  /\ CommittedPrefix
  /\ AnswersAreDurable
  /\ ReadsStayTrue
-----------------------------------------------------------------------------
(* Types *)

LEMMA IntentType ==
  ASSUME NEW i \in Intents
  PROVE  /\ i.owner \in Owners
         /\ i.kind \in {"create", "update", "delete"}
         /\ i.kind = "create" => i.name \in Names
         /\ i.kind # "create" => i.file \in FileIds /\ i.base \in VersionIds
         /\ i.kind # "delete" => i.upload \in UploadIds
BY ConstantsAssumption DEF CreateIntent, UpdateIntent, DeleteIntent

\* What is known of the request that executes a statement.
LEMMA Running ==
  ASSUME TypeOK, Locals, NEW w \in Workers, pc[w] # "idle"
  PROVE  /\ intent[w] \in Intents
         /\ Mine(w) \in Owners
         /\ intent[w].kind \in {"create", "update", "delete"}
         /\ intent[w].kind = "create" => intent[w].name \in Names
         /\ intent[w].kind # "create" => intent[w].file \in FileIds /\ intent[w].base \in VersionIds
         /\ intent[w].kind # "delete" => intent[w].upload \in UploadIds
BY IntentType DEF Locals, Mine

\* The part of TypeOK about the requests and their locks.
RequestsOK ==
  /\ lock \in [Rows -> Workers \cup {Nobody}]
  /\ pc \in [Workers -> PCs]
  /\ intent \in [Workers -> Intents \cup {None}]
  /\ seen \in [Workers -> Seen]
  /\ reply \in [Workers -> Receipt \cup {None}]

\* The part about the tables, the store and the callers.
DataOK ==
  /\ registered \in SUBSET Owners
  /\ revision \in [Owners -> Nat]
  /\ DOMAIN files \subseteq FileIds /\ files \in [DOMAIN files -> FileRow]
  /\ DOMAIN versions \subseteq VersionIds /\ versions \in [DOMAIN versions -> VersionRow]
  /\ DOMAIN uploads \subseteq UploadIds /\ uploads \in [DOMAIN uploads -> UploadRow]
  /\ changes \in SUBSET ChangeRow
  /\ receipts \in SUBSET Receipt
  /\ stored \in SUBSET Digests
  /\ replies \in SUBSET Receipt

LEMMA TypeParts == TypeOK <=> RequestsOK /\ DataOK
BY DEF TypeOK, RequestsOK, DataOK

LEMMA ReleasedType ==
  ASSUME RequestsOK, NEW w \in Workers
  PROVE  Released(w) \in [Rows -> Workers \cup {Nobody}]
BY DEF RequestsOK, Released

LEMMA RollbackType ==
  ASSUME TypeOK, NEW w \in Workers, Rollback(w)
  PROVE  TypeOK'
<1>1. RequestsOK'
  BY ReleasedType, TypeParts DEF RequestsOK, Rollback, Goto, PCs, Seen, NothingSeen
<1>2. DataOK'
  BY TypeParts DEF DataOK, Rollback, tables
<1> QED BY <1>1, <1>2 DEF TypeOK, RequestsOK, DataOK

LEMMA CommitType ==
  ASSUME TypeOK, NEW w \in Workers, NEW r \in Receipt, Commit(w, r)
  PROVE  RequestsOK'
BY ReleasedType, TypeParts DEF RequestsOK, Commit, Goto, PCs, Seen, NothingSeen

\* A row put into a table, and the version that consumes an upload.
LEMMA PutType ==
  ASSUME NEW Ids, NEW RowSet, NEW table,
         table \in [DOMAIN table -> RowSet], DOMAIN table \subseteq Ids,
         NEW id \in Ids, NEW row \in RowSet
  PROVE  /\ DOMAIN Put(table, id, row) = DOMAIN table \cup {id}
         /\ DOMAIN Put(table, id, row) \subseteq Ids
         /\ Put(table, id, row) \in [DOMAIN Put(table, id, row) -> RowSet]
BY DEF Put

\* The writes that the applied mutations share.
LEMMA PublishType ==
  ASSUME TypeOK, NEW w \in Workers, intent[w] \in Intents, Mine(w) \in Owners,
         NEW f \in FileIds, NEW v \in VersionIds \cup {None}, NEW name \in Names,
         NEW k \in {"created", "updated", "deleted"},
         Publish(w, f, v, k, name)
  PROVE  /\ RequestsOK'
         /\ registered' \in SUBSET Owners
         /\ revision' \in [Owners -> Nat]
         /\ changes' \in SUBSET ChangeRow
         /\ receipts' \in SUBSET Receipt
         /\ stored' = stored /\ replies' = replies
<1> DEFINE r == [intent |-> intent[w], outcome |-> "applied", file |-> f,
                 version |-> v, current |-> None, revision |-> NextRevision(w)]
<1>1. NextRevision(w) \in Nat
  BY TypeParts DEF RequestsOK, Seen, NextRevision
<1>2. r \in Receipt
  BY <1>1 DEF Receipt
<1>3. Commit(w, r)
  BY DEF Publish
<1>4. RequestsOK'
  BY <1>2, <1>3, CommitType
<1>5. registered' \in SUBSET Owners /\ stored' = stored /\ replies' = replies
  BY <1>3, TypeParts DEF Commit, DataOK
<1>6. revision' \in [Owners -> Nat]
  BY <1>1, TypeParts DEF Publish, DataOK
<1>7. changes' \in SUBSET ChangeRow
  BY <1>1, TypeParts DEF Publish, DataOK, ChangeRow
<1>8. receipts' \in SUBSET Receipt
  BY <1>2, TypeParts DEF Publish, DataOK
<1> QED BY <1>4, <1>5, <1>6, <1>7, <1>8

LEMMA ConsumeType ==
  ASSUME TypeOK, NEW u \in UploadIds, NEW v \in VersionIds, Consume(u, v)
  PROVE  DOMAIN uploads' \subseteq UploadIds /\ uploads' \in [DOMAIN uploads' -> UploadRow]
BY TypeParts, ZenonT(30) DEF DataOK, Consume, UploadRow

\* Statements that only move a request on, and take at most one lock.
LEMMA StatementType ==
  ASSUME TypeOK, Locals, ReadsStayTrue, NEW w \in Workers,
         \/ EnsureAccount(w) \/ LockAccount(w) \/ MissReceipt(w)
         \/ FindNameFree(w) \/ LockCurrentFile(w) \/ LockUpload(w)
  PROVE  TypeOK'
<1>1. DataOK'
  BY TypeParts DEF DataOK, tables, EnsureAccount, LockAccount, MissReceipt,
     FindNameFree, LockCurrentFile, LockUpload
<1>2. RequestsOK'
  <2> USE Running, TypeParts DEF RequestsOK, Goto, PCs
  <2>1. CASE EnsureAccount(w)
    BY <2>1 DEF EnsureAccount, Rows
  <2>2. CASE LockAccount(w)
    BY <2>2 DEF LockAccount, Sees, Seen, DataOK, Rows
  <2>3. CASE MissReceipt(w)
    BY <2>3 DEF MissReceipt
  <2>4. CASE FindNameFree(w)
    BY <2>4 DEF FindNameFree
  <2>5. CASE LockCurrentFile(w)
    <3>1. files[intent[w].file] \in FileRow /\ intent[w].file \in Rows
      BY <2>5 DEF LockCurrentFile, FileFound, DataOK, Rows
    <3> QED BY <2>5, <3>1 DEF LockCurrentFile, SelectFile, Sees, Seen
  <2>6. CASE LockUpload(w)
    <3>1. uploads[intent[w].upload].source \in Digests /\ intent[w].upload \in Rows
      BY <2>6 DEF LockUpload, UploadUsable, UploadFound, DataOK, Rows
    <3> QED BY <2>6, <3>1 DEF LockUpload, SelectUpload, Sees, Seen
  <2> QED BY <2>1, <2>2, <2>3, <2>4, <2>5, <2>6
<1> QED BY <1>1, <1>2 DEF TypeOK, RequestsOK, DataOK

LEMMA RejectionType ==
  ASSUME TypeOK, Locals, NEW w \in Workers, RecordNameConflict(w) \/ RecordStaleBase(w)
  PROVE  TypeOK'
<1> USE Running, TypeParts
<1>1. PICK outcome \in {"precondition_failed", "namespace_conflict"},
           f \in FileIds \cup {None}, v \in VersionIds \cup {None} :
        RecordRejection(w, outcome, f, v)
  <2>1. CASE RecordNameConflict(w)
    BY <2>1 DEF RecordNameConflict
  <2>2. CASE RecordStaleBase(w)
    <3>1. intent[w].file \in FileIds /\ files[intent[w].file].current \in VersionIds
      BY <2>2 DEF RecordStaleBase, FileFound, DataOK, FileRow
    <3> QED BY <2>2, <3>1 DEF RecordStaleBase
  <2> QED BY <2>1, <2>2
<1> DEFINE r == [intent |-> intent[w], outcome |-> outcome, file |-> f,
                 version |-> None, current |-> v, revision |-> 0]
<1>2. pc[w] # "idle"
  BY DEF RecordNameConflict, RecordStaleBase, SelectFile
<1>3. r \in Receipt
  BY <1>2 DEF Receipt
<1>4. Commit(w, r) /\ receipts' = receipts \cup {r}
  BY <1>1 DEF RecordRejection
<1>5. RequestsOK'
  BY <1>3, <1>4, CommitType
<1>6. DataOK'
  BY <1>1, <1>2, <1>3, <1>4 DEF RecordRejection, Commit, DataOK
<1> QED BY <1>5, <1>6 DEF TypeOK, RequestsOK, DataOK

LEMMA CreateType ==
  ASSUME TypeOK, Locals, ReadsStayTrue, NEW w \in Workers, CommitCreate(w)
  PROVE  TypeOK'
<1>1. /\ pc[w] = "write" /\ intent[w].kind = "create"
      /\ intent[w] \in Intents /\ Mine(w) \in Owners
      /\ intent[w].name \in Names /\ intent[w].upload \in UploadIds
  BY Running DEF CommitCreate
<1>2. seen[w].source \in Digests /\ NextRevision(w) \in Nat
  BY <1>1, TypeParts
  DEF ReadsStayTrue, ReadsHold, UploadFound, DataOK, UploadRow, NextRevision, RequestsOK, Seen
<1>3. PICK f \in FileIds \ DOMAIN files, v \in VersionIds \ DOMAIN versions :
        /\ files' = Put(files, f, [owner |-> Mine(w), name |-> intent[w].name,
                                   state |-> "active", current |-> v,
                                   created |-> NextRevision(w), updated |-> NextRevision(w)])
        /\ versions' = Put(versions, v, [file |-> f, number |-> 1, predecessor |-> None,
                                         blob |-> seen[w].source, created |-> NextRevision(w)])
        /\ Consume(intent[w].upload, v)
        /\ Publish(w, f, v, "created", intent[w].name)
  BY DEF CommitCreate
<1>4. DOMAIN files' \subseteq FileIds /\ files' \in [DOMAIN files' -> FileRow]
  <2>1. PICK row \in FileRow : files' = Put(files, f, row)
    BY <1>1, <1>2, <1>3 DEF FileRow
  <2> QED BY <2>1, PutType, TypeParts, ZenonT(30) DEF DataOK
<1>5. DOMAIN versions' \subseteq VersionIds /\ versions' \in [DOMAIN versions' -> VersionRow]
  <2>1. PICK row \in VersionRow : versions' = Put(versions, v, row)
    BY <1>1, <1>2, <1>3 DEF VersionRow
  <2> QED BY <2>1, PutType, TypeParts DEF DataOK
<1>6. DOMAIN uploads' \subseteq UploadIds /\ uploads' \in [DOMAIN uploads' -> UploadRow]
  BY <1>1, <1>3, ConsumeType
<1>7. /\ RequestsOK'
      /\ registered' \in SUBSET Owners /\ revision' \in [Owners -> Nat]
      /\ changes' \in SUBSET ChangeRow /\ receipts' \in SUBSET Receipt
      /\ stored' = stored /\ replies' = replies
  BY <1>1, <1>3, PublishType
<1>8. stored' \in SUBSET Digests /\ replies' \in SUBSET Receipt
  BY <1>7, TypeParts DEF DataOK
<1> QED BY <1>4, <1>5, <1>6, <1>7, <1>8 DEF TypeOK, RequestsOK

LEMMA UpdateType ==
  ASSUME TypeOK, Locals, ReadsStayTrue, NEW w \in Workers, CommitUpdate(w)
  PROVE  TypeOK'
<1> DEFINE f == intent[w].file
           old == seen[w].file.current
<1>1. /\ pc[w] = "write" /\ intent[w].kind = "update"
      /\ intent[w] \in Intents /\ Mine(w) \in Owners
      /\ f \in FileIds /\ intent[w].upload \in UploadIds
  BY Running DEF CommitUpdate
<1>2. seen[w].source \in Digests /\ NextRevision(w) \in Nat
  BY <1>1, TypeParts
  DEF ReadsStayTrue, ReadsHold, UploadFound, DataOK, UploadRow, NextRevision, RequestsOK, Seen
<1>3. /\ f \in DOMAIN files /\ seen[w].file = files[f] /\ files[f] \in FileRow
      /\ old \in DOMAIN versions /\ versions[old] \in VersionRow
  BY <1>1, TypeParts DEF ReadsStayTrue, ReadsHold, FileFound, DataOK
<1>4. PICK v \in VersionIds \ DOMAIN versions :
        /\ versions' = Put(versions, v, [file |-> f, number |-> versions[old].number + 1,
                                         predecessor |-> old, blob |-> seen[w].source,
                                         created |-> NextRevision(w)])
        /\ files' = [files EXCEPT ![f].current = v, ![f].updated = NextRevision(w)]
        /\ Consume(intent[w].upload, v)
        /\ Publish(w, f, v, "updated", seen[w].file.name)
  BY DEF CommitUpdate
<1>5. DOMAIN files' \subseteq FileIds /\ files' \in [DOMAIN files' -> FileRow]
  BY <1>1, <1>2, <1>3, <1>4, TypeParts DEF DataOK, FileRow
<1>6. DOMAIN versions' \subseteq VersionIds /\ versions' \in [DOMAIN versions' -> VersionRow]
  <2>1. old \in VersionIds /\ versions[old].number + 1 \in Nat
    BY <1>3, TypeParts DEF DataOK, VersionRow
  <2>2. [file |-> f, number |-> versions[old].number + 1, predecessor |-> old,
         blob |-> seen[w].source, created |-> NextRevision(w)] \in VersionRow
    BY <1>1, <1>2, <2>1 DEF VersionRow
  <2>3. PICK row \in VersionRow : versions' = Put(versions, v, row)
    BY <1>4, <2>2
  <2> QED BY <2>3, PutType, TypeParts, ZenonT(30) DEF DataOK
<1>7. DOMAIN uploads' \subseteq UploadIds /\ uploads' \in [DOMAIN uploads' -> UploadRow]
  BY <1>1, <1>4, ConsumeType
<1>8. /\ RequestsOK'
      /\ registered' \in SUBSET Owners /\ revision' \in [Owners -> Nat]
      /\ changes' \in SUBSET ChangeRow /\ receipts' \in SUBSET Receipt
      /\ stored' = stored /\ replies' = replies
  BY <1>1, <1>3, <1>4, PublishType DEF FileRow
<1>9. stored' \in SUBSET Digests /\ replies' \in SUBSET Receipt
  BY <1>8, TypeParts DEF DataOK
<1> QED BY <1>5, <1>6, <1>7, <1>8, <1>9 DEF TypeOK, RequestsOK

LEMMA DeleteType ==
  ASSUME TypeOK, Locals, ReadsStayTrue, NEW w \in Workers, CommitDelete(w)
  PROVE  TypeOK'
<1> DEFINE f == intent[w].file
<1>1. /\ pc[w] = "write" /\ intent[w].kind = "delete"
      /\ intent[w] \in Intents /\ Mine(w) \in Owners /\ f \in FileIds
  BY Running DEF CommitDelete
<1>2. NextRevision(w) \in Nat
  BY <1>1, TypeParts DEF NextRevision, RequestsOK, Seen
<1>3. f \in DOMAIN files /\ seen[w].file = files[f] /\ files[f] \in FileRow
  BY <1>1, TypeParts DEF ReadsStayTrue, ReadsHold, FileFound, DataOK
<1>4. DOMAIN files' \subseteq FileIds /\ files' \in [DOMAIN files' -> FileRow]
  BY <1>1, <1>2, <1>3, TypeParts DEF CommitDelete, DataOK, FileRow
<1>5. /\ RequestsOK'
      /\ registered' \in SUBSET Owners /\ revision' \in [Owners -> Nat]
      /\ changes' \in SUBSET ChangeRow /\ receipts' \in SUBSET Receipt
      /\ stored' = stored /\ replies' = replies
  BY <1>1, <1>3, PublishType DEF CommitDelete, FileRow
<1>6. /\ stored' \in SUBSET Digests /\ replies' \in SUBSET Receipt
      /\ DOMAIN versions' \subseteq VersionIds /\ versions' \in [DOMAIN versions' -> VersionRow]
      /\ DOMAIN uploads' \subseteq UploadIds /\ uploads' \in [DOMAIN uploads' -> UploadRow]
  BY <1>5, TypeParts DEF CommitDelete, DataOK
<1> QED BY <1>4, <1>5, <1>6 DEF TypeOK, RequestsOK

\* Steps outside the requests' statements.
LEMMA OutsideType ==
  ASSUME TypeOK, Outside
  PROVE  TypeOK'
<1>1. RequestsOK'
  BY TypeParts DEF RequestsOK, Outside, UploadOpened, UploadFinalized, ObjectLost, requests
<1>2. DataOK'
  <2>1. ASSUME NEW u \in UploadIds, NEW o \in Owners, NEW d \in Digests, UploadOpened(u, o, d)
        PROVE  DataOK'
    <3>1. PICK row \in UploadRow : uploads' = Put(uploads, u, row)
      BY <2>1 DEF UploadOpened, UploadRow
    <3>2. DOMAIN uploads' \subseteq UploadIds /\ uploads' \in [DOMAIN uploads' -> UploadRow]
      BY <3>1, TypeParts DEF DataOK, Put
    <3> QED BY <2>1, <3>2, TypeParts DEF UploadOpened, DataOK
  <2>2. ASSUME NEW u \in UploadIds, UploadFinalized(u)
        PROVE  DataOK'
    <3>1. u \in DOMAIN uploads /\ uploads[u].source \in Digests
      BY <2>2, TypeParts DEF UploadFinalized, DataOK, UploadRow
    <3>2. [uploads[u] EXCEPT !.state = "finalized"] \in UploadRow
      BY <3>1, TypeParts DEF DataOK, UploadRow
    <3>3. PICK row \in UploadRow : uploads' = [uploads EXCEPT ![u] = row]
      BY <2>2, <3>2 DEF UploadFinalized
    <3>4. DOMAIN uploads' \subseteq UploadIds /\ uploads' \in [DOMAIN uploads' -> UploadRow]
      BY <3>1, <3>3, TypeParts DEF DataOK
    <3> QED BY <2>2, <3>1, <3>4, TypeParts DEF UploadFinalized, DataOK
  <2>3. ASSUME NEW d \in Drifting, ObjectLost(d)
        PROVE  DataOK'
    BY <2>3, TypeParts DEF ObjectLost, DataOK, tables
  <2> QED BY <2>1, <2>2, <2>3 DEF Outside
<1> QED BY <1>1, <1>2 DEF TypeOK, RequestsOK, DataOK

\* Every step keeps the types.
LEMMA TypeStep ==
  ASSUME TypeOK, Locals, ReadsStayTrue, AnswersAreDurable, [Next]_vars
  PROVE  TypeOK'
<1>1. ASSUME NEW w \in Workers, NEW i \in Intents, Start(w, i)
      PROVE  TypeOK'
  <2>1. RequestsOK' /\ DataOK'
    BY <1>1, TypeParts DEF Start, Goto, PCs, RequestsOK, DataOK, tables
  <2> QED BY <2>1 DEF TypeOK, RequestsOK, DataOK
<1>2. ASSUME NEW w \in Workers, ReplayReceipt(w)
      PROVE  TypeOK'
  <2>1. PICK r \in Receipt : Commit(w, r)
    BY <1>2, TypeParts DEF ReplayReceipt, Bound, DataOK
  <2>2. Mine(w) \in Owners
    BY <1>2, Running DEF ReplayReceipt
  <2>3. DataOK'
    BY <1>2, <2>1, <2>2, TypeParts DEF ReplayReceipt, Commit, DataOK
  <2>4. RequestsOK'
    BY <2>1, CommitType
  <2> QED BY <2>3, <2>4 DEF TypeOK, RequestsOK, DataOK
<1>3. ASSUME NEW w \in Workers, RefuseReusedKey(w) \/ RefuseFile(w) \/ RefuseUpload(w) \/ Fail(w)
      PROVE  TypeOK'
  BY <1>3, RollbackType DEF RefuseReusedKey, RefuseFile, RefuseUpload, Fail
<1>4. ASSUME NEW w \in Workers, Answer(w)
      PROVE  TypeOK'
  <2>1. replies' \in SUBSET Receipt
    BY <1>4, TypeParts DEF Answer, AnswersAreDurable, DataOK
  <2>2. RequestsOK'
    BY <1>4, TypeParts DEF Answer, Goto, PCs, RequestsOK
  <2>3. DataOK'
    BY <1>4, <2>1, TypeParts DEF Answer, DataOK, tables
  <2> QED BY <2>2, <2>3 DEF TypeOK, RequestsOK, DataOK
<1>5. ASSUME Crash
      PROVE  TypeOK'
  <2>1. RequestsOK' /\ DataOK'
    BY <1>5, TypeParts DEF Crash, NothingSeen, Seen, PCs, RequestsOK, DataOK, tables
  <2> QED BY <2>1 DEF TypeOK, RequestsOK, DataOK
<1>6. ASSUME UNCHANGED vars
      PROVE  TypeOK'
  BY <1>6 DEF vars, tables, requests, TypeOK
<1> QED
  BY <1>1, <1>2, <1>3, <1>4, <1>5, <1>6, StatementType, RejectionType,
     CreateType, UpdateType, DeleteType, OutsideType
  DEF Next, Queued, Statement

-----------------------------------------------------------------------------
(* What an applied mutation leaves in the tables *)

\* The change and the receipt of an applied mutation of w.
ChangeOf(w, f, v, k, name) ==
  [owner |-> Mine(w), revision |-> NextRevision(w), file |-> f, kind |-> k,
   version |-> v, name |-> name]
ReceiptOf(w, f, v) ==
  [intent |-> intent[w], outcome |-> "applied", file |-> f, version |-> v,
   current |-> None, revision |-> NextRevision(w)]

\* The columns of a row of the files table.
RowIs(row, owner, name, state, current, created, updated) ==
  /\ row.owner = owner /\ row.name = name /\ row.state = state
  /\ row.current = current /\ row.created = created /\ row.updated = updated

LEMMA UpdatedRow ==
  ASSUME NEW row \in FileRow, NEW v, NEW n
  PROVE  /\ RowIs([row EXCEPT !.current = v, !.updated = n],
                  row.owner, row.name, row.state, v, row.created, n)
         /\ RowIs([row EXCEPT !.state = v, !.updated = n],
                  row.owner, row.name, v, row.current, row.created, n)
BY DEF FileRow, RowIs

LEMMA PublishEffect ==
  ASSUME NEW w \in Workers, NEW f, NEW v, NEW k, NEW name, Publish(w, f, v, k, name)
  PROVE  /\ revision' = [revision EXCEPT ![Mine(w)] = NextRevision(w)]
         /\ changes' = changes \cup {ChangeOf(w, f, v, k, name)}
         /\ receipts' = receipts \cup {ReceiptOf(w, f, v)}
         /\ Commit(w, ReceiptOf(w, f, v))
BY DEF Publish, ChangeOf, ReceiptOf

LEMMA CreateEffect ==
  ASSUME TypeOK, NEW w \in Workers, CommitCreate(w)
  PROVE  \E f \in FileIds \ DOMAIN files, v \in VersionIds \ DOMAIN versions :
           /\ DOMAIN files' = DOMAIN files \cup {f}
           /\ \A g \in DOMAIN files : files'[g] = files[g]
           /\ RowIs(files'[f], Mine(w), intent[w].name, "active", v,
                    NextRevision(w), NextRevision(w))
           /\ DOMAIN versions' = DOMAIN versions \cup {v}
           /\ \A q \in DOMAIN versions : versions'[q] = versions[q]
           /\ versions'[v] = [file |-> f, number |-> 1, predecessor |-> None,
                              blob |-> seen[w].source, created |-> NextRevision(w)]
           /\ Consume(intent[w].upload, v)
           /\ Publish(w, f, v, "created", intent[w].name)
<1>1. PICK f \in FileIds \ DOMAIN files, v \in VersionIds \ DOMAIN versions :
        /\ files' = Put(files, f, [owner |-> Mine(w), name |-> intent[w].name,
                                   state |-> "active", current |-> v,
                                   created |-> NextRevision(w), updated |-> NextRevision(w)])
        /\ versions' = Put(versions, v, [file |-> f, number |-> 1, predecessor |-> None,
                                         blob |-> seen[w].source, created |-> NextRevision(w)])
        /\ Consume(intent[w].upload, v)
        /\ Publish(w, f, v, "created", intent[w].name)
  BY DEF CommitCreate
<1> QED BY <1>1 DEF Put, RowIs

\* The file a request is about to update or delete.
LEMMA TargetFile ==
  ASSUME TypeOK, Locals, ReadsStayTrue, NEW w \in Workers,
         CommitUpdate(w) \/ CommitDelete(w)
  PROVE  LET f == intent[w].file
         IN /\ pc[w] = "write" /\ Mine(w) \in Owners
            /\ f \in DOMAIN files /\ f \in FileIds /\ files[f] \in FileRow
            /\ seen[w].file = files[f]
            /\ files[f].owner = Mine(w) /\ files[f].state = "active"
            /\ files[f].current = intent[w].base
            /\ intent[w].base \in DOMAIN versions
BY Running DEF TypeOK, ReadsStayTrue, ReadsHold, FileFound, CommitUpdate, CommitDelete

LEMMA UpdateEffect ==
  ASSUME TypeOK, Locals, ReadsStayTrue, NEW w \in Workers, CommitUpdate(w)
  PROVE  LET f == intent[w].file
             base == intent[w].base
         IN \E v \in VersionIds \ DOMAIN versions :
              /\ DOMAIN files' = DOMAIN files
              /\ \A g \in DOMAIN files \ {f} : files'[g] = files[g]
              /\ RowIs(files'[f], Mine(w), files[f].name, "active", v,
                       files[f].created, NextRevision(w))
              /\ DOMAIN versions' = DOMAIN versions \cup {v}
              /\ \A q \in DOMAIN versions : versions'[q] = versions[q]
              /\ versions'[v] = [file |-> f, number |-> versions[base].number + 1,
                                 predecessor |-> base, blob |-> seen[w].source,
                                 created |-> NextRevision(w)]
              /\ Consume(intent[w].upload, v)
              /\ Publish(w, f, v, "updated", files[f].name)
<1> DEFINE f == intent[w].file
           base == intent[w].base
<1>1. /\ f \in DOMAIN files /\ files[f] \in FileRow /\ seen[w].file = files[f]
      /\ files[f].owner = Mine(w) /\ files[f].state = "active" /\ files[f].current = base
  BY TargetFile
<1>2. PICK v \in VersionIds \ DOMAIN versions :
        /\ versions' = Put(versions, v, [file |-> f, number |-> versions[base].number + 1,
                                         predecessor |-> base, blob |-> seen[w].source,
                                         created |-> NextRevision(w)])
        /\ files' = [files EXCEPT ![f].current = v, ![f].updated = NextRevision(w)]
        /\ Consume(intent[w].upload, v)
        /\ Publish(w, f, v, "updated", files[f].name)
  BY <1>1 DEF CommitUpdate
<1>3. RowIs([files[f] EXCEPT !.current = v, !.updated = NextRevision(w)],
            Mine(w), files[f].name, "active", v, files[f].created, NextRevision(w))
  BY <1>1, UpdatedRow
<1>4. /\ DOMAIN files' = DOMAIN files
      /\ \A g \in DOMAIN files \ {f} : files'[g] = files[g]
      /\ RowIs(files'[f], Mine(w), files[f].name, "active", v,
               files[f].created, NextRevision(w))
  BY <1>1, <1>2, <1>3
<1> QED BY <1>1, <1>2, <1>4 DEF Put

LEMMA DeleteEffect ==
  ASSUME TypeOK, Locals, ReadsStayTrue, NEW w \in Workers, CommitDelete(w)
  PROVE  LET f == intent[w].file
         IN /\ DOMAIN files' = DOMAIN files
            /\ \A g \in DOMAIN files \ {f} : files'[g] = files[g]
            /\ RowIs(files'[f], Mine(w), files[f].name, "tombstoned", files[f].current,
                     files[f].created, NextRevision(w))
            /\ versions' = versions /\ uploads' = uploads
            /\ Publish(w, f, None, "deleted", files[f].name)
<1> DEFINE f == intent[w].file
<1>1. /\ f \in DOMAIN files /\ files[f] \in FileRow /\ seen[w].file = files[f]
      /\ files[f].owner = Mine(w)
  BY TargetFile
<1>2. RowIs([files[f] EXCEPT !.state = "tombstoned", !.updated = NextRevision(w)],
            Mine(w), files[f].name, "tombstoned", files[f].current,
            files[f].created, NextRevision(w))
  BY <1>1, UpdatedRow
<1>3. /\ DOMAIN files' = DOMAIN files
      /\ \A g \in DOMAIN files \ {f} : files'[g] = files[g]
      /\ RowIs(files'[f], Mine(w), files[f].name, "tombstoned", files[f].current,
               files[f].created, NextRevision(w))
  BY <1>1, <1>2 DEF CommitDelete
<1> QED BY <1>1, <1>3 DEF CommitDelete

\* What an update and a delete have in common.
LEMMA ChangedFile ==
  ASSUME TypeOK, Locals, ReadsStayTrue, NEW w \in Workers,
         CommitUpdate(w) \/ CommitDelete(w)
  PROVE  /\ intent[w].file \in DOMAIN files
         /\ files[intent[w].file].owner = Mine(w)
         /\ DOMAIN files' = DOMAIN files
         /\ \A g \in DOMAIN files \ {intent[w].file} : files'[g] = files[g]
         /\ files'[intent[w].file].owner = Mine(w)
         /\ files'[intent[w].file].name = files[intent[w].file].name
         /\ files'[intent[w].file].created = files[intent[w].file].created
<1>1. CASE CommitUpdate(w)
  BY <1>1, TargetFile, UpdateEffect DEF RowIs
<1>2. CASE CommitDelete(w)
  BY <1>2, TargetFile, DeleteEffect DEF RowIs
<1> QED BY <1>1, <1>2

-----------------------------------------------------------------------------
(* What a request has read and locked stays so *)

\* A step leaves x and everything x has read alone.
LeftAlone(x) ==
  /\ pc'[x] = pc[x] /\ intent'[x] = intent[x] /\ seen'[x] = seen[x]
  /\ \A y \in Rows : lock[y] = x => lock'[y] = x
  /\ pc[x] \in Holding =>
       /\ revision'[Mine(x)] = revision[Mine(x)]
       /\ \A r \in receipts' : r \in receipts \/ r.intent.owner # Mine(x)
       /\ \A f \in DOMAIN files : files[f].owner = Mine(x) => f \in DOMAIN files' /\ files'[f] = files[f]
       /\ \A f \in DOMAIN files' : files'[f].owner = Mine(x) => f \in DOMAIN files /\ files'[f] = files[f]
       /\ DOMAIN versions \subseteq DOMAIN versions'
       /\ \A u \in DOMAIN uploads : lock[u] = x => u \in DOMAIN uploads' /\ uploads'[u] = uploads[u]

LEMMA Frame ==
  ASSUME TypeOK, Locals, NEW x \in Workers, ReadsHold(x), LeftAlone(x)
  PROVE  ReadsHold(x)'
<1>0. pc'[x] = pc[x] /\ intent'[x] = intent[x] /\ seen'[x] = seen[x] /\ Mine(x)' = Mine(x)
  BY DEF LeftAlone, Mine
<1>1. CASE pc[x] \notin Holding
  BY <1>0, <1>1 DEF ReadsHold, Holding
<1>2. CASE pc[x] \in Holding
  <2>1. /\ Mine(x) \in Owners
        /\ intent[x].kind # "create" => intent[x].file \in FileIds
        /\ intent[x].kind # "delete" => intent[x].upload \in UploadIds
        /\ intent[x].kind \in {"create", "update", "delete"}
    BY <1>2, Running DEF Holding
  <2>2. (pc[x] \in {"receipt", "target", "upload", "write"} =>
          lock[Mine(x)] = x /\ seen[x].revision = revision[Mine(x)])'
    BY <1>0, <1>2, <2>1 DEF LeftAlone, ReadsHold, Rows
  <2>3. (pc[x] \in {"target", "upload", "write"} => Bound(x) = {})'
    BY <1>0, <1>2 DEF LeftAlone, ReadsHold, Bound
  <2>4. (pc[x] \in {"upload", "write"} /\ intent[x].kind = "create" => ~NameTaken(x))'
    BY <1>0, <1>2 DEF LeftAlone, ReadsHold, NameTaken
  <2>5. (pc[x] \in {"upload", "write"} /\ intent[x].kind # "create" =>
           /\ lock[intent[x].file] = x
           /\ FileFound(x)
           /\ seen[x].file = files[intent[x].file]
           /\ files[intent[x].file].state = "active"
           /\ files[intent[x].file].current = intent[x].base
           /\ intent[x].base \in DOMAIN versions)'
    BY <1>0, <1>2, <2>1 DEF LeftAlone, ReadsHold, FileFound, Rows
  <2>6. (pc[x] = "write" /\ intent[x].kind # "delete" =>
           /\ lock[intent[x].upload] = x
           /\ UploadFound(x)
           /\ uploads[intent[x].upload].state = "finalized"
           /\ uploads[intent[x].upload].source = seen[x].source)'
    BY <1>0, <1>2, <2>1 DEF LeftAlone, ReadsHold, UploadFound, Rows
  <2> QED BY <2>2, <2>3, <2>4, <2>5, <2>6 DEF ReadsHold
<1> QED BY <1>1, <1>2

\* Two requests at work on one account are one request.
LEMMA OneHolder ==
  ASSUME ReadsStayTrue, NEW w \in Workers, NEW x \in Workers,
         pc[w] \in Holding, pc[x] \in Holding, Mine(w) = Mine(x)
  PROVE  w = x
BY DEF ReadsStayTrue, ReadsHold, Holding

\* COMMIT gives back w's locks and reaches the tables of w's account only.
LEMMA CommitLeavesAlone ==
  ASSUME TypeOK, ReadsStayTrue, NEW w \in Workers, NEW x \in Workers, x # w,
         pc[w] \in Holding, NEW r, r.intent.owner = Mine(w), Commit(w, r),
         receipts' \subseteq receipts \cup {r}
  PROVE  /\ pc'[x] = pc[x] /\ intent'[x] = intent[x] /\ seen'[x] = seen[x]
         /\ \A y \in Rows : lock[y] = x => lock'[y] = x
         /\ pc[x] \in Holding =>
              /\ Mine(x) # Mine(w)
              /\ \A q \in receipts' : q \in receipts \/ q.intent.owner # Mine(x)
<1>1. pc'[x] = pc[x] /\ intent'[x] = intent[x] /\ seen'[x] = seen[x]
  BY DEF Commit, Goto, TypeOK
<1>2. \A y \in Rows : lock[y] = x => lock'[y] = x
  BY DEF Commit, Released, TypeOK
<1>3. ASSUME pc[x] \in Holding
      PROVE  /\ Mine(x) # Mine(w)
             /\ \A q \in receipts' : q \in receipts \/ q.intent.owner # Mine(x)
  <2>1. Mine(x) # Mine(w)
    BY <1>3, OneHolder
  <2> QED BY <2>1
<1> QED BY <1>1, <1>2, <1>3

\* Statements that write nothing, and rejections.
LEMMA QuietLeavesAlone ==
  ASSUME TypeOK, ReadsStayTrue, NEW w \in Workers, NEW x \in Workers, x # w,
         \/ \E i \in Intents : Start(w, i)
         \/ EnsureAccount(w) \/ LockAccount(w) \/ MissReceipt(w)
         \/ FindNameFree(w) \/ LockCurrentFile(w) \/ LockUpload(w) \/ Answer(w)
  PROVE  LeftAlone(x)
<1>1. UNCHANGED tables
  BY DEF Start, EnsureAccount, LockAccount, MissReceipt, FindNameFree,
         LockCurrentFile, LockUpload, Answer
<1>2. pc'[x] = pc[x] /\ intent'[x] = intent[x] /\ seen'[x] = seen[x]
  BY DEF Start, EnsureAccount, LockAccount, MissReceipt, FindNameFree,
         LockCurrentFile, LockUpload, Answer, Goto, Sees, TypeOK
<1>3. \A y \in Rows : lock[y] = x => lock'[y] = x
  <2> USE ConstantsAssumption DEF Available, TypeOK
  <2>1. CASE (\E i \in Intents : Start(w, i)) \/ MissReceipt(w) \/ FindNameFree(w) \/ Answer(w)
    BY <2>1 DEF Start, MissReceipt, FindNameFree, Answer
  <2>2. CASE EnsureAccount(w)
    BY <2>2 DEF EnsureAccount
  <2>3. CASE LockAccount(w)
    BY <2>3 DEF LockAccount
  <2>4. CASE LockCurrentFile(w)
    BY <2>4 DEF LockCurrentFile, SelectFile
  <2>5. CASE LockUpload(w)
    BY <2>5 DEF LockUpload, SelectUpload, UploadUsable
  <2> QED BY <2>1, <2>2, <2>3, <2>4, <2>5
<1> QED BY <1>1, <1>2, <1>3 DEF LeftAlone, tables

LEMMA RollbackLeavesAlone ==
  ASSUME TypeOK, NEW w \in Workers, NEW x \in Workers, x # w, Rollback(w)
  PROVE  LeftAlone(x)
BY DEF Rollback, Released, Goto, LeftAlone, tables, TypeOK

LEMMA RejectionLeavesAlone ==
  ASSUME TypeOK, ReadsStayTrue, NEW w \in Workers, NEW x \in Workers, x # w,
         ReplayReceipt(w) \/ RecordNameConflict(w) \/ RecordStaleBase(w)
  PROVE  LeftAlone(x)
<1>1. /\ pc[w] \in Holding
      /\ UNCHANGED <<revision, files, versions, uploads>>
  BY DEF Holding, ReplayReceipt, RecordNameConflict, RecordStaleBase, SelectFile, RecordRejection
<1>2. PICK r : /\ r.intent.owner = Mine(w) /\ Commit(w, r)
               /\ receipts' \subseteq receipts \cup {r}
  <2>1. CASE ReplayReceipt(w)
    BY <2>1 DEF ReplayReceipt, Bound
  <2>2. CASE RecordNameConflict(w)
    BY <2>2 DEF RecordNameConflict, RecordRejection, Mine
  <2>3. CASE RecordStaleBase(w)
    BY <2>3 DEF RecordStaleBase, RecordRejection, Mine
  <2> QED BY <2>1, <2>2, <2>3
<1> QED BY <1>1, <1>2, CommitLeavesAlone DEF LeftAlone

LEMMA AppliedLeavesAlone ==
  ASSUME TypeOK, Locals, ReadsStayTrue, NEW w \in Workers, NEW x \in Workers, x # w,
         CommitCreate(w) \/ CommitUpdate(w) \/ CommitDelete(w)
  PROVE  LeftAlone(x)
<1>1. /\ pc[w] = "write" /\ pc[w] \in Holding
      /\ Mine(w) \in Owners
  BY Running DEF Holding, CommitCreate, CommitUpdate, CommitDelete
<1>2. PICK f, v, k, name : Publish(w, f, v, k, name)
  BY DEF CommitCreate, CommitUpdate, CommitDelete
<1>3. PICK r : /\ r.intent.owner = Mine(w) /\ Commit(w, r)
               /\ receipts' \subseteq receipts \cup {r}
  BY <1>2 DEF Publish, Mine
<1>4. /\ pc'[x] = pc[x] /\ intent'[x] = intent[x] /\ seen'[x] = seen[x]
      /\ \A y \in Rows : lock[y] = x => lock'[y] = x
      /\ pc[x] \in Holding =>
              /\ Mine(x) # Mine(w)
              /\ \A q \in receipts' : q \in receipts \/ q.intent.owner # Mine(x)
  BY <1>1, <1>3, CommitLeavesAlone
<1>5. pc[x] \in Holding => revision'[Mine(x)] = revision[Mine(x)]
  BY <1>1, <1>2, <1>4 DEF Publish, TypeOK
<1>6. \A u \in DOMAIN uploads : lock[u] = x => u \in DOMAIN uploads' /\ uploads'[u] = uploads[u]
  <2>1. CASE CommitDelete(w)
    BY <2>1 DEF CommitDelete
  <2>2. CASE CommitCreate(w) \/ CommitUpdate(w)
    <3>1. PICK v0 : Consume(intent[w].upload, v0)
      BY <2>2 DEF CommitCreate, CommitUpdate
    <3>2. lock[intent[w].upload] = w
      BY <2>2 DEF CommitCreate, CommitUpdate, ReadsStayTrue, ReadsHold
    <3> QED BY <3>1, <3>2 DEF Consume
  <2> QED BY <2>1, <2>2
<1>7. DOMAIN versions \subseteq DOMAIN versions'
  BY DEF CommitCreate, CommitUpdate, CommitDelete, Put
<1>8. ASSUME pc[x] \in Holding
      PROVE  /\ \A f0 \in DOMAIN files : files[f0].owner = Mine(x) => f0 \in DOMAIN files' /\ files'[f0] = files[f0]
             /\ \A f0 \in DOMAIN files' : files'[f0].owner = Mine(x) => f0 \in DOMAIN files /\ files'[f0] = files[f0]
  <2>1. Mine(x) # Mine(w)
    BY <1>4, <1>8
  <2>2. CASE CommitCreate(w)
    BY <2>1, <2>2, CreateEffect, ZenonT(30) DEF RowIs
  <2>3. CASE CommitUpdate(w) \/ CommitDelete(w)
    BY <2>1, <2>3, ChangedFile
  <2> QED BY <2>2, <2>3
<1> QED BY <1>4, <1>5, <1>6, <1>7, <1>8 DEF LeftAlone

LEMMA OutsideLeavesAlone ==
  ASSUME TypeOK, NEW x \in Workers, Outside
  PROVE  LeftAlone(x)
<1> USE ConstantsAssumption DEF LeftAlone, TypeOK, requests, tables
<1>1. ASSUME NEW u \in UploadIds, NEW o \in Owners, NEW d \in Digests, UploadOpened(u, o, d)
      PROVE  LeftAlone(x)
  BY <1>1 DEF UploadOpened, Put
<1>2. ASSUME NEW u \in UploadIds, UploadFinalized(u)
      PROVE  LeftAlone(x)
  BY <1>2 DEF UploadFinalized
<1>3. ASSUME NEW d \in Drifting, ObjectLost(d)
      PROVE  LeftAlone(x)
  BY <1>3 DEF ObjectLost
<1> QED BY <1>1, <1>2, <1>3 DEF Outside

\* The statement that w itself executes.
LEMMA OwnReads ==
  ASSUME TypeOK, Locals, ReadsStayTrue, CurrentExists, NEW w \in Workers,
         Queued(w) \/ Statement(w) \/ Fail(w) \/ \E i \in Intents : Start(w, i)
  PROVE  ReadsHold(w)'
<1>1. CASE LockAccount(w)
  <2>1. Mine(w) \in Owners /\ pc' = [pc EXCEPT ![w] = "receipt"] /\ Mine(w)' = Mine(w)
    BY <1>1, Running DEF LockAccount, Goto, Mine
  <2>2. /\ lock'[Mine(w)] = w
        /\ seen'[w].revision = revision'[Mine(w)]
    BY <1>1, <2>1 DEF LockAccount, Sees, TypeOK, Rows, tables
  <2> QED BY <2>1, <2>2 DEF ReadsHold, TypeOK
<1>2. CASE MissReceipt(w)
  BY <1>2 DEF MissReceipt, Goto, tables, TypeOK, ReadsStayTrue, ReadsHold, Bound, Mine
<1>3. CASE FindNameFree(w)
  BY <1>3 DEF FindNameFree, Goto, tables, TypeOK, ReadsStayTrue, ReadsHold, Bound, Mine, NameTaken
<1>4. CASE LockCurrentFile(w)
  <2> DEFINE f == intent[w].file
  <2>1. /\ pc[w] = "target" /\ intent[w].kind \in {"update", "delete"}
        /\ Mine(w) \in Owners /\ f \in FileIds
        /\ FileFound(w) /\ files[f].state = "active" /\ files[f].current = intent[w].base
        /\ intent[w].base \in DOMAIN versions
    BY <1>4, Running DEF LockCurrentFile, SelectFile, CurrentExists, FileFound
  <2>2. lock[Mine(w)] = w /\ seen[w].revision = revision[Mine(w)] /\ Bound(w) = {}
    BY <2>1 DEF ReadsStayTrue, ReadsHold
  <2>3. /\ lock' = [lock EXCEPT ![f] = w]
        /\ seen' = [seen EXCEPT ![w] = [revision |-> seen[w].revision, file |-> files[f], source |-> None]]
        /\ pc' = [pc EXCEPT ![w] = IF intent[w].kind = "update" THEN "upload" ELSE "write"]
        /\ UNCHANGED <<revision, files, versions, uploads, receipts, intent>>
    BY <1>4 DEF LockCurrentFile, Sees, Goto, tables
  <2>4. /\ lock'[Mine(w)] = w /\ lock'[f] = w
        /\ seen'[w].revision = revision[Mine(w)] /\ seen'[w].file = files[f]
        /\ \/ pc'[w] = "upload"
           \/ pc'[w] = "write" /\ intent[w].kind = "delete"
    BY <2>1, <2>2, <2>3 DEF TypeOK, Rows
  <2> QED BY <2>1, <2>2, <2>3, <2>4 DEF ReadsHold, Bound, Mine, FileFound
<1>5. CASE LockUpload(w)
  <2> DEFINE u == intent[w].upload
  <2>1. /\ pc[w] = "upload" /\ u \in UploadIds /\ Mine(w) \in Owners
        /\ UploadFound(w) /\ uploads[u].state = "finalized"
        /\ intent[w].kind # "create" => intent[w].file \in FileIds
    BY <1>5, Running DEF LockUpload, SelectUpload, UploadUsable, UploadFound, TypeOK
  <2>2. /\ lock' = [lock EXCEPT ![u] = w]
        /\ seen' = [seen EXCEPT ![w] = [revision |-> seen[w].revision, file |-> seen[w].file,
                                        source |-> uploads[u].source]]
        /\ pc' = [pc EXCEPT ![w] = "write"]
        /\ UNCHANGED <<revision, files, versions, uploads, receipts, intent>>
    BY <1>5 DEF LockUpload, Sees, Goto, tables
  <2>3. /\ lock'[u] = w /\ \A y \in Rows : lock[y] = w => lock'[y] = w
        /\ seen'[w].revision = seen[w].revision /\ seen'[w].file = seen[w].file
        /\ seen'[w].source = uploads[u].source
        /\ pc'[w] = "write"
    BY <2>1, <2>2 DEF TypeOK, Rows
  <2> QED BY <2>1, <2>2, <2>3 DEF ReadsStayTrue, ReadsHold, Bound, Mine, FileFound, UploadFound, NameTaken, Rows
<1>6. CASE pc'[w] \notin Holding
  BY <1>6 DEF ReadsHold, Holding
<1>7. CASE RefuseReusedKey(w) \/ RefuseFile(w) \/ RefuseUpload(w) \/ Fail(w)
  <2>1. pc'[w] = "idle"
    BY <1>7 DEF RefuseReusedKey, RefuseFile, RefuseUpload, Fail, Rollback, Goto, TypeOK
  <2> QED BY <1>6, <2>1 DEF Holding
<1>8. CASE ReplayReceipt(w) \/ RecordNameConflict(w) \/ RecordStaleBase(w)
           \/ CommitCreate(w) \/ CommitUpdate(w) \/ CommitDelete(w)
  <2>1. \E r : Commit(w, r)
    BY <1>8 DEF ReplayReceipt, RecordNameConflict, RecordStaleBase, RecordRejection,
         CommitCreate, CommitUpdate, CommitDelete, Publish
  <2>2. pc'[w] = "reply"
    BY <2>1 DEF Commit, Goto, TypeOK
  <2> QED BY <1>6, <2>2 DEF Holding
<1>9. CASE EnsureAccount(w) \/ Answer(w) \/ \E i \in Intents : Start(w, i)
  <2>1. pc'[w] \in {"lock", "idle", "ensure"}
    BY <1>9 DEF EnsureAccount, Answer, Start, Goto, TypeOK
  <2> QED BY <1>6, <2>1 DEF Holding
<1> QED BY <1>1, <1>2, <1>3, <1>4, <1>5, <1>7, <1>8, <1>9 DEF Queued, Statement

LEMMA ReadsStep ==
  ASSUME TypeOK, Locals, ReadsStayTrue, CurrentExists, [Next]_vars
  PROVE  ReadsStayTrue'
<1> SUFFICES ASSUME NEW x \in Workers
             PROVE  ReadsHold(x)'
  BY DEF ReadsStayTrue
<1>1. ReadsHold(x)
  BY DEF ReadsStayTrue
<1>2. ASSUME NEW w \in Workers,
             Queued(w) \/ Statement(w) \/ Fail(w) \/ \E i \in Intents : Start(w, i)
      PROVE  ReadsHold(x)'
  <2>1. CASE x = w
    BY <1>2, <2>1, OwnReads
  <2>2. CASE x # w
    <3>1. LeftAlone(x)
      <4>1. CASE \/ \E i \in Intents : Start(w, i)
                 \/ EnsureAccount(w) \/ LockAccount(w) \/ MissReceipt(w)
                 \/ FindNameFree(w) \/ LockCurrentFile(w) \/ LockUpload(w) \/ Answer(w)
        BY <4>1, <2>2, QuietLeavesAlone
      <4>2. CASE RefuseReusedKey(w) \/ RefuseFile(w) \/ RefuseUpload(w) \/ Fail(w)
        BY <4>2, <2>2, RollbackLeavesAlone DEF RefuseReusedKey, RefuseFile, RefuseUpload, Fail
      <4>3. CASE ReplayReceipt(w) \/ RecordNameConflict(w) \/ RecordStaleBase(w)
        BY <4>3, <2>2, RejectionLeavesAlone
      <4>4. CASE CommitCreate(w) \/ CommitUpdate(w) \/ CommitDelete(w)
        BY <4>4, <2>2, AppliedLeavesAlone
      <4> QED BY <1>2, <4>1, <4>2, <4>3, <4>4 DEF Queued, Statement
    <3> QED BY <1>1, <3>1, Frame
  <2> QED BY <2>1, <2>2
<1>3. CASE Crash
  <2>1. pc'[x] = "idle"
    BY <1>3 DEF Crash
  <2> QED BY <2>1 DEF ReadsHold
<1>4. CASE Outside
  BY <1>1, <1>4, OutsideLeavesAlone, Frame
<1>5. CASE UNCHANGED vars
  <2>1. LeftAlone(x)
    BY <1>5 DEF vars, tables, requests, LeftAlone
  <2> QED BY <1>1, <2>1, Frame
<1> QED BY <1>2, <1>3, <1>4, <1>5 DEF Next

-----------------------------------------------------------------------------
(* The other parts of the invariant *)

LEMMA LocalsStep ==
  ASSUME TypeOK, Locals, [Next]_vars
  PROVE  Locals'
<1> SUFFICES ASSUME NEW x \in Workers, pc'[x] # "idle"
             PROVE  intent'[x] \in Intents
  BY DEF Locals
<1>1. pc[x] # "idle" => intent[x] \in Intents
  BY DEF Locals
<1>2. ASSUME NEW w \in Workers, NEW i \in Intents, Start(w, i)
      PROVE  intent'[x] \in Intents
  BY <1>1, <1>2 DEF Start, Goto, TypeOK
<1>3. ASSUME NEW w \in Workers, \E r : Commit(w, r), pc[w] # "idle"
      PROVE  intent'[x] \in Intents
  BY <1>1, <1>3 DEF Commit, Goto, TypeOK
<1>4. ASSUME NEW w \in Workers, Rollback(w) \/ Answer(w)
      PROVE  intent'[x] \in Intents
  BY <1>1, <1>4 DEF Rollback, Answer, Goto, TypeOK
<1>5. ASSUME NEW w \in Workers,
             \/ EnsureAccount(w) \/ LockAccount(w) \/ MissReceipt(w)
             \/ FindNameFree(w) \/ LockCurrentFile(w) \/ LockUpload(w)
      PROVE  intent'[x] \in Intents
  <2>1. intent' = intent /\ pc[w] # "idle" /\ \A y \in Workers \ {w} : pc'[y] = pc[y]
    BY <1>5 DEF EnsureAccount, LockAccount, MissReceipt, FindNameFree, LockCurrentFile,
                LockUpload, SelectFile, SelectUpload, Goto, TypeOK
  <2> QED BY <1>1, <2>1
<1>6. ASSUME Crash
      PROVE  FALSE
  BY <1>6 DEF Crash
<1>7. ASSUME Outside \/ UNCHANGED vars
      PROVE  intent'[x] \in Intents
  BY <1>1, <1>7 DEF Outside, UploadOpened, UploadFinalized, ObjectLost, vars, requests
<1>8. ASSUME NEW w \in Workers, Statement(w) \/ Queued(w) \/ Fail(w)
      PROVE  \/ (\E r : Commit(w, r)) /\ pc[w] # "idle"
             \/ Rollback(w) \/ Answer(w)
             \/ EnsureAccount(w) \/ LockAccount(w) \/ MissReceipt(w)
             \/ FindNameFree(w) \/ LockCurrentFile(w) \/ LockUpload(w)
  BY <1>8 DEF Statement, Queued, ReplayReceipt, RecordNameConflict, RecordStaleBase, RecordRejection,
       CommitCreate, CommitUpdate, CommitDelete, Publish, RefuseReusedKey, RefuseFile, RefuseUpload,
       Fail, SelectFile
<1> QED BY <1>2, <1>3, <1>4, <1>5, <1>6, <1>7, <1>8 DEF Next


\* The steps that leave the tables alone, those that only add a receipt, and
\* those that apply a mutation.
Quiet == UNCHANGED <<revision, files, versions, changes, receipts>>

LEMMA KindsOfStep ==
  ASSUME [Next]_vars
  PROVE  \/ Quiet /\ UNCHANGED uploads
         \/ Quiet /\ Outside
         \/ \E w \in Workers : ReplayReceipt(w) \/ RecordNameConflict(w) \/ RecordStaleBase(w)
         \/ \E w \in Workers : CommitCreate(w) \/ CommitUpdate(w) \/ CommitDelete(w)
<1> USE DEF Quiet, tables
<1>1. ASSUME NEW w \in Workers,
             \/ \E i \in Intents : Start(w, i)
             \/ EnsureAccount(w) \/ LockAccount(w) \/ MissReceipt(w)
             \/ FindNameFree(w) \/ LockCurrentFile(w) \/ LockUpload(w) \/ Answer(w)
      PROVE  Quiet /\ UNCHANGED uploads
  BY <1>1 DEF Start, EnsureAccount, LockAccount, MissReceipt, FindNameFree,
         LockCurrentFile, LockUpload, Answer
<1>2. ASSUME NEW w \in Workers, RefuseReusedKey(w) \/ RefuseFile(w) \/ RefuseUpload(w) \/ Fail(w)
      PROVE  Quiet /\ UNCHANGED uploads
  BY <1>2 DEF RefuseReusedKey, RefuseFile, RefuseUpload, Fail, Rollback
<1>3. ASSUME Crash \/ UNCHANGED vars
      PROVE  Quiet /\ UNCHANGED uploads
  BY <1>3 DEF Crash, vars
<1>4. ASSUME Outside
      PROVE  Quiet
  BY <1>4 DEF Outside, UploadOpened, UploadFinalized, ObjectLost
<1> QED BY <1>1, <1>2, <1>3, <1>4 DEF Next, Queued, Statement

LEMMA RejectionQuiet ==
  ASSUME NEW w \in Workers, ReplayReceipt(w) \/ RecordNameConflict(w) \/ RecordStaleBase(w)
  PROVE  UNCHANGED <<revision, files, versions, uploads, changes>>
BY DEF ReplayReceipt, RecordNameConflict, RecordStaleBase, RecordRejection

LEMMA CurrentStep ==
  ASSUME TypeOK, Locals, ReadsStayTrue, CurrentExists, [Next]_vars
  PROVE  CurrentExists'
<1>1. CASE Quiet
  BY <1>1 DEF Quiet, CurrentExists
<1>2. ASSUME NEW w \in Workers, ReplayReceipt(w) \/ RecordNameConflict(w) \/ RecordStaleBase(w)
      PROVE  CurrentExists'
  BY <1>2, RejectionQuiet DEF CurrentExists
<1>3. ASSUME NEW w \in Workers, CommitCreate(w)
      PROVE  CurrentExists'
  <2>1. PICK f \in FileIds \ DOMAIN files, v \in VersionIds \ DOMAIN versions :
          /\ DOMAIN files' = DOMAIN files \cup {f}
          /\ \A g \in DOMAIN files : files'[g] = files[g]
          /\ files'[f].current = v
          /\ DOMAIN versions' = DOMAIN versions \cup {v}
    BY <1>3, CreateEffect DEF RowIs
  <2> QED BY <2>1 DEF CurrentExists
<1>4. ASSUME NEW w \in Workers, CommitUpdate(w)
      PROVE  CurrentExists'
  BY <1>4, UpdateEffect DEF CurrentExists, RowIs
<1>5. ASSUME NEW w \in Workers, CommitDelete(w)
      PROVE  CurrentExists'
  BY <1>5, TargetFile, DeleteEffect DEF CurrentExists, RowIs
<1> QED BY <1>1, <1>2, <1>3, <1>4, <1>5, KindsOfStep

LEMMA PrefixStep ==
  ASSUME TypeOK, Locals, ReadsStayTrue, CommittedPrefix, [Next]_vars
  PROVE  CommittedPrefix'
<1>1. CASE Quiet
  BY <1>1 DEF Quiet, CommittedPrefix, Log
<1>2. ASSUME NEW w \in Workers, ReplayReceipt(w) \/ RecordNameConflict(w) \/ RecordStaleBase(w)
      PROVE  CommittedPrefix'
  BY <1>2, RejectionQuiet DEF CommittedPrefix, Log
<1>3. ASSUME NEW w \in Workers, CommitCreate(w) \/ CommitUpdate(w) \/ CommitDelete(w)
      PROVE  CommittedPrefix'
  <2>1. PICK c : /\ c.owner = Mine(w) /\ c.revision = NextRevision(w)
                 /\ changes' = changes \cup {c}
                 /\ revision' = [revision EXCEPT ![Mine(w)] = NextRevision(w)]
    <3>1. PICK f, v, k, name : Publish(w, f, v, k, name)
      BY <1>3 DEF CommitCreate, CommitUpdate, CommitDelete
    <3> QED BY <3>1 DEF Publish
  <2>2. Mine(w) \in Owners /\ NextRevision(w) = revision[Mine(w)] + 1 /\ revision[Mine(w)] \in Nat
    BY <1>3, Running DEF ReadsStayTrue, ReadsHold, NextRevision, TypeOK,
                         CommitCreate, CommitUpdate, CommitDelete
  <2> SUFFICES ASSUME NEW o \in Owners
               PROVE  /\ {d.revision : d \in Log(o)}' = 1 .. revision'[o]
                      /\ \A d, e \in Log(o)' : d.revision = e.revision => d = e
    BY DEF CommittedPrefix
  <2>3. /\ {d.revision : d \in Log(o)} = 1 .. revision[o]
        /\ \A d, e \in Log(o) : d.revision = e.revision => d = e
    BY DEF CommittedPrefix
  <2>4. CASE o # Mine(w)
    <3>1. Log(o)' = Log(o) /\ revision'[o] = revision[o]
      BY <2>1, <2>2, <2>4 DEF Log, TypeOK
    <3> QED BY <2>3, <3>1
  <2>5. CASE o = Mine(w)
    <3>1. Log(o)' = Log(o) \cup {c} /\ revision'[o] = revision[o] + 1
      BY <2>1, <2>2, <2>5 DEF Log, TypeOK
    <3>2. \A d \in Log(o) : d.revision \in 1 .. revision[o]
      BY <2>3
    <3>3. {d.revision : d \in Log(o)'} = (1 .. revision[o]) \cup {revision[o] + 1}
      BY <2>1, <2>2, <2>3, <2>5, <3>1
    <3>4. (1 .. revision[o]) \cup {revision[o] + 1} = 1 .. (revision[o] + 1)
      BY <2>2, <2>5
    <3>5. \A d, e \in Log(o)' : d.revision = e.revision => d = e
      BY <2>1, <2>2, <2>3, <2>5, <3>1, <3>2
    <3> QED BY <3>1, <3>3, <3>4, <3>5
  <2> QED BY <2>4, <2>5
<1> QED BY <1>1, <1>2, <1>3, KindsOfStep


LEMMA AnswersStep ==
  ASSUME TypeOK, Locals, ReadsStayTrue, AnswersAreDurable, [Next]_vars
  PROVE  AnswersAreDurable'
<1> DEFINE Told == /\ replies' \subseteq receipts'
                   /\ \A x \in Workers : pc'[x] = "reply" => reply'[x] \in receipts'
           OneEach == \A r, q \in receipts' :
                        r.intent.owner = q.intent.owner /\ r.intent.key = q.intent.key => r = q
<1>1. ASSUME NEW w \in Workers,
             \/ \E i \in Intents : Start(w, i)
             \/ EnsureAccount(w) \/ LockAccount(w) \/ MissReceipt(w)
             \/ FindNameFree(w) \/ LockCurrentFile(w) \/ LockUpload(w) \/ Answer(w)
      PROVE  Told /\ receipts' = receipts
  <2>1. receipts' = receipts
    BY <1>1 DEF Start, EnsureAccount, LockAccount, MissReceipt, FindNameFree,
         LockCurrentFile, LockUpload, Answer, tables
  <2>2. replies' \subseteq receipts
    BY <1>1 DEF Start, EnsureAccount, LockAccount, MissReceipt, FindNameFree,
         LockCurrentFile, LockUpload, Answer, AnswersAreDurable
  <2>3. \A x \in Workers : pc'[x] = "reply" => pc[x] = "reply" /\ reply'[x] = reply[x]
    BY <1>1 DEF Start, EnsureAccount, LockAccount, MissReceipt, FindNameFree,
         LockCurrentFile, LockUpload, Answer, Goto, TypeOK
  <2> QED BY <2>1, <2>2, <2>3 DEF AnswersAreDurable
<1>2. ASSUME NEW w \in Workers, RefuseReusedKey(w) \/ RefuseFile(w) \/ RefuseUpload(w) \/ Fail(w)
      PROVE  Told /\ receipts' = receipts
  <2>1. Rollback(w)
    BY <1>2 DEF RefuseReusedKey, RefuseFile, RefuseUpload, Fail
  <2> QED BY <2>1 DEF Rollback, Goto, tables, TypeOK, AnswersAreDurable
<1>3. ASSUME Crash \/ Outside \/ UNCHANGED vars
      PROVE  Told /\ receipts' = receipts
  BY <1>3 DEF Crash, Outside, UploadOpened, UploadFinalized, ObjectLost, vars, tables,
       requests, AnswersAreDurable
<1>4. ASSUME NEW w \in Workers, NEW r, Commit(w, r), r \in receipts', receipts \subseteq receipts'
      PROVE  Told
  BY <1>4 DEF Commit, Goto, TypeOK, AnswersAreDurable
<1>5. ASSUME NEW w \in Workers, ReplayReceipt(w)
      PROVE  Told /\ receipts' = receipts
  BY <1>4, <1>5 DEF ReplayReceipt, Bound
<1>6. ASSUME NEW w \in Workers, \/ RecordNameConflict(w) \/ RecordStaleBase(w)
                                \/ CommitCreate(w) \/ CommitUpdate(w) \/ CommitDelete(w)
      PROVE  Told /\ OneEach
  <2>1. PICK r : r.intent = intent[w] /\ Commit(w, r) /\ receipts' = receipts \cup {r}
    <3>1. CASE RecordNameConflict(w) \/ RecordStaleBase(w)
      BY <3>1 DEF RecordNameConflict, RecordStaleBase, RecordRejection
    <3>2. CASE CommitCreate(w) \/ CommitUpdate(w) \/ CommitDelete(w)
      <4>1. PICK f, v, k, name : Publish(w, f, v, k, name)
        BY <3>2 DEF CommitCreate, CommitUpdate, CommitDelete
      <4> QED BY <4>1, PublishEffect DEF ReceiptOf
    <3> QED BY <1>6, <3>1, <3>2
  <2>2. Bound(w) = {}
    BY <1>6 DEF ReadsStayTrue, ReadsHold, RecordNameConflict, RecordStaleBase, SelectFile,
         CommitCreate, CommitUpdate, CommitDelete
  <2>3. \A q \in receipts : q.intent.owner # r.intent.owner \/ q.intent.key # r.intent.key
    BY <2>1, <2>2 DEF Bound, Mine
  <2>4. OneEach
    BY <2>1, <2>3 DEF AnswersAreDurable
  <2>5. Told
    BY <1>4, <2>1
  <2> QED BY <2>4, <2>5
<1>7. Told /\ (receipts' = receipts \/ OneEach)
  BY <1>1, <1>2, <1>3, <1>5, <1>6 DEF Next, Queued, Statement
<1> QED BY <1>7 DEF AnswersAreDurable

\* A file and an upload keep their account.
LEMMA OwnersKept ==
  ASSUME TypeOK, Locals, ReadsStayTrue, [Next]_vars
  PROVE  /\ \A f \in DOMAIN files : f \in DOMAIN files' /\ files'[f].owner = files[f].owner
         /\ \A u \in DOMAIN uploads : u \in DOMAIN uploads' /\ uploads'[u].owner = uploads[u].owner
<1> DEFINE Files == \A f \in DOMAIN files : f \in DOMAIN files' /\ files'[f].owner = files[f].owner
           Uploads == \A u \in DOMAIN uploads : u \in DOMAIN uploads' /\ uploads'[u].owner = uploads[u].owner
<1>1. ASSUME Quiet, UNCHANGED uploads
      PROVE  Files /\ Uploads
  BY <1>1 DEF Quiet
<1>2. ASSUME Outside
      PROVE  Files /\ Uploads
  <2>1. ASSUME NEW u \in UploadIds, NEW o \in Owners, NEW d \in Digests, UploadOpened(u, o, d)
        PROVE  Files /\ Uploads
    BY <2>1 DEF UploadOpened, Put
  <2>2. ASSUME NEW u \in UploadIds, UploadFinalized(u)
        PROVE  Files /\ Uploads
    BY <2>2 DEF UploadFinalized, TypeOK, UploadRow
  <2>3. ASSUME NEW d \in Drifting, ObjectLost(d)
        PROVE  Files /\ Uploads
    BY <2>3 DEF ObjectLost, tables
  <2> QED BY <1>2, <2>1, <2>2, <2>3 DEF Outside
<1>3. ASSUME NEW w \in Workers, ReplayReceipt(w) \/ RecordNameConflict(w) \/ RecordStaleBase(w)
      PROVE  Files /\ Uploads
  BY <1>3, RejectionQuiet
<1>4. ASSUME NEW u, NEW v, Consume(u, v)
      PROVE  Uploads
  BY <1>4 DEF Consume, TypeOK, UploadRow
<1>5. ASSUME NEW w \in Workers, CommitCreate(w)
      PROVE  Files /\ Uploads
  <2>1. Files
    BY <1>5, CreateEffect
  <2>2. \E v : Consume(intent[w].upload, v)
    BY <1>5 DEF CommitCreate
  <2> QED BY <1>4, <2>1, <2>2
<1>6. ASSUME NEW w \in Workers, CommitUpdate(w)
      PROVE  Files /\ Uploads
  <2>1. Files
    BY <1>6, ChangedFile
  <2>2. \E v : Consume(intent[w].upload, v)
    BY <1>6 DEF CommitUpdate
  <2> QED BY <1>4, <2>1, <2>2
<1>7. ASSUME NEW w \in Workers, CommitDelete(w)
      PROVE  Files /\ Uploads
  BY <1>7, ChangedFile DEF CommitDelete
<1> QED BY <1>1, <1>2, <1>3, <1>5, <1>6, <1>7, KindsOfStep


\* Which rows a step locks, and for whom.
LEMMA HoldersStep ==
  ASSUME TypeOK, Locals, ReadsStayTrue, LockHolders, [Next]_vars
  PROVE  LockHolders'
<1> USE ConstantsAssumption
<1> DEFINE Holds(x, v) ==
      \/ pc[v] = "lock" /\ x = Mine(v)
      \/ /\ pc[v] \in Holding
         /\ x \in Owners => x = Mine(v)
         /\ x \in FileIds => x \in DOMAIN files /\ files[x].owner = Mine(v)
         /\ x \in UploadIds => x \in DOMAIN uploads /\ uploads[x].owner = Mine(v)
<1> SUFFICES ASSUME NEW x \in Rows, NEW v \in Workers, lock'[x] = v
             PROVE  Holds(x, v)'
  BY DEF LockHolders
<1>1. ASSUME lock[x] = v, pc'[v] = pc[v], intent'[v] = intent[v]
      PROVE  Holds(x, v)'
  <2>1. Holds(x, v)
    BY <1>1 DEF LockHolders
  <2> QED BY <1>1, <2>1, OwnersKept DEF Mine
<1>2. ASSUME lock[x] = v, pc[v] \in Holding, pc'[v] \in Holding, intent'[v] = intent[v]
      PROVE  Holds(x, v)'
  <2>1. Holds(x, v)
    BY <1>2 DEF LockHolders
  <2> QED BY <1>2, <2>1, OwnersKept DEF Mine, Holding
<1>3. ASSUME NEW w \in Workers, Released(w) = lock', pc' = [pc EXCEPT ![w] = pc'[w]],
             \A y \in Workers \ {w} : intent'[y] = intent[y]
      PROVE  Holds(x, v)'
  <2>1. lock[x] = v /\ v # w
    BY <1>3 DEF Released, TypeOK
  <2> QED BY <1>1, <1>3, <2>1 DEF TypeOK
<1>4. ASSUME NEW w \in Workers, Rollback(w)
      PROVE  Holds(x, v)'
  <2>1. Released(w) = lock' /\ pc' = [pc EXCEPT ![w] = pc'[w]]
        /\ \A y \in Workers \ {w} : intent'[y] = intent[y]
    BY <1>4 DEF Rollback, Goto, TypeOK
  <2> QED BY <1>3, <2>1
<1>5. ASSUME NEW w \in Workers, NEW r, Commit(w, r)
      PROVE  Holds(x, v)'
  <2>1. Released(w) = lock' /\ pc' = [pc EXCEPT ![w] = pc'[w]]
        /\ \A y \in Workers \ {w} : intent'[y] = intent[y]
    BY <1>5 DEF Commit, Goto, TypeOK
  <2> QED BY <1>3, <2>1
<1>6. ASSUME NEW w \in Workers,
             (\E i \in Intents : Start(w, i)) \/ Answer(w)
      PROVE  Holds(x, v)'
  <2>1. lock' = lock /\ pc[w] \in {"idle", "reply"}
        /\ \A y \in Workers \ {w} : pc'[y] = pc[y] /\ intent'[y] = intent[y]
    BY <1>6 DEF Start, Answer, Goto, TypeOK
  <2>2. v # w
    BY <2>1 DEF LockHolders, Holding
  <2> QED BY <1>1, <2>1, <2>2
<1>7. ASSUME NEW w \in Workers, EnsureAccount(w)
      PROVE  Holds(x, v)'
  <2>1. /\ pc' = [pc EXCEPT ![w] = "lock"] /\ intent' = intent /\ pc[w] = "ensure"
        /\ lock' = lock \/ lock' = [lock EXCEPT ![Mine(w)] = w]
    BY <1>7 DEF EnsureAccount, Goto
  <2>2. v = w => lock[x] # v
    BY <2>1 DEF LockHolders, Holding
  <2> QED BY <1>1, <2>1, <2>2 DEF TypeOK, Mine
<1>8. ASSUME NEW w \in Workers, LockAccount(w)
      PROVE  Holds(x, v)'
  <2>1. /\ pc' = [pc EXCEPT ![w] = "receipt"] /\ intent' = intent /\ pc[w] = "lock"
        /\ lock' = [lock EXCEPT ![Mine(w)] = w]
    BY <1>8 DEF LockAccount, Goto
  <2>2. v = w => x = Mine(w)
    BY <2>1 DEF LockHolders, Holding, TypeOK
  <2>3. Mine(w) \in Owners
    BY <2>1, Running
  <2>4. CASE v = w
    BY <2>1, <2>2, <2>3, <2>4 DEF Holding, Mine, TypeOK
  <2> QED BY <1>1, <2>1, <2>4 DEF TypeOK
<1>9. ASSUME NEW w \in Workers,
             MissReceipt(w) \/ FindNameFree(w) \/ LockCurrentFile(w) \/ LockUpload(w)
      PROVE  Holds(x, v)'
  <2>1. /\ pc[w] \in Holding /\ pc'[w] \in Holding /\ intent' = intent
        /\ \A y \in Workers \ {w} : pc'[y] = pc[y]
        /\ UNCHANGED <<files, uploads>>
    BY <1>9 DEF MissReceipt, FindNameFree, LockCurrentFile, LockUpload, SelectFile, SelectUpload,
                Goto, Holding, TypeOK, tables
  <2>2. CASE lock[x] = v
    BY <1>1, <1>2, <2>1, <2>2
  <2>3. CASE lock[x] # v
    <3>1. CASE MissReceipt(w) \/ FindNameFree(w)
      BY <2>3, <3>1 DEF MissReceipt, FindNameFree
    <3>2. CASE LockCurrentFile(w)
      <4>1. x = intent[w].file /\ v = w /\ FileFound(w)
        BY <2>3, <3>2 DEF LockCurrentFile, TypeOK
      <4> QED BY <2>1, <4>1 DEF FileFound, Mine, TypeOK
    <3>3. CASE LockUpload(w)
      <4>1. x = intent[w].upload /\ v = w /\ UploadFound(w)
        BY <2>3, <3>3 DEF LockUpload, UploadUsable, TypeOK
      <4> QED BY <2>1, <4>1 DEF UploadFound, Mine, TypeOK
    <3> QED BY <1>9, <3>1, <3>2, <3>3
  <2> QED BY <2>2, <2>3
<1>10. ASSUME Crash
       PROVE  FALSE
  BY <1>10 DEF Crash
<1>11. ASSUME Outside \/ UNCHANGED vars
       PROVE  Holds(x, v)'
  <2>1. lock' = lock /\ pc' = pc /\ intent' = intent
    BY <1>11 DEF Outside, UploadOpened, UploadFinalized, ObjectLost, vars, requests
  <2> QED BY <1>1, <2>1
<1>12. ASSUME NEW w \in Workers, Statement(w) \/ Fail(w)
       PROVE  \/ \E r : Commit(w, r)
              \/ Rollback(w) \/ Answer(w)
              \/ MissReceipt(w) \/ FindNameFree(w) \/ LockCurrentFile(w) \/ LockUpload(w)
  BY <1>12 DEF Statement, ReplayReceipt, RecordNameConflict, RecordStaleBase, RecordRejection,
       CommitCreate, CommitUpdate, CommitDelete, Publish, RefuseReusedKey, RefuseFile, RefuseUpload,
       Fail
<1> QED BY <1>4, <1>5, <1>6, <1>7, <1>8, <1>9, <1>10, <1>11, <1>12 DEF Next, Queued

-----------------------------------------------------------------------------
(* Theorems *)

LEMMA InvInit == Init => IInv
<1> SUFFICES ASSUME Init
             PROVE  IInv
  OBVIOUS
<1> USE ConstantsAssumption DEF Init
<1>1. TypeOK
  BY DEF TypeOK, NothingSeen, Seen, PCs
<1>2. Locals /\ CurrentExists /\ LockHolders
  BY DEF Locals, CurrentExists, LockHolders
<1>3. CommittedPrefix
  BY DEF CommittedPrefix, Log
<1>4. AnswersAreDurable /\ ReadsStayTrue
  BY DEF AnswersAreDurable, ReadsStayTrue, ReadsHold
<1> QED BY <1>1, <1>2, <1>3, <1>4 DEF IInv

LEMMA InvStep == IInv /\ [Next]_vars => IInv'
BY TypeStep, LocalsStep, CurrentStep, HoldersStep, PrefixStep, AnswersStep, ReadsStep DEF IInv

\* The invariant holds for any number of requests, accounts, files and uploads.
THEOREM Invariance == Spec => []IInv
<1>1. Init => IInv
  BY InvInit
<1>2. IInv /\ [Next]_vars => IInv'
  BY InvStep
<1> QED BY <1>1, <1>2, PTL DEF Spec


\* Every variable keeps its type.
THEOREM TypeCorrect == Spec => []TypeOK
BY Invariance, PTL DEF IInv

\* Visible account revision r means that mutations 1..r are committed, each once.
THEOREM PrefixCorrect == Spec => []CommittedPrefix
BY Invariance, PTL DEF IInv

\* Callers are told durable results only, and a key has one result for ever.
THEOREM AnswersCorrect == Spec => []AnswersAreDurable
BY Invariance, PTL DEF IInv

\* What a transaction has read is still true when it writes.
THEOREM ReadsCorrect == Spec => []ReadsStayTrue
BY Invariance, PTL DEF IInv

\* Whoever holds a row lock does not wait: only a request that has no lock yet
\* waits, for the account row.
LEMMA HoldersDoNotWait ==
  ASSUME IInv, NEW w \in Workers, NEW v \in Workers, WaitsFor(w, v)
  PROVE  \A u \in Workers : ~WaitsFor(v, u)
<1> USE ConstantsAssumption DEF IInv
<1>1. ASSUME NEW x \in Workers, NEW y \in Workers, WaitsFor(x, y)
      PROVE  pc[x] \in {"ensure", "lock"} /\ y # x /\ lock[Mine(x)] = y /\ Mine(x) \in Owners
  <2>1. pc[x] # "idle" /\ Mine(x) \in Owners /\ x # y
    BY <1>1, Running DEF WaitsFor
  <2>2. ASSUME pc[x] = "target" \/ pc[x] = "upload",
               NEW row \in Rows, lock[row] = y,
               \/ row \in FileIds /\ files[row].owner = Mine(x)
               \/ row \in UploadIds /\ uploads[row].owner = Mine(x)
        PROVE  FALSE
    <3>1. pc[x] \in Holding
      BY <2>2 DEF Holding
    <3>2. pc[y] \in Holding /\ Mine(y) = Mine(x)
      <4>1. Mine(y) \in Owners \/ pc[y] = "idle"
        BY Running
      <4> QED BY <2>2, <4>1 DEF LockHolders, Holding
    <3> QED BY <2>1, <3>1, <3>2, OneHolder
  <2>3. ~(pc[x] = "target" /\ FileFound(x) /\ lock[intent[x].file] = y)
    BY <2>2 DEF FileFound, TypeOK, Rows
  <2>4. ~(pc[x] = "upload" /\ UploadFound(x) /\ lock[intent[x].upload] = y)
    BY <2>2 DEF UploadFound, TypeOK, Rows
  <2> QED BY <1>1, <2>1, <2>3, <2>4 DEF WaitsFor
<1>2. pc[w] \in {"ensure", "lock"} /\ v # w /\ lock[Mine(w)] = v /\ Mine(w) \in Owners
  BY <1>1
<1> SUFFICES ASSUME NEW u \in Workers, WaitsFor(v, u)
             PROVE  FALSE
  OBVIOUS
<1>3. pc[v] \in {"ensure", "lock"} /\ u # v /\ lock[Mine(v)] = u
  BY <1>1
<1>4. pc[v] = "lock" /\ Mine(w) = Mine(v)
  BY <1>2, <1>3 DEF LockHolders, Holding, Rows
<1> QED BY <1>2, <1>3, <1>4

\* No set of requests in which each waits for another one of the set.
THEOREM NoDeadlock == Spec => []NoWaitCycle
<1>1. IInv => NoWaitCycle
  <2> SUFFICES ASSUME IInv, NEW S \in SUBSET Workers, S # {}
               PROVE  \E w \in S : \A v \in S : ~WaitsFor(w, v)
    BY DEF NoWaitCycle
  <2>1. PICK w \in S : TRUE
    OBVIOUS
  <2>2. CASE \A v \in S : ~WaitsFor(w, v)
    BY <2>2
  <2>3. CASE \E v \in S : WaitsFor(w, v)
    BY <2>3, HoldersDoNotWait
  <2> QED BY <2>2, <2>3
<1> QED BY <1>1, Invariance, PTL

\* Two active files of an account never have one normalized name.
LEMMA NamesStep ==
  ASSUME IInv, ActiveNamesUnique, [Next]_vars
  PROVE  ActiveNamesUnique'
<1> USE DEF IInv
<1>1. CASE Quiet
  BY <1>1 DEF Quiet, ActiveNamesUnique
<1>2. ASSUME NEW w \in Workers, ReplayReceipt(w) \/ RecordNameConflict(w) \/ RecordStaleBase(w)
      PROVE  ActiveNamesUnique'
  BY <1>2, RejectionQuiet DEF ActiveNamesUnique
<1>3. ASSUME NEW w \in Workers, CommitCreate(w)
      PROVE  ActiveNamesUnique'
  <2>1. ~NameTaken(w)
    BY <1>3 DEF CommitCreate, ReadsStayTrue, ReadsHold
  <2>2. PICK f \in FileIds \ DOMAIN files :
          /\ DOMAIN files' = DOMAIN files \cup {f}
          /\ \A g \in DOMAIN files : files'[g] = files[g]
          /\ files'[f].owner = Mine(w) /\ files'[f].name = intent[w].name
    BY <1>3, CreateEffect DEF RowIs
  <2> QED BY <2>1, <2>2 DEF ActiveNamesUnique, NameTaken
<1>4. ASSUME NEW w \in Workers, CommitUpdate(w) \/ CommitDelete(w)
      PROVE  ActiveNamesUnique'
  <2> DEFINE f == intent[w].file
  <2>1. /\ f \in DOMAIN files /\ files[f].state = "active" /\ files[f].owner = Mine(w)
        /\ DOMAIN files' = DOMAIN files
        /\ \A g \in DOMAIN files \ {f} : files'[g] = files[g]
        /\ files'[f].owner = files[f].owner /\ files'[f].name = files[f].name
    BY <1>4, ChangedFile, TargetFile
  <2> QED BY <2>1 DEF ActiveNamesUnique
<1> QED BY <1>1, <1>2, <1>3, <1>4, KindsOfStep

THEOREM NamesCorrect == Spec => []ActiveNamesUnique
<1>1. Init => ActiveNamesUnique
  BY DEF Init, ActiveNamesUnique
<1>2. IInv /\ ActiveNamesUnique /\ [Next]_vars => ActiveNamesUnique'
  BY NamesStep
<1> QED BY <1>1, <1>2, Invariance, PTL DEF Spec


-----------------------------------------------------------------------------
(* History *)

\* What a step may do to uploads that another version has consumed.
LEMMA ConsumedKept ==
  ASSUME IInv, [Next]_vars
  PROVE  \A u \in DOMAIN uploads :
           /\ u \in DOMAIN uploads'
           /\ uploads[u].state = "consumed" => uploads'[u] = uploads[u]
<1> DEFINE Kept == \A u \in DOMAIN uploads :
                     /\ u \in DOMAIN uploads'
                     /\ uploads[u].state = "consumed" => uploads'[u] = uploads[u]
<1>1. ASSUME UNCHANGED uploads
      PROVE  Kept
  BY <1>1
<1>2. ASSUME Outside
      PROVE  Kept
  BY <1>2 DEF Outside, UploadOpened, UploadFinalized, ObjectLost, Put, tables
<1>3. ASSUME NEW w \in Workers, ReplayReceipt(w) \/ RecordNameConflict(w) \/ RecordStaleBase(w)
      PROVE  Kept
  BY <1>1, <1>3, RejectionQuiet
<1>4. ASSUME NEW w \in Workers, CommitDelete(w)
      PROVE  Kept
  BY <1>1, <1>4 DEF CommitDelete
<1>5. ASSUME NEW w \in Workers, CommitCreate(w) \/ CommitUpdate(w)
      PROVE  Kept
  <2>1. PICK v : Consume(intent[w].upload, v)
    BY <1>5 DEF CommitCreate, CommitUpdate
  <2>2. uploads[intent[w].upload].state = "finalized"
    BY <1>5 DEF IInv, ReadsStayTrue, ReadsHold, CommitCreate, CommitUpdate
  <2> QED BY <2>1, <2>2 DEF Consume
<1> QED BY <1>1, <1>2, <1>3, <1>4, <1>5, KindsOfStep

\* What a step does to the files, and to the tables that only grow.
LEMMA HistoryStep ==
  ASSUME IInv, [Next]_vars
  PROVE  /\ \A f \in DOMAIN files :
              /\ f \in DOMAIN files'
              /\ files'[f].owner = files[f].owner /\ files'[f].name = files[f].name
              /\ files'[f].created = files[f].created
              /\ files[f].state = "tombstoned" => files'[f] = files[f]
         /\ \A v \in DOMAIN versions : v \in DOMAIN versions' /\ versions'[v] = versions[v]
         /\ changes \subseteq changes' /\ receipts \subseteq receipts'
<1> DEFINE Files == \A f \in DOMAIN files :
                      /\ f \in DOMAIN files'
                      /\ files'[f].owner = files[f].owner /\ files'[f].name = files[f].name
                      /\ files'[f].created = files[f].created
                      /\ files[f].state = "tombstoned" => files'[f] = files[f]
           Logs == /\ \A v \in DOMAIN versions : v \in DOMAIN versions' /\ versions'[v] = versions[v]
                   /\ changes \subseteq changes' /\ receipts \subseteq receipts'
<1> USE DEF IInv
<1>1. ASSUME Quiet
      PROVE  Files /\ Logs
  BY <1>1 DEF Quiet
<1>2. ASSUME NEW w \in Workers, ReplayReceipt(w) \/ RecordNameConflict(w) \/ RecordStaleBase(w)
      PROVE  Files /\ Logs
  <2>1. receipts \subseteq receipts'
    BY <1>2 DEF ReplayReceipt, RecordNameConflict, RecordStaleBase, RecordRejection
  <2> QED BY <1>2, <2>1, RejectionQuiet
<1>3. ASSUME NEW w \in Workers, NEW f, NEW v, NEW k, NEW name, Publish(w, f, v, k, name)
      PROVE  changes \subseteq changes' /\ receipts \subseteq receipts'
  BY <1>3, PublishEffect
<1>4. ASSUME NEW w \in Workers, CommitCreate(w)
      PROVE  Files /\ Logs
  <2>1. PICK f \in FileIds \ DOMAIN files, v \in VersionIds \ DOMAIN versions :
          /\ DOMAIN files' = DOMAIN files \cup {f}
          /\ \A g \in DOMAIN files : files'[g] = files[g]
          /\ DOMAIN versions' = DOMAIN versions \cup {v}
          /\ \A q \in DOMAIN versions : versions'[q] = versions[q]
          /\ Publish(w, f, v, "created", intent[w].name)
    BY <1>4, CreateEffect
  <2> QED BY <1>3, <2>1
<1>5. ASSUME NEW w \in Workers, CommitUpdate(w) \/ CommitDelete(w)
      PROVE  Files /\ Logs
  <2>1. /\ DOMAIN versions \subseteq DOMAIN versions'
        /\ \A q \in DOMAIN versions : versions'[q] = versions[q]
    BY <1>5 DEF CommitUpdate, CommitDelete, Put
  <2>2. \E f, v, k, name : Publish(w, f, v, k, name)
    BY <1>5 DEF CommitUpdate, CommitDelete
  <2>3. Logs
    BY <1>3, <2>1, <2>2
  <2>4. Files
    BY <1>5, ChangedFile, TargetFile
  <2> QED BY <2>3, <2>4
<1> QED BY <1>1, <1>2, <1>4, <1>5, KindsOfStep

\* Versions, changes, receipts, tombstones and consumed uploads are final, and
\* a file keeps its owner, its name and its first revision.
THEOREM HistoryCorrect == Spec => HistoryIsFinal
<1> DEFINE Final ==
      /\ \A v \in DOMAIN versions : v \in DOMAIN versions' /\ versions'[v] = versions[v]
      /\ changes \subseteq changes' /\ receipts \subseteq receipts'
      /\ \A f \in DOMAIN files :
           /\ f \in DOMAIN files'
           /\ files'[f].owner = files[f].owner /\ files'[f].name = files[f].name
           /\ files'[f].created = files[f].created
           /\ files[f].state = "tombstoned" => files'[f] = files[f]
      /\ \A u \in DOMAIN uploads :
           /\ u \in DOMAIN uploads'
           /\ uploads[u].state = "consumed" => uploads'[u] = uploads[u]
<1>1. IInv /\ [Next]_vars => [Final]_vars
  BY HistoryStep, ConsumedKept
<1> QED BY <1>1, Invariance, PTL DEF Spec, HistoryIsFinal
=============================================================================
