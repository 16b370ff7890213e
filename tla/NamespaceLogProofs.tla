-------------------------- MODULE NamespaceLogProofs --------------------------
(* Proofs that the tables of Namespace tell one story, and that the          *)
(* transactions implement DriveLog, for any number of requests and accounts. *)
EXTENDS NamespaceProofs

-----------------------------------------------------------------------------
(* The history invariant *)

\* A change lies within the life of its file and, unless it is a tombstone,
\* names a version of the file that the current one is not older than.
ChangeFits(c) ==
  /\ c.file \in DOMAIN files
  /\ c.owner = files[c.file].owner /\ c.name = files[c.file].name
  /\ files[c.file].created <= c.revision /\ c.revision <= files[c.file].updated
  /\ c.kind = "created" <=> c.revision = files[c.file].created
  /\ c.kind = "deleted" <=> c.version = None
  /\ c.kind = "deleted" =>
       files[c.file].state = "tombstoned" /\ c.revision = files[c.file].updated
  /\ c.kind # "deleted" =>
       /\ c.version \in DOMAIN versions
       /\ versions[c.version].file = c.file
       /\ versions[c.version].created = c.revision
       /\ c.revision <= versions[files[c.file].current].created
ChangesFit == \A c \in changes : ChangeFits(c)

\* The revisions in a file's row are those of changes of the file.
FilesFit ==
  \A f \in DOMAIN files :
    /\ versions[files[f].current].file = f
    /\ \E c \in changes : c.file = f /\ c.revision = files[f].created
    /\ \E c \in changes :
         /\ c.file = f /\ c.revision = files[f].updated
         /\ c.kind = "deleted" <=> files[f].state = "tombstoned"

\* Every version was announced, and no version builds on a current one.
VersionsFit ==
  \A v \in DOMAIN versions :
    /\ \E c \in changes : c.version = v
    /\ versions[v].predecessor # files[versions[v].file].current

\* A revision of an account belongs to one applied mutation.
AppliedOnce ==
  \A r, q \in Applied : r.intent.owner = q.intent.owner /\ r.revision = q.revision => r = q

\* The parts of MutationJoin that carry it from step to step.
ReceiptsExplained == \A r \in Applied : \E c \in changes : Explains(r, c)
ChangesExplained == \A c \in changes : \E r \in receipts : Explains(r, c)
UploadsFit ==
  /\ \A u \in DOMAIN uploads :
       IF uploads[u].state = "consumed"
         THEN uploads[u].consumedBy \in DOMAIN versions
         ELSE uploads[u].consumedBy = None
  /\ \A u, t \in DOMAIN uploads :
       uploads[u].state = "consumed" /\ uploads[t].consumedBy = uploads[u].consumedBy => u = t

\* The two halves of NoSilentOverwrite: versions of a file form a chain, and
\* an applied mutation was based on the version its caller named.
ChainsHold ==
  /\ \A v \in DOMAIN versions :
       LET p == versions[v].predecessor
       IN IF p = None
            THEN versions[v].number = 1
            ELSE /\ p \in DOMAIN versions
                 /\ versions[p].file = versions[v].file
                 /\ versions[v].number = versions[p].number + 1
                 /\ versions[p].created < versions[v].created
  /\ \A v, w \in DOMAIN versions :
       versions[v].file = versions[w].file /\ versions[v].predecessor = versions[w].predecessor => v = w
BasesNamed ==
  \A r \in Applied :
    /\ r.intent.kind = "update" => versions[r.version].predecessor = r.intent.base
    /\ r.intent.kind = "delete" => files[r.file].current = r.intent.base

HInv ==
  /\ ChangesFit
  /\ FilesFit
  /\ VersionsFit
  /\ AppliedOnce
  /\ ReceiptsExplained
  /\ ChangesExplained
  /\ UploadsFit
  /\ ChainsHold
  /\ BasesNamed

-----------------------------------------------------------------------------
(* Consequences of the invariant in one state *)

LEMMA ChangeType ==
  ASSUME IInv, NEW c \in changes
  PROVE  /\ c \in ChangeRow /\ c.owner \in Owners
         /\ c.revision \in 1 .. revision[c.owner] /\ revision[c.owner] \in Nat
<1>1. c \in ChangeRow /\ c.owner \in Owners /\ revision[c.owner] \in Nat
  BY DEF IInv, TypeOK, ChangeRow
<1>2. c.revision \in {d.revision : d \in Log(c.owner)}
  BY DEF Log
<1> QED BY <1>1, <1>2 DEF IInv, CommittedPrefix

\* In an account, a revision is one change.
LEMMA ChangeOnce ==
  ASSUME IInv, NEW c \in changes, NEW d \in changes, c.owner = d.owner, c.revision = d.revision
  PROVE  c = d
BY ChangeType DEF IInv, CommittedPrefix, Log

LEMMA RowTypes ==
  ASSUME IInv
  PROVE  /\ \A f \in DOMAIN files : /\ f \in FileIds /\ files[f] \in FileRow
                                    /\ files[f].created \in Nat /\ files[f].updated \in Nat
                                    /\ files[f].owner \in Owners
                                    /\ files[f].current \in DOMAIN versions
         /\ \A v \in DOMAIN versions : /\ v \in VersionIds /\ v # None
                                       /\ versions[v] \in VersionRow
                                       /\ versions[v].created \in Nat
BY ConstantsAssumption DEF IInv, TypeOK, CurrentExists, FileRow, VersionRow

\* The versions of a file are not newer than its account.
LEMMA VersionAge ==
  ASSUME IInv, HInv, NEW v \in DOMAIN versions
  PROVE  /\ versions[v].file \in DOMAIN files
         /\ \E c \in changes : /\ c.version = v /\ c.file = versions[v].file
                               /\ c.revision = versions[v].created /\ c.kind # "deleted"
                               /\ c.owner = files[versions[v].file].owner
         /\ versions[v].created \in 1 .. revision[files[versions[v].file].owner]
<1>1. PICK c \in changes : c.version = v
  BY DEF HInv, VersionsFit
<1>2. c.kind # "deleted" /\ c.file = versions[v].file /\ c.revision = versions[v].created
      /\ c.file \in DOMAIN files /\ c.owner = files[c.file].owner
  BY <1>1, RowTypes DEF HInv, ChangesFit, ChangeFits
<1> QED BY <1>1, <1>2, ChangeType

\* Receipts, changes, versions and consumed uploads of mutations join (R5).
LEMMA JoinHolds == IInv /\ HInv => MutationJoin
<1> SUFFICES ASSUME IInv, HInv
             PROVE  MutationJoin
  OBVIOUS
<1>1. ASSUME NEW c \in changes
      PROVE  \E r \in receipts : Explains(r, c) /\ \A q \in receipts : Explains(q, c) => q = r
  <2>1. PICK r \in receipts : Explains(r, c)
    BY <1>1 DEF HInv, ChangesExplained
  <2>2. \A q \in receipts : Explains(q, c) => q = r
    BY <2>1 DEF HInv, AppliedOnce, Applied, Explains
  <2> QED BY <2>1, <2>2
<1>2. \A v \in DOMAIN versions : \E c \in changes : c.version = v
  BY DEF HInv, VersionsFit
<1> QED BY <1>1, <1>2 DEF MutationJoin, HInv, ReceiptsExplained, UploadsFit

\* The files table is the account's changes, applied in order (R5, R7).
LEMMA LogHolds == IInv /\ HInv => NamespaceIsTheLog
<1> SUFFICES ASSUME IInv, HInv
             PROVE  NamespaceIsTheLog
  OBVIOUS
<1>1. ASSUME NEW f \in DOMAIN files
      PROVE  LET mine == {c \in changes : c.file = f}
             IN \E first, last, content \in mine :
                  /\ \A c \in mine : first.revision <= c.revision /\ c.revision <= last.revision
                  /\ \A c \in mine : c.kind # "deleted" => c.revision <= content.revision
                  /\ \A c \in mine : c.owner = files[f].owner /\ c.name = files[f].name
                  /\ \A c \in mine : c.kind = "created" <=> c = first
                  /\ \A c \in mine : c.kind = "deleted" => c = last
                  /\ content.kind # "deleted"
                  /\ files[f].created = first.revision
                  /\ files[f].updated = last.revision
                  /\ files[f].current = content.version
                  /\ files[f].state = "tombstoned" <=> last.kind = "deleted"
  <2> DEFINE mine == {c \in changes : c.file = f}
  <2>1. PICK first \in mine : first.revision = files[f].created
    BY <1>1 DEF HInv, FilesFit
  <2>2. PICK last \in mine : /\ last.revision = files[f].updated
                             /\ last.kind = "deleted" <=> files[f].state = "tombstoned"
    BY <1>1 DEF HInv, FilesFit
  <2>3. files[f].current \in DOMAIN versions /\ versions[files[f].current].file = f
    BY <1>1, RowTypes DEF HInv, FilesFit
  <2>4. PICK content \in mine : /\ content.version = files[f].current /\ content.kind # "deleted"
                                /\ content.revision = versions[files[f].current].created
    BY <2>3, VersionAge
  <2>5. \A c \in mine : /\ first.revision <= c.revision /\ c.revision <= last.revision
                        /\ c.kind # "deleted" => c.revision <= content.revision
                        /\ c.owner = files[f].owner /\ c.name = files[f].name
    BY <2>1, <2>2, <2>4 DEF HInv, ChangesFit, ChangeFits
  <2>6. \A c \in mine : c.kind = "created" <=> c = first
    BY <2>1, <2>5, ChangeOnce DEF HInv, ChangesFit, ChangeFits
  <2>7. \A c \in mine : c.kind = "deleted" => c = last
    BY <2>2, <2>5, ChangeOnce DEF HInv, ChangesFit, ChangeFits
  <2> QED BY <2>1, <2>2, <2>4, <2>5, <2>6, <2>7
<1>2. \A c \in changes : c.file \in DOMAIN files
  BY DEF HInv, ChangesFit, ChangeFits
<1> QED BY <1>1, <1>2 DEF NamespaceIsTheLog

LEMMA OverwriteHolds == HInv => NoSilentOverwrite
BY DEF HInv, ChainsHold, BasesNamed, NoSilentOverwrite

-----------------------------------------------------------------------------
(* Steps that apply no mutation *)

\* What a receipt and a change agree about, they agree about for ever.
LEMMA ExplainsKept ==
  ASSUME IInv, HInv, [Next]_vars, NEW r \in receipts, NEW c \in changes, Explains(r, c)
  PROVE  Explains(r, c)'
<1>1. CASE r.intent.kind = "delete"
  BY <1>1 DEF Explains
<1>2. CASE r.intent.kind # "delete"
  <2> DEFINE u == r.intent.upload
  <2>1. /\ c.version \in DOMAIN versions /\ u \in DOMAIN uploads
        /\ uploads[u].consumedBy = c.version
    BY <1>2 DEF Explains
  <2>2. uploads[u].state = "consumed"
    BY <2>1, RowTypes DEF HInv, UploadsFit
  <2>3. /\ u \in DOMAIN uploads' /\ uploads'[u] = uploads[u]
        /\ c.version \in DOMAIN versions' /\ versions'[c.version] = versions[c.version]
    BY <2>1, <2>2, ConsumedKept, HistoryStep
  <2> QED BY <2>3 DEF Explains
<1> QED BY <1>1, <1>2

LEMMA ReceiptKinds ==
  ASSUME IInv, HInv, NEW r \in Applied
  PROVE  \E c \in changes :
           /\ Explains(r, c) /\ c.file = r.file /\ c.version = r.version
           /\ c.owner = r.intent.owner /\ c.revision = r.revision
           /\ r.intent.kind \in {"create", "update", "delete"}
           /\ r.intent.kind = "create" <=> c.kind = "created"
           /\ r.intent.kind = "update" <=> c.kind = "updated"
           /\ r.intent.kind = "delete" <=> c.kind = "deleted"
<1>1. PICK c \in changes : Explains(r, c)
  BY DEF HInv, ReceiptsExplained
<1>2. r.intent.kind \in {"create", "update", "delete"}
  BY IntentType DEF IInv, TypeOK, Applied, Receipt
<1> QED BY <1>1, <1>2 DEF Explains, ChangeKind

\* The files, versions and changes are untouched, and no receipt is applied.
LEMMA UnappliedStep ==
  ASSUME IInv, HInv, [Next]_vars,
         UNCHANGED <<revision, files, versions, changes>>,
         Applied' = Applied, UploadsFit'
  PROVE  HInv'
<1>1. ChangesFit' /\ FilesFit' /\ VersionsFit' /\ ChainsHold'
  BY DEF HInv, ChangesFit, ChangeFits, FilesFit, VersionsFit, ChainsHold
<1>2. AppliedOnce'
  BY DEF HInv, AppliedOnce
<1>3. BasesNamed'
  BY DEF HInv, BasesNamed
<1>4. ReceiptsExplained'
  BY ExplainsKept DEF HInv, ReceiptsExplained, Applied
<1>5. ChangesExplained'
  BY ExplainsKept, HistoryStep DEF HInv, ChangesExplained
<1> QED BY <1>1, <1>2, <1>3, <1>4, <1>5 DEF HInv

LEMMA OutsideUploads ==
  ASSUME IInv, HInv, Outside
  PROVE  UploadsFit'
<1>1. versions' = versions
  BY DEF Outside, UploadOpened, UploadFinalized, ObjectLost, tables
<1>2. ASSUME NEW u \in UploadIds, NEW o \in Owners, NEW d \in Digests, UploadOpened(u, o, d)
      PROVE  UploadsFit'
  <2>1. /\ DOMAIN uploads' = DOMAIN uploads \cup {u} /\ u \notin DOMAIN uploads
        /\ \A t \in DOMAIN uploads : uploads'[t] = uploads[t]
        /\ uploads'[u].state = "uploading" /\ uploads'[u].consumedBy = None
    BY <1>2 DEF UploadOpened, Put
  <2> QED BY <1>1, <2>1, RowTypes DEF HInv, UploadsFit
<1>3. ASSUME NEW u \in UploadIds, UploadFinalized(u)
      PROVE  UploadsFit'
  <2>1. /\ u \in DOMAIN uploads /\ uploads[u].state = "uploading"
        /\ DOMAIN uploads' = DOMAIN uploads
        /\ \A t \in DOMAIN uploads \ {u} : uploads'[t] = uploads[t]
        /\ uploads'[u].state = "finalized" /\ uploads'[u].consumedBy = uploads[u].consumedBy
    BY <1>3 DEF UploadFinalized, IInv, TypeOK, UploadRow
  <2> QED BY <1>1, <2>1, RowTypes DEF HInv, UploadsFit
<1>4. ASSUME NEW d \in Drifting, ObjectLost(d)
      PROVE  UploadsFit'
  BY <1>1, <1>4 DEF ObjectLost, tables, HInv, UploadsFit
<1> QED BY <1>2, <1>3, <1>4 DEF Outside

\* Statements that write nothing, rejections, and steps outside the requests.
LEMMA UnappliedCases ==
  ASSUME IInv, HInv, [Next]_vars,
         \/ Quiet /\ (UNCHANGED uploads \/ Outside)
         \/ \E w \in Workers : ReplayReceipt(w) \/ RecordNameConflict(w) \/ RecordStaleBase(w)
  PROVE  HInv'
<1>1. CASE Quiet /\ UNCHANGED uploads
  BY <1>1, UnappliedStep DEF Quiet, Applied, HInv, UploadsFit
<1>2. CASE Quiet /\ Outside
  BY <1>2, UnappliedStep, OutsideUploads DEF Quiet, Applied
<1>3. ASSUME NEW w \in Workers, ReplayReceipt(w) \/ RecordNameConflict(w) \/ RecordStaleBase(w)
      PROVE  HInv'
  <2>1. UNCHANGED <<revision, files, versions, uploads, changes>>
    BY <1>3, RejectionQuiet
  <2>2. Applied' = Applied
    BY <1>3 DEF ReplayReceipt, RecordNameConflict, RecordStaleBase, RecordRejection, Applied
  <2>3. UploadsFit'
    BY <2>1 DEF HInv, UploadsFit
  <2> QED BY <2>1, <2>2, <2>3, UnappliedStep
<1> QED BY <1>1, <1>2, <1>3

-----------------------------------------------------------------------------
(* Steps that apply a mutation *)

\* The next revision is newer than everything of the account.
LEMMA WriterIsNewest ==
  ASSUME IInv, HInv, NEW w \in Workers,
         CommitCreate(w) \/ CommitUpdate(w) \/ CommitDelete(w)
  PROVE  /\ pc[w] = "write" /\ intent[w] \in Intents /\ Mine(w) \in Owners
         /\ NextRevision(w) = revision[Mine(w)] + 1 /\ NextRevision(w) \in Nat
         /\ \A c \in changes : c.owner = Mine(w) => c.revision < NextRevision(w)
         /\ \A r \in Applied : r.intent.owner = Mine(w) => r.revision < NextRevision(w)
         /\ \A f \in DOMAIN files : files[f].owner = Mine(w) => files[f].updated < NextRevision(w)
         /\ \A v \in DOMAIN versions :
              files[versions[v].file].owner = Mine(w) => versions[v].created < NextRevision(w)
<1>1. pc[w] = "write" /\ intent[w] \in Intents /\ Mine(w) \in Owners
  BY Running DEF IInv, CommitCreate, CommitUpdate, CommitDelete
<1>2. NextRevision(w) = revision[Mine(w)] + 1 /\ revision[Mine(w)] \in Nat
  BY <1>1 DEF IInv, TypeOK, ReadsStayTrue, ReadsHold, NextRevision
<1>3. \A c \in changes : c.owner = Mine(w) => c.revision < NextRevision(w)
  BY <1>1, <1>2, ChangeType
<1>4. \A r \in Applied : r.intent.owner = Mine(w) => r.revision < NextRevision(w)
  BY <1>3, ReceiptKinds
<1>5. \A f \in DOMAIN files : files[f].owner = Mine(w) => files[f].updated < NextRevision(w)
  BY <1>3 DEF HInv, FilesFit, ChangesFit, ChangeFits
<1>6. \A v \in DOMAIN versions :
        files[versions[v].file].owner = Mine(w) => versions[v].created < NextRevision(w)
  BY <1>2, VersionAge
<1> QED BY <1>1, <1>2, <1>3, <1>4, <1>5, <1>6

\* The upload that becomes a version.
LEMMA ConsumeEffect ==
  ASSUME IInv, HInv, NEW w \in Workers, CommitCreate(w) \/ CommitUpdate(w),
         NEW v \in VersionIds \ DOMAIN versions, Consume(intent[w].upload, v),
         DOMAIN versions' = DOMAIN versions \cup {v}
  PROVE  LET u == intent[w].upload
         IN /\ u \in DOMAIN uploads /\ uploads[u].consumedBy = None
            /\ u \in DOMAIN uploads' /\ uploads'[u].owner = Mine(w)
            /\ uploads'[u].consumedBy = v /\ uploads'[u].source = seen[w].source
            /\ UploadsFit'
<1> DEFINE u == intent[w].upload
<1>1. /\ u \in DOMAIN uploads /\ uploads[u].owner = Mine(w)
      /\ uploads[u].state = "finalized" /\ uploads[u].source = seen[w].source
  BY DEF IInv, ReadsStayTrue, ReadsHold, UploadFound, CommitCreate, CommitUpdate
<1>2. uploads[u].consumedBy = None
  BY <1>1 DEF HInv, UploadsFit
<1>3. /\ DOMAIN uploads' = DOMAIN uploads
      /\ \A t \in DOMAIN uploads \ {u} : uploads'[t] = uploads[t]
      /\ uploads'[u].state = "consumed" /\ uploads'[u].consumedBy = v
      /\ uploads'[u].owner = uploads[u].owner /\ uploads'[u].source = uploads[u].source
  BY <1>1, ZenonT(30) DEF Consume, IInv, TypeOK, UploadRow
<1>4. v # None
  BY ConstantsAssumption
<1>5. UploadsFit'
  BY <1>1, <1>2, <1>3, <1>4, RowTypes DEF HInv, UploadsFit
<1> QED BY <1>1, <1>2, <1>3, <1>5


\* Once the new receipt and the new change are known to agree, all do.
LEMMA PublishJoins ==
  ASSUME IInv, HInv, [Next]_vars, NEW w \in Workers,
         CommitCreate(w) \/ CommitUpdate(w) \/ CommitDelete(w),
         NEW r, receipts' = receipts \cup {r},
         NEW c, changes' = changes \cup {c},
         r.intent = intent[w], r.outcome = "applied", r.revision = NextRevision(w),
         Explains(r, c)'
  PROVE  AppliedOnce' /\ ReceiptsExplained' /\ ChangesExplained'
<1>1. Applied' = Applied \cup {r}
  BY DEF Applied
<1>2. AppliedOnce'
  BY <1>1, WriterIsNewest DEF HInv, AppliedOnce, Mine
<1>3. ReceiptsExplained'
  BY <1>1, ExplainsKept DEF HInv, ReceiptsExplained, Applied
<1>4. ChangesExplained'
  BY ExplainsKept DEF HInv, ChangesExplained
<1> QED BY <1>2, <1>3, <1>4

LEMMA CreateKeepsHistory ==
  ASSUME IInv, HInv, [Next]_vars, NEW w \in Workers, CommitCreate(w)
  PROVE  HInv'
<1> DEFINE n == NextRevision(w)
           o == Mine(w)
<1>1. PICK f \in FileIds \ DOMAIN files, v \in VersionIds \ DOMAIN versions :
        /\ DOMAIN files' = DOMAIN files \cup {f}
        /\ \A g \in DOMAIN files : files'[g] = files[g]
        /\ RowIs(files'[f], o, intent[w].name, "active", v, n, n)
        /\ DOMAIN versions' = DOMAIN versions \cup {v}
        /\ \A q \in DOMAIN versions : versions'[q] = versions[q]
        /\ versions'[v] = [file |-> f, number |-> 1, predecessor |-> None,
                           blob |-> seen[w].source, created |-> n]
        /\ Consume(intent[w].upload, v)
        /\ Publish(w, f, v, "created", intent[w].name)
  BY CreateEffect DEF IInv
<1>2. PICK c : c = ChangeOf(w, f, v, "created", intent[w].name)
  OBVIOUS
<1>3. PICK r : r = ReceiptOf(w, f, v)
  OBVIOUS
<1>4. changes' = changes \cup {c} /\ receipts' = receipts \cup {r}
  BY <1>1, <1>2, <1>3, PublishEffect
<1>5. /\ c.owner = o /\ c.revision = n /\ c.file = f /\ c.kind = "created"
      /\ c.version = v /\ c.name = intent[w].name
  BY <1>2 DEF ChangeOf
<1>6. /\ r.intent = intent[w] /\ r.outcome = "applied" /\ r.file = f
      /\ r.version = v /\ r.revision = n
  BY <1>3 DEF ReceiptOf
<1>7. v # None /\ intent[w].kind = "create"
  BY ConstantsAssumption DEF CommitCreate
<1>8. /\ UploadsFit'
      /\ intent[w].upload \in DOMAIN uploads'
      /\ uploads'[intent[w].upload].owner = o
      /\ uploads'[intent[w].upload].consumedBy = v
      /\ uploads'[intent[w].upload].source = seen[w].source
  BY <1>1, ConsumeEffect
<1>9. Explains(r, c)'
  BY <1>1, <1>5, <1>6, <1>7, <1>8 DEF Explains, ChangeKind, Mine
<1>10. AppliedOnce' /\ ReceiptsExplained' /\ ChangesExplained'
  BY <1>4, <1>6, <1>9, PublishJoins
<1>11. \A d \in changes : d.file # f
  BY DEF HInv, ChangesFit, ChangeFits
<1>12. \A q \in DOMAIN versions : versions[q].file # f /\ versions[q].file \in DOMAIN files
  BY VersionAge
<1>13. n \in Nat
  BY WriterIsNewest
<1>14. ChangesFit'
  <2>1. ASSUME NEW d \in changes
        PROVE  ChangeFits(d)'
    <3>1. ChangeFits(d) /\ d.file \in DOMAIN files /\ files[d.file].current \in DOMAIN versions
      BY <2>1, RowTypes DEF HInv, ChangesFit, ChangeFits
    <3> QED BY <1>1, <3>1 DEF ChangeFits
  <2>2. ChangeFits(c)'
    BY <1>1, <1>5, <1>7, <1>13 DEF RowIs, ChangeFits
  <2> QED BY <1>4, <2>1, <2>2 DEF ChangesFit
<1>15. FilesFit'
  <2>1. \A g \in DOMAIN files : files[g].current \in DOMAIN versions
    BY RowTypes
  <2>2. /\ files'[f].state = "active"
        /\ files'[f].current = v /\ files'[f].created = n /\ files'[f].updated = n
    BY <1>1 DEF RowIs
  <2> QED BY <1>1, <1>4, <1>5, <2>1, <2>2 DEF HInv, FilesFit
<1>16. VersionsFit'
  <2>1. \A q \in DOMAIN versions : versions[q].predecessor # v
    BY <1>1, <1>7 DEF HInv, ChainsHold
  <2> QED BY <1>1, <1>4, <1>5, <1>7, <1>12, <2>1 DEF HInv, VersionsFit, RowIs
<1>17. ChainsHold'
  BY <1>1, <1>7, <1>12 DEF HInv, ChainsHold
<1>18. BasesNamed'
  <2>1. Applied' = Applied \cup {r}
    BY <1>4, <1>6 DEF Applied
  <2>2. ASSUME NEW q \in Applied
        PROVE  /\ q.intent.kind = "update" => q.version \in DOMAIN versions
               /\ q.file \in DOMAIN files
    BY <2>2, ReceiptKinds DEF HInv, ChangesFit, ChangeFits
  <2> QED BY <1>1, <1>6, <1>7, <2>1, <2>2 DEF HInv, BasesNamed
<1> QED BY <1>8, <1>10, <1>14, <1>15, <1>16, <1>17, <1>18 DEF HInv

LEMMA UpdateKeepsHistory ==
  ASSUME IInv, HInv, [Next]_vars, NEW w \in Workers, CommitUpdate(w)
  PROVE  HInv'
<1> DEFINE n == NextRevision(w)
           o == Mine(w)
           f == intent[w].file
           base == intent[w].base
<1>1. /\ f \in DOMAIN files /\ files[f] \in FileRow /\ files[f].owner = o
      /\ files[f].state = "active" /\ files[f].current = base /\ base \in DOMAIN versions
  BY TargetFile DEF IInv
<1>2. PICK v \in VersionIds \ DOMAIN versions :
        /\ DOMAIN files' = DOMAIN files
        /\ \A g \in DOMAIN files \ {f} : files'[g] = files[g]
        /\ RowIs(files'[f], o, files[f].name, "active", v, files[f].created, n)
        /\ DOMAIN versions' = DOMAIN versions \cup {v}
        /\ \A q \in DOMAIN versions : versions'[q] = versions[q]
        /\ versions'[v] = [file |-> f, number |-> versions[base].number + 1,
                           predecessor |-> base, blob |-> seen[w].source, created |-> n]
        /\ Consume(intent[w].upload, v)
        /\ Publish(w, f, v, "updated", files[f].name)
  BY UpdateEffect DEF IInv
<1>3. PICK c : c = ChangeOf(w, f, v, "updated", files[f].name)
  OBVIOUS
<1>4. PICK r : r = ReceiptOf(w, f, v)
  OBVIOUS
<1>5. changes' = changes \cup {c} /\ receipts' = receipts \cup {r}
  BY <1>2, <1>3, <1>4, PublishEffect
<1>6. /\ c.owner = o /\ c.revision = n /\ c.file = f /\ c.kind = "updated"
      /\ c.version = v /\ c.name = files[f].name
  BY <1>3 DEF ChangeOf
<1>7. /\ r.intent = intent[w] /\ r.outcome = "applied" /\ r.file = f
      /\ r.version = v /\ r.revision = n
  BY <1>4 DEF ReceiptOf
<1>8. v # None /\ base # None /\ intent[w].kind = "update"
  BY <1>1, RowTypes, ConstantsAssumption DEF CommitUpdate
<1>9. /\ UploadsFit'
      /\ intent[w].upload \in DOMAIN uploads'
      /\ uploads'[intent[w].upload].owner = o
      /\ uploads'[intent[w].upload].consumedBy = v
      /\ uploads'[intent[w].upload].source = seen[w].source
  BY <1>2, ConsumeEffect
<1>10. Explains(r, c)'
  BY <1>2, <1>6, <1>7, <1>8, <1>9 DEF Explains, ChangeKind, Mine
<1>11. AppliedOnce' /\ ReceiptsExplained' /\ ChangesExplained'
  BY <1>5, <1>7, <1>10, PublishJoins
<1>12. /\ n \in Nat /\ files[f].created \in Nat /\ files[f].created < n /\ files[f].updated < n
       /\ versions[base].created < n /\ versions[base].file = f
       /\ \A q \in DOMAIN versions : versions[q].file = f => versions[q].created < n
  <2>1. /\ n \in Nat /\ files[f].updated < n
        /\ \A q \in DOMAIN versions : versions[q].file = f => versions[q].created < n
    BY <1>1, WriterIsNewest
  <2>2. versions[base].file = f
    BY <1>1 DEF HInv, FilesFit
  <2>3. files[f].created \in Nat /\ files[f].updated \in Nat /\ files[f].created <= files[f].updated
    BY <1>1, RowTypes DEF HInv, FilesFit, ChangesFit, ChangeFits
  <2> QED BY <1>1, <2>1, <2>2, <2>3
<1>13. /\ files'[f].owner = o /\ files'[f].name = files[f].name /\ files'[f].state = "active"
       /\ files'[f].current = v /\ files'[f].created = files[f].created /\ files'[f].updated = n
       /\ versions'[v].created = n /\ versions'[v].file = f /\ versions'[v].predecessor = base
       /\ versions'[v].number = versions[base].number + 1
  BY <1>2 DEF RowIs
<1>14. ChangesFit'
  <2>1. ASSUME NEW d \in changes, d.file # f
        PROVE  ChangeFits(d)'
    <3>1. ChangeFits(d) /\ d.file \in DOMAIN files /\ files[d.file].current \in DOMAIN versions
      BY <2>1, RowTypes DEF HInv, ChangesFit, ChangeFits
    <3> QED BY <1>2, <2>1, <3>1 DEF ChangeFits
  <2>2. ASSUME NEW d \in changes, d.file = f
        PROVE  ChangeFits(d)'
    <3>1. ChangeFits(d) /\ d.owner = o /\ d.kind # "deleted" /\ d.revision \in Nat
      BY <1>1, <2>2, ChangeType DEF HInv, ChangesFit, ChangeFits
    <3>2. d.revision < n
      BY <2>2, <3>1, WriterIsNewest
    <3> QED BY <1>1, <1>2, <1>12, <1>13, <2>2, <3>1, <3>2 DEF ChangeFits
  <2>3. ChangeFits(c)'
    BY <1>1, <1>2, <1>6, <1>8, <1>12, <1>13 DEF ChangeFits
  <2> QED BY <1>5, <2>1, <2>2, <2>3 DEF ChangesFit
<1>15. FilesFit'
  <2>1. \A g \in DOMAIN files : files[g].current \in DOMAIN versions
    BY RowTypes
  <2> QED BY <1>1, <1>2, <1>5, <1>6, <1>13, <2>1 DEF HInv, FilesFit
<1>16. VersionsFit'
  <2>1. \A q \in DOMAIN versions : versions[q].predecessor # v /\ versions[q].file \in DOMAIN files
    BY <1>2, <1>8, VersionAge DEF HInv, ChainsHold
  <2>2. base # v
    BY <1>1, <1>2
  <2> QED BY <1>2, <1>5, <1>6, <1>13, <2>1, <2>2 DEF HInv, VersionsFit
<1>17. ChainsHold'
  <2>1. \A q \in DOMAIN versions : versions[q].file = f => versions[q].predecessor # base
    BY <1>1 DEF HInv, VersionsFit
  <2> QED BY <1>1, <1>2, <1>8, <1>12, <1>13, <2>1 DEF HInv, ChainsHold
<1>18. BasesNamed'
  <2>1. Applied' = Applied \cup {r}
    BY <1>5, <1>7 DEF Applied
  <2>2. ASSUME NEW q \in Applied
        PROVE  /\ q.intent.kind = "update" => q.version \in DOMAIN versions
               /\ q.intent.kind = "delete" => q.file \in DOMAIN files /\ q.file # f
    BY <1>1, <2>2, ReceiptKinds DEF HInv, ChangesFit, ChangeFits
  <2> QED BY <1>2, <1>7, <1>8, <1>13, <2>1, <2>2 DEF HInv, BasesNamed
<1> QED BY <1>9, <1>11, <1>14, <1>15, <1>16, <1>17, <1>18 DEF HInv

LEMMA DeleteKeepsHistory ==
  ASSUME IInv, HInv, [Next]_vars, NEW w \in Workers, CommitDelete(w)
  PROVE  HInv'
<1> DEFINE n == NextRevision(w)
           o == Mine(w)
           f == intent[w].file
<1>1. /\ f \in DOMAIN files /\ files[f] \in FileRow /\ files[f].owner = o
      /\ files[f].state = "active" /\ files[f].current = intent[w].base
  BY TargetFile DEF IInv
<1>2. /\ DOMAIN files' = DOMAIN files
      /\ \A g \in DOMAIN files \ {f} : files'[g] = files[g]
      /\ RowIs(files'[f], o, files[f].name, "tombstoned", files[f].current, files[f].created, n)
      /\ versions' = versions /\ uploads' = uploads
      /\ Publish(w, f, None, "deleted", files[f].name)
  BY DeleteEffect DEF IInv
<1>3. PICK c : c = ChangeOf(w, f, None, "deleted", files[f].name)
  OBVIOUS
<1>4. PICK r : r = ReceiptOf(w, f, None)
  OBVIOUS
<1>5. changes' = changes \cup {c} /\ receipts' = receipts \cup {r}
  BY <1>2, <1>3, <1>4, PublishEffect
<1>6. /\ c.owner = o /\ c.revision = n /\ c.file = f /\ c.kind = "deleted"
      /\ c.version = None /\ c.name = files[f].name
  BY <1>3 DEF ChangeOf
<1>7. /\ r.intent = intent[w] /\ r.outcome = "applied" /\ r.file = f
      /\ r.version = None /\ r.revision = n
  BY <1>4 DEF ReceiptOf
<1>8. intent[w].kind = "delete"
  BY DEF CommitDelete
<1>9. UploadsFit'
  BY <1>2 DEF HInv, UploadsFit
<1>10. Explains(r, c)'
  BY <1>6, <1>7, <1>8 DEF Explains, ChangeKind, Mine
<1>11. AppliedOnce' /\ ReceiptsExplained' /\ ChangesExplained'
  BY <1>5, <1>7, <1>10, PublishJoins
<1>12. /\ n \in Nat /\ files[f].created \in Nat /\ files[f].created < n
       /\ \A d \in changes : d.file = f => d.revision < n /\ d.revision \in Nat /\ d.kind # "deleted"
  <2>1. n \in Nat /\ files[f].updated < n
    BY <1>1, WriterIsNewest
  <2>2. files[f].created \in Nat /\ files[f].updated \in Nat /\ files[f].created <= files[f].updated
    BY <1>1, RowTypes DEF HInv, FilesFit, ChangesFit, ChangeFits
  <2>3. \A d \in changes : d.file = f => d.owner = o /\ d.kind # "deleted"
    BY <1>1 DEF HInv, ChangesFit, ChangeFits
  <2>4. \A d \in changes : d.file = f => d.revision < n /\ d.revision \in Nat
    BY <2>3, WriterIsNewest, ChangeType
  <2> QED BY <2>1, <2>2, <2>3, <2>4
<1>13. /\ files'[f].owner = o /\ files'[f].name = files[f].name /\ files'[f].state = "tombstoned"
       /\ files'[f].current = files[f].current /\ files'[f].created = files[f].created
       /\ files'[f].updated = n
  BY <1>2 DEF RowIs
<1>14. ChangesFit'
  <2>1. ASSUME NEW d \in changes
        PROVE  ChangeFits(d)'
    <3>1. ChangeFits(d) /\ d.file \in DOMAIN files
      BY DEF HInv, ChangesFit, ChangeFits
    <3>2. CASE d.file # f
      BY <1>2, <3>1, <3>2 DEF ChangeFits
    <3>3. CASE d.file = f
      BY <1>1, <1>2, <1>12, <1>13, <3>1, <3>3 DEF ChangeFits
    <3> QED BY <3>2, <3>3
  <2>2. ChangeFits(c)'
    BY <1>1, <1>2, <1>6, <1>12, <1>13 DEF ChangeFits
  <2> QED BY <1>5, <2>1, <2>2 DEF ChangesFit
<1>15. FilesFit'
  BY <1>1, <1>2, <1>5, <1>6, <1>13 DEF HInv, FilesFit
<1>16. VersionsFit'
  <2>1. \A q \in DOMAIN versions : versions[q].file \in DOMAIN files
    BY VersionAge
  <2>2. \A g \in DOMAIN files : files'[g].current = files[g].current
    BY <1>2, <1>13
  <2> QED BY <1>2, <1>5, <2>1, <2>2 DEF HInv, VersionsFit
<1>17. ChainsHold'
  BY <1>2 DEF HInv, ChainsHold
<1>18. BasesNamed'
  <2>1. Applied' = Applied \cup {r}
    BY <1>5, <1>7 DEF Applied
  <2>2. ASSUME NEW q \in Applied
        PROVE  q.intent.kind = "delete" => q.file \in DOMAIN files /\ q.file # f
    BY <1>1, <2>2, ReceiptKinds DEF HInv, ChangesFit, ChangeFits
  <2> QED BY <1>1, <1>2, <1>7, <1>8, <1>13, <2>1, <2>2 DEF HInv, BasesNamed
<1> QED BY <1>9, <1>11, <1>14, <1>15, <1>16, <1>17, <1>18 DEF HInv

-----------------------------------------------------------------------------
(* Theorems *)

LEMMA HistoryInit == Init => HInv
BY DEF Init, HInv, ChangesFit, FilesFit, VersionsFit, AppliedOnce, ReceiptsExplained,
       ChangesExplained, UploadsFit, ChainsHold, BasesNamed, Applied

LEMMA HistoryKept ==
  ASSUME IInv, HInv, [Next]_vars
  PROVE  HInv'
BY UnappliedCases, CreateKeepsHistory, UpdateKeepsHistory, DeleteKeepsHistory, KindsOfStep

\* The tables tell one story, whatever requests run and fail at the same time.
THEOREM HistoryInvariance == Spec => [](IInv /\ HInv)
<1>1. Init => IInv /\ HInv
  BY InvInit, HistoryInit
<1>2. IInv /\ HInv /\ [Next]_vars => IInv' /\ HInv'
  BY InvStep, HistoryKept
<1> QED BY <1>1, <1>2, PTL DEF Spec

\* Receipt, change, version and consumed upload of a mutation exist together.
THEOREM JoinCorrect == Spec => []MutationJoin
BY HistoryInvariance, JoinHolds, PTL

\* The files table is what the account's change feed announced, in order.
THEOREM LogCorrect == Spec => []NamespaceIsTheLog
BY HistoryInvariance, LogHolds, PTL

\* No applied update or delete overwrites a version its caller did not name.
THEOREM OverwriteCorrect == Spec => []NoSilentOverwrite
BY HistoryInvariance, OverwriteHolds, PTL

-----------------------------------------------------------------------------
(* The transactions implement DriveLog *)

LEMMA SameApplied == Drive!Applied = Applied
BY DEF Drive!Applied, Applied

\* What an account's files are according to the log of results.
LEMMA ActiveAgrees ==
  ASSUME IInv, HInv, NEW f \in DOMAIN files
  PROVE  Drive!Active(f) <=> files[f].state = "active"
<1>1. files[f].state \in {"active", "tombstoned"}
  BY RowTypes DEF FileRow
<1>2. ASSUME NEW r \in Drive!History(f), r.intent.kind = "delete"
      PROVE  files[f].state = "tombstoned"
  <2>1. r \in Applied /\ r.file = f
    BY SameApplied DEF Drive!History
  <2> QED BY <1>2, <2>1, ReceiptKinds DEF HInv, ChangesFit, ChangeFits
<1>3. ASSUME files[f].state = "tombstoned"
      PROVE  \E r \in Drive!History(f) : r.intent.kind = "delete"
  <2>1. PICK c \in changes : c.file = f /\ c.kind = "deleted"
    BY <1>3 DEF HInv, FilesFit
  <2>2. PICK r \in receipts : Explains(r, c)
    BY DEF HInv, ChangesExplained
  <2>3. r \in Applied /\ r.file = f
    BY <2>1, <2>2 DEF Applied, Explains
  <2>4. r.intent.kind = "delete"
    BY <2>1, <2>2, <2>3, ReceiptKinds, IntentType DEF Explains, ChangeKind, IInv, TypeOK, Receipt
  <2> QED BY <2>3, <2>4, SameApplied DEF Drive!History
<1> QED BY <1>1, <1>2, <1>3 DEF Drive!Active

LEMMA OwnedAgrees ==
  ASSUME IInv, HInv, NEW o, NEW f
  PROVE  Drive!Owned(o, f) <=> f \in DOMAIN files /\ files[f].owner = o
<1>1. ASSUME NEW r \in Drive!History(f)
      PROVE  f \in DOMAIN files /\ files[f].owner = r.intent.owner
  <2>1. r \in Applied /\ r.file = f
    BY SameApplied DEF Drive!History
  <2> QED BY <2>1, ReceiptKinds DEF HInv, ChangesFit, ChangeFits
<1>2. ASSUME f \in DOMAIN files
      PROVE  \E r \in Drive!History(f) : r.intent.owner = files[f].owner
  <2>1. PICK c \in changes : c.file = f
    BY <1>2 DEF HInv, FilesFit
  <2>2. PICK r \in receipts : Explains(r, c)
    BY DEF HInv, ChangesExplained
  <2>3. r \in Applied /\ r.file = f /\ r.intent.owner = c.owner
    BY <2>1, <2>2 DEF Applied, Explains
  <2> QED BY <2>1, <2>3, SameApplied DEF Drive!History, HInv, ChangesFit, ChangeFits
<1> QED BY <1>1, <1>2 DEF Drive!Owned

LEMMA NameAgrees ==
  ASSUME IInv, HInv, NEW o, NEW name
  PROVE  Drive!NameHeld(o, name) <=>
           \E f \in DOMAIN files : /\ files[f].owner = o /\ files[f].state = "active"
                                   /\ Folded[files[f].name] = Folded[name]
<1>1. ASSUME NEW r \in Applied, r.intent.kind = "create"
      PROVE  /\ r.file \in DOMAIN files /\ files[r.file].owner = r.intent.owner
             /\ files[r.file].name = r.intent.name
  BY <1>1, ReceiptKinds DEF HInv, ChangesFit, ChangeFits, Explains
<1>2. ASSUME NEW f \in DOMAIN files
      PROVE  \E r \in Applied : /\ r.intent.kind = "create" /\ r.file = f
                                /\ r.intent.owner = files[f].owner
  <2>1. PICK c \in changes : c.file = f /\ c.revision = files[f].created
    BY DEF HInv, FilesFit
  <2>2. c.kind = "created" /\ c.owner = files[f].owner
    BY <2>1 DEF HInv, ChangesFit, ChangeFits
  <2>3. PICK r \in receipts : Explains(r, c)
    BY DEF HInv, ChangesExplained
  <2>4. r \in Applied /\ r.file = f /\ r.intent.owner = c.owner
    BY <2>1, <2>3 DEF Applied, Explains
  <2>5. r.intent.kind = "create"
    BY <2>2, <2>3, <2>4, IntentType DEF Explains, ChangeKind, IInv, TypeOK, Receipt, Applied
  <2> QED BY <2>2, <2>4, <2>5
<1>3. ASSUME Drive!NameHeld(o, name)
      PROVE  \E f \in DOMAIN files : /\ files[f].owner = o /\ files[f].state = "active"
                                     /\ Folded[files[f].name] = Folded[name]
  <2>1. PICK r \in Applied : /\ r.intent.kind = "create" /\ r.intent.owner = o
                             /\ Folded[r.intent.name] = Folded[name]
                             /\ Drive!Active(r.file)
    BY <1>3, SameApplied DEF Drive!NameHeld
  <2> QED BY <1>1, <2>1, ActiveAgrees
<1>4. ASSUME NEW f \in DOMAIN files, files[f].owner = o, files[f].state = "active",
             Folded[files[f].name] = Folded[name]
      PROVE  Drive!NameHeld(o, name)
  <2>1. PICK r \in Applied : r.intent.kind = "create" /\ r.file = f /\ r.intent.owner = o
    BY <1>2, <1>4
  <2>2. r.intent.name = files[f].name
    BY <1>1, <2>1
  <2>3. Drive!Active(r.file)
    BY <1>4, <2>1, ActiveAgrees
  <2> QED BY <1>4, <2>1, <2>2, <2>3, SameApplied DEF Drive!NameHeld
<1> QED BY <1>3, <1>4

LEMMA CurrentAgrees ==
  ASSUME IInv, HInv, NEW f \in DOMAIN files, NEW v
  PROVE  Drive!IsCurrent(f, v) <=> files[f].current = v
<1> DEFINE cur == files[f].current
<1>1. cur \in DOMAIN versions /\ cur # None /\ versions[cur].file = f
  BY RowTypes DEF HInv, FilesFit
<1>2. PICK c \in changes : /\ c.version = cur /\ c.file = f /\ c.kind # "deleted"
                           /\ c.revision = versions[cur].created
  BY <1>1, VersionAge
<1>3. PICK r \in receipts : Explains(r, c)
  BY DEF HInv, ChangesExplained
<1>4. /\ r \in Applied /\ r.file = f /\ r.version = cur /\ r.revision = versions[cur].created
      /\ r.intent.owner = files[f].owner
  BY <1>2, <1>3 DEF Applied, Explains, HInv, ChangesFit, ChangeFits
<1>5. ASSUME NEW q \in Applied, q.file = f, q.version # None
      PROVE  /\ q.revision <= r.revision /\ q.revision \in Nat
             /\ q.intent.owner = files[f].owner
  <2>1. PICK d \in changes : /\ d.file = f /\ d.version = q.version
                             /\ d.owner = q.intent.owner /\ d.revision = q.revision
    BY <1>5, ReceiptKinds
  <2>2. d.kind # "deleted"
    BY <1>5, <2>1 DEF HInv, ChangesFit, ChangeFits
  <2> QED BY <1>4, <2>1, <2>2, ChangeType DEF HInv, ChangesFit, ChangeFits
<1>6. \A q \in Drive!History(f) : q \in Applied /\ q.file = f
  BY SameApplied DEF Drive!History
<1>7. r \in Drive!History(f)
  BY <1>4, SameApplied DEF Drive!History
<1>8. Drive!IsCurrent(f, cur)
  BY <1>1, <1>4, <1>5, <1>6, <1>7 DEF Drive!IsCurrent
<1>9. ASSUME Drive!IsCurrent(f, v)
      PROVE  v = cur
  <2>1. PICK q \in Drive!History(f) :
          /\ q.version = v /\ v # None
          /\ \A x \in Drive!History(f) : x.version # None => x.revision <= q.revision
    BY <1>9 DEF Drive!IsCurrent
  <2>2. r.revision <= q.revision
    BY <1>1, <1>4, <1>7, <2>1
  <2>3. q \in Applied /\ q.revision <= r.revision /\ q.revision \in Nat
        /\ q.intent.owner = r.intent.owner
    BY <1>4, <1>5, <1>6, <2>1
  <2>4. r.revision \in Nat
    BY <1>1, <1>4, <1>5
  <2>5. q = r
    BY <1>4, <2>2, <2>3, <2>4 DEF HInv, AppliedOnce
  <2> QED BY <1>4, <2>1, <2>5
<1> QED BY <1>8, <1>9

\* What a request must find for its result to be the next one of the log.
LEMMA RevisionAgrees ==
  ASSUME IInv, HInv, NEW w \in Workers,
         CommitCreate(w) \/ CommitUpdate(w) \/ CommitDelete(w)
  PROVE  NextRevision(w) \in Drive!NextRevisions(Mine(w))
<1> DEFINE o == Mine(w)
           n == NextRevision(w)
<1>1. /\ o \in Owners /\ n = revision[o] + 1 /\ n \in Nat /\ revision[o] \in Nat
  BY WriterIsNewest DEF IInv, TypeOK
<1>2. \A r \in Applied : r.intent.owner = o => r.revision \in 1 .. revision[o]
  BY ReceiptKinds, ChangeType
<1>3. ASSUME NEW k \in 1 .. revision[o]
      PROVE  \E r \in Applied : r.intent.owner = o /\ r.revision = k
  <2>1. PICK c \in changes : c.owner = o /\ c.revision = k
    BY <1>1, <1>3 DEF IInv, CommittedPrefix, Log
  <2>2. PICK r \in receipts : Explains(r, c)
    BY DEF HInv, ChangesExplained
  <2> QED BY <2>1, <2>2 DEF Applied, Explains
<1>4. Drive!Revisions(o) = 1 .. revision[o]
  BY <1>2, <1>3, SameApplied DEF Drive!Revisions
<1>5. n \in {1} \cup {r.revision + 1 : r \in Applied}
  BY <1>1, <1>3
<1>6. n - 1 = revision[o]
  BY <1>1
<1> QED BY <1>4, <1>5, <1>6, SameApplied DEF Drive!NextRevisions

LEMMA UnboundAgrees ==
  ASSUME NEW w \in Workers, Bound(w) = {}
  PROVE  Drive!Unbound(intent[w])
BY DEF Bound, Mine, Drive!Unbound

LEMMA FreshVersion ==
  ASSUME IInv, HInv, NEW v \in VersionIds \ DOMAIN versions
  PROVE  ~Drive!Used(v)
<1>1. v # None
  BY ConstantsAssumption
<1> QED BY <1>1, ReceiptKinds, SameApplied DEF Drive!Used, HInv, ChangesFit, ChangeFits

LEMMA UnspentUpload ==
  ASSUME IInv, HInv, NEW w \in Workers, CommitCreate(w) \/ CommitUpdate(w)
  PROVE  ~Drive!Spent(intent[w].upload)
<1> DEFINE u == intent[w].upload
<1>1. u \in DOMAIN uploads /\ uploads[u].consumedBy = None
  BY DEF IInv, HInv, UploadsFit, ReadsStayTrue, ReadsHold, UploadFound, CommitCreate, CommitUpdate
<1>2. ASSUME NEW r \in Applied, r.intent.kind # "delete", r.intent.upload = u
      PROVE  FALSE
  <2>1. PICK c \in changes : Explains(r, c)
    BY <1>2, ReceiptKinds
  <2>2. c.version \in DOMAIN versions /\ uploads[u].consumedBy = c.version
    BY <1>2, <2>1 DEF Explains
  <2> QED BY <1>1, <2>2, RowTypes
<1> QED BY <1>2, SameApplied DEF Drive!Spent

\* An applied mutation is one step of the log.
LEMMA AppliedImplements ==
  ASSUME IInv, HInv, NEW w \in Workers,
         CommitCreate(w) \/ CommitUpdate(w) \/ CommitDelete(w)
  PROVE  Drive!Next
<1> DEFINE i == intent[w]
           n == NextRevision(w)
<1>1. /\ i \in Intents /\ pc[w] = "write" /\ Mine(w) = i.owner
      /\ n \in Drive!NextRevisions(i.owner)
  BY WriterIsNewest, RevisionAgrees DEF Mine
<1>2. Drive!Unbound(i)
  BY <1>1, UnboundAgrees DEF IInv, ReadsStayTrue, ReadsHold
<1>3. ASSUME NEW f, NEW v, NEW k, NEW name, Publish(w, f, v, k, name)
      PROVE  Drive!Decide(Drive!Result(i, "applied", f, v, None, n))
  <2>1. Commit(w, ReceiptOf(w, f, v)) /\ receipts' = receipts \cup {ReceiptOf(w, f, v)}
    BY <1>3, PublishEffect
  <2> QED BY <2>1 DEF Drive!Decide, Drive!Result, ReceiptOf, Commit
<1>4. CASE CommitCreate(w)
  <2>1. PICK f \in FileIds \ DOMAIN files, v \in VersionIds \ DOMAIN versions :
          Publish(w, f, v, "created", i.name)
    BY <1>4, CreateEffect DEF IInv
  <2>2. i.kind = "create" /\ ~Drive!NameHeld(i.owner, i.name)
    BY <1>1, <1>4, NameAgrees DEF CommitCreate, IInv, ReadsStayTrue, ReadsHold, NameTaken
  <2>3. Drive!History(f) = {}
    BY <2>1, ReceiptKinds, SameApplied DEF Drive!History, HInv, ChangesFit, ChangeFits
  <2>4. Drive!Create(i)
    BY <1>1, <1>2, <1>3, <1>4, <2>1, <2>2, <2>3, FreshVersion, UnspentUpload DEF Drive!Create
  <2> QED BY <1>1, <2>4 DEF Drive!Next
<1>5. ASSUME CommitUpdate(w) \/ CommitDelete(w)
      PROVE  Drive!Owned(i.owner, i.file) /\ Drive!Active(i.file) /\ Drive!IsCurrent(i.file, i.base)
  <2>1. /\ i.file \in DOMAIN files /\ files[i.file].owner = i.owner
        /\ files[i.file].state = "active" /\ files[i.file].current = i.base
    BY <1>1, <1>5, TargetFile DEF IInv
  <2> QED BY <2>1, OwnedAgrees, ActiveAgrees, CurrentAgrees
<1>6. CASE CommitUpdate(w)
  <2>1. PICK v \in VersionIds \ DOMAIN versions :
          Publish(w, i.file, v, "updated", files[i.file].name)
    BY <1>6, UpdateEffect DEF IInv
  <2>2. Drive!Update(i)
    BY <1>1, <1>2, <1>3, <1>5, <1>6, <2>1, FreshVersion, UnspentUpload
    DEF Drive!Update, CommitUpdate
  <2> QED BY <1>1, <2>2 DEF Drive!Next
<1>7. CASE CommitDelete(w)
  <2>1. Publish(w, i.file, None, "deleted", files[i.file].name)
    BY <1>7, DeleteEffect DEF IInv
  <2>2. Drive!Delete(i)
    BY <1>1, <1>2, <1>3, <1>5, <1>7, <2>1 DEF Drive!Delete, CommitDelete
  <2> QED BY <1>1, <2>2 DEF Drive!Next
<1> QED BY <1>4, <1>6, <1>7

\* A recorded rejection is one step of the log too.
LEMMA RejectionImplements ==
  ASSUME IInv, HInv, NEW w \in Workers, RecordNameConflict(w) \/ RecordStaleBase(w)
  PROVE  Drive!Next
<1> DEFINE i == intent[w]
<1>1. /\ i \in Intents /\ pc[w] = "target" /\ Mine(w) = i.owner
  BY Running DEF IInv, RecordNameConflict, RecordStaleBase, SelectFile, Mine
<1>2. Drive!Unbound(i)
  BY <1>1, UnboundAgrees DEF IInv, ReadsStayTrue, ReadsHold
<1>3. CASE RecordNameConflict(w)
  <2>1. Drive!NameHeld(i.owner, i.name)
    BY <1>1, <1>3, NameAgrees DEF RecordNameConflict, NameTaken
  <2>2. Drive!Decide(Drive!Result(i, "namespace_conflict", None, None, None, 0))
    BY <1>3 DEF RecordNameConflict, RecordRejection, Commit, Drive!Decide, Drive!Result
  <2>3. Drive!Conflict(i)
    BY <1>2, <1>3, <2>1, <2>2 DEF Drive!Conflict, RecordNameConflict
  <2> QED BY <1>1, <2>3 DEF Drive!Next
<1>4. CASE RecordStaleBase(w)
  <2> DEFINE f == i.file
             cur == files[f].current
  <2>1. /\ i.kind \in {"update", "delete"}
        /\ f \in DOMAIN files /\ files[f].owner = i.owner
        /\ files[f].state = "active" /\ cur # i.base
    BY <1>1, <1>4 DEF RecordStaleBase, SelectFile, FileFound
  <2>2. /\ Drive!Owned(i.owner, f) /\ Drive!Active(f)
        /\ ~Drive!IsCurrent(f, i.base) /\ Drive!IsCurrent(f, cur)
    BY <2>1, OwnedAgrees, ActiveAgrees, CurrentAgrees
  <2>3. cur \in VersionIds
    BY <2>1, RowTypes
  <2>4. Drive!Decide(Drive!Result(i, "precondition_failed", f, None, cur, 0))
    BY <1>4 DEF RecordStaleBase, RecordRejection, Commit, Drive!Decide, Drive!Result
  <2>5. Drive!Stale(i)
    BY <1>2, <2>1, <2>2, <2>3, <2>4 DEF Drive!Stale
  <2> QED BY <1>1, <2>5 DEF Drive!Next
<1> QED BY <1>3, <1>4

\* Every other step tells a caller a result, or nothing the log can see.
LEMMA StepImplements ==
  ASSUME IInv, HInv, [Next]_vars
  PROVE  [Drive!Next]_<<receipts, replies>>
<1>1. ASSUME NEW w \in Workers, Answer(w)
      PROVE  [Drive!Next]_<<receipts, replies>>
  <2>1. reply[w] \in receipts /\ replies' = replies \cup {reply[w]} /\ UNCHANGED receipts
    BY <1>1 DEF Answer, IInv, AnswersAreDurable, tables
  <2> QED BY <2>1 DEF Drive!Next, Drive!Tell
<1>2. ASSUME NEW w \in Workers,
             \/ \E i \in Intents : Start(w, i)
             \/ EnsureAccount(w) \/ LockAccount(w) \/ MissReceipt(w)
             \/ FindNameFree(w) \/ LockCurrentFile(w) \/ LockUpload(w)
      PROVE  UNCHANGED <<receipts, replies>>
  BY <1>2 DEF Start, EnsureAccount, LockAccount, MissReceipt, FindNameFree,
         LockCurrentFile, LockUpload, tables
<1>3. ASSUME NEW w \in Workers, RefuseReusedKey(w) \/ RefuseFile(w) \/ RefuseUpload(w) \/ Fail(w)
      PROVE  UNCHANGED <<receipts, replies>>
  BY <1>3 DEF RefuseReusedKey, RefuseFile, RefuseUpload, Fail, Rollback, tables
<1>4. ASSUME NEW w \in Workers, ReplayReceipt(w)
      PROVE  UNCHANGED <<receipts, replies>>
  BY <1>4 DEF ReplayReceipt, Commit
<1>5. ASSUME Crash \/ Outside \/ UNCHANGED vars
      PROVE  UNCHANGED <<receipts, replies>>
  BY <1>5 DEF Crash, Outside, UploadOpened, UploadFinalized, ObjectLost, vars, tables
<1> QED BY <1>1, <1>2, <1>3, <1>4, <1>5, AppliedImplements, RejectionImplements
        DEF Next, Queued, Statement

\* Tables, locks and transactions together behave as atomic steps on a log of
\* results, whatever requests run, fail and are retried at the same time.
THEOREM Implementation == Spec => ImplementsDriveLog
<1>1. Init => Drive!Init
  BY DEF Init, Drive!Init
<1>2. IInv /\ HInv /\ [Next]_vars => [Drive!Next]_<<receipts, replies>>
  BY StepImplements
<1> QED BY <1>1, <1>2, HistoryInvariance, PTL DEF Spec, Drive!Spec, ImplementsDriveLog
=============================================================================
