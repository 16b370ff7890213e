----------------------------- MODULE UploadsProofs -----------------------------
(* Proofs about Uploads, for any number of requests, accounts and uploads and  *)
(* contents of any length.                                                     *)
EXTENDS Uploads, SequenceTheorems, TLAPS

-----------------------------------------------------------------------------
(* The inductive invariant *)

Opening == {"ensure", "select", "insert", "commit", "after"}

\* What a request is about, by the statement it has reached.
LocalsHold(w) ==
  pc[w] # "idle" =>
    /\ intent[w] \in Intents
    /\ pc[w] \in Opening => intent[w].kind = "open"
    /\ pc[w] = "put" => intent[w].kind = "chunk"
    /\ pc[w] \in {"lock", "check"} => intent[w].kind \in {"chunk", "finalize"}
    /\ pc[w] = "install" => intent[w].kind = "finalize"
    /\ pc[w] = "read" => intent[w].kind = "head"
    /\ pc[w] = "reply" => reply[w] \in Reply
Locals == \A w \in Workers : LocalsHold(w)

\* An answer tells what the committed session row says.
ReplyFits(w, r) ==
  r.status = "done" =>
    LET u == r.upload
    IN /\ u \in DOMAIN sessions
       /\ sessions[u].owner = Mine(w)
       /\ r.offset <= sessions[u].offset
       /\ r.sealed => Sealed(sessions[u])
       /\ intent[w].kind = "open" => /\ sessions[u].key = intent[w].key
                                     /\ sessions[u].digest = intent[w].data
                                     /\ sessions[u].size = intent[w].size
RepliesTrue == \A w \in Workers : pc[w] = "reply" => ReplyFits(w, reply[w])

\* A request has locked an upload of its own account.
OwnUploads == \A w \in Workers : pc[w] \in {"check", "install"} => UploadFound(w)

UInv ==
  /\ TypeOK
  /\ Locals
  /\ ReadsStayTrue
  /\ OwnUploads
  /\ RepliesTrue
  /\ ChunksTile
  /\ SealedAsDeclared
  /\ ToldIsDurable
  /\ OneUploadPerKey

-----------------------------------------------------------------------------
(* Types *)

LEMMA IntentType ==
  ASSUME NEW i \in Intents
  PROVE  /\ i.owner \in Owners /\ i.kind \in {"open", "chunk", "head", "finalize"}
         /\ i.data \in Content /\ i.start \in Nat /\ i.size \in Nat
         /\ i.kind = "open" => i.key \in Keys /\ i.size > 0
         /\ i.kind = "chunk" => i.key \in Keys /\ i.upload \in UploadIds /\ i.data # <<>>
         /\ i.kind \in {"head", "finalize"} => i.upload \in UploadIds
<1>1. i \in OpenIntent \/ i \in ChunkIntent \/ i \in OtherIntent
  BY UploadsAssumption
<1>2. ASSUME i \in OpenIntent
      PROVE  i.owner \in Owners /\ i.kind = "open" /\ i.data \in Content /\ i.start = 0
             /\ i.size \in Nat /\ i.size > 0 /\ i.key \in Keys
  BY <1>2 DEF OpenIntent
<1>3. ASSUME i \in ChunkIntent
      PROVE  i.owner \in Owners /\ i.kind = "chunk" /\ i.data \in Content /\ i.data # <<>>
             /\ i.start \in Nat /\ i.size = 0 /\ i.key \in Keys /\ i.upload \in UploadIds
  BY <1>3 DEF ChunkIntent
<1>4. ASSUME i \in OtherIntent
      PROVE  i.owner \in Owners /\ i.kind \in {"head", "finalize"} /\ i.data \in Content
             /\ i.start = 0 /\ i.size = 0 /\ i.upload \in UploadIds
  BY <1>4, EmptySeq DEF OtherIntent, Content
<1> QED BY <1>1, <1>2, <1>3, <1>4

\* What is known of the request that executes a statement.
LEMMA Running ==
  ASSUME Locals, NEW w \in Workers, pc[w] # "idle"
  PROVE  /\ LocalsHold(w) /\ intent[w] \in Intents /\ Mine(w) \in Owners
         /\ intent[w].data \in Content /\ intent[w].start \in Nat /\ intent[w].size \in Nat
         /\ pc[w] \in Opening => Slot(w) \in Owners \X Keys /\ intent[w].key \in Keys
         /\ pc[w] \in {"put", "lock", "check", "install", "read"} => intent[w].upload \in UploadIds
         /\ intent[w].kind = "chunk" => intent[w].key \in Keys /\ intent[w].data # <<>>
         /\ intent[w].kind = "open" => intent[w].key \in Keys
BY IntentType DEF Locals, LocalsHold, Mine, Slot, Opening

LEMMA SessionType ==
  ASSUME TypeOK, NEW u \in DOMAIN sessions
  PROVE  /\ u \in UploadIds /\ sessions[u] \in SessionRow
         /\ sessions[u].owner \in Owners /\ sessions[u].key \in Keys
         /\ sessions[u].size \in Nat /\ sessions[u].offset \in Nat
         /\ sessions[u].digest \in Content /\ sessions[u].state \in States
BY DEF TypeOK, SessionRow

LEMMA ChunkLength ==
  ASSUME NEW d \in Content
  PROVE  Len(d) \in Nat /\ (d # <<>> => Len(d) > 0)
BY EmptySeq, LenProperties DEF Content

\* The parts of TypeOK about the requests, and about everything else.
RequestsOK ==
  /\ lock \in [Owners \cup UploadIds -> Workers \cup {Nobody}]
  /\ claim \in [Owners \X Keys -> Workers \cup {Nobody}]
  /\ pc \in [Workers -> PCs]
  /\ intent \in [Workers -> Intents \cup {None}]
  /\ seen \in [Workers -> SessionRow \cup {None}]
  /\ reply \in [Workers -> Reply \cup {None}]
DataOK ==
  /\ registered \in SUBSET Owners
  /\ DOMAIN sessions \subseteq UploadIds /\ sessions \in [DOMAIN sessions -> SessionRow]
  /\ \A c \in chunks : c \in ChunkRow
  /\ \A d \in stored : d \in Content
  /\ heard \in [UploadIds -> [offset: Nat, sealed: BOOLEAN]]
  /\ named \in SUBSET (Owners \X Keys \X UploadIds)

LEMMA TypeParts ==
  /\ TypeOK <=> RequestsOK /\ DataOK
  /\ TypeOK' <=> RequestsOK' /\ DataOK'
BY DEF TypeOK, RequestsOK, DataOK

\* A rolled back or committed request gives back its rows and keys.
LEMMA FreedType ==
  ASSUME TypeOK, NEW w \in Workers
  PROVE  /\ FreedBy(w, lock) \in [Owners \cup UploadIds -> Workers \cup {Nobody}]
         /\ FreedBy(w, claim) \in [Owners \X Keys -> Workers \cup {Nobody}]
         /\ \A x \in Owners \cup UploadIds :
              FreedBy(w, lock)[x] = IF lock[x] = w THEN Nobody ELSE lock[x]
         /\ \A s \in Owners \X Keys :
              FreedBy(w, claim)[s] = IF claim[s] = w THEN Nobody ELSE claim[s]
BY DEF TypeOK, FreedBy

LEMMA FinishType ==
  ASSUME TypeOK, NEW w \in Workers, NEW r \in Reply, Finish(w, r)
  PROVE  RequestsOK' /\ UNCHANGED told
BY FreedType, TypeParts DEF RequestsOK, Finish, Goto, PCs

LEMMA IdleType ==
  ASSUME TypeOK, NEW w \in Workers, Idle(w),
         lock' \in {lock, FreedBy(w, lock)}, claim' \in {claim, FreedBy(w, claim)}
  PROVE  RequestsOK'
<1>1. /\ lock' \in [Owners \cup UploadIds -> Workers \cup {Nobody}]
      /\ claim' \in [Owners \X Keys -> Workers \cup {Nobody}]
  BY FreedType DEF TypeOK
<1> QED BY <1>1 DEF RequestsOK, TypeOK, Idle, Goto, PCs

-----------------------------------------------------------------------------
(* Answers that change no table *)

LEMMA RefuseReply ==
  ASSUME NEW w \in Workers, NEW status \in Statuses, status # "done", Refuse(w, status)
  PROVE  \E r \in Reply : Tell(w, r) /\ ReplyFits(w, r)
<1> DEFINE r == [status |-> status, upload |-> None, offset |-> 0, sealed |-> FALSE]
<1>1. r \in Reply
  BY DEF Reply
<1>2. ReplyFits(w, r)
  BY DEF ReplyFits
<1>3. Tell(w, r)
  BY DEF Refuse
<1> QED BY <1>1, <1>2, <1>3

Told(w) ==
  \/ ReplayOpen(w) \/ RefuseOpenKey(w) \/ RefuseUpload(w)
  \/ ReplayChunk(w) \/ RefuseChunkKey(w) \/ RefuseSealed(w) \/ RefuseOffset(w)
  \/ ReplayFinalize(w) \/ RefuseIncomplete(w) \/ RefuseSource(w) \/ ReadHead(w)

LEMMA ToldReply ==
  ASSUME UInv, NEW w \in Workers, Told(w)
  PROVE  /\ pc[w] # "idle"
         /\ \E r \in Reply : Tell(w, r) /\ ReplyFits(w, r)
<1>1. pc[w] # "idle" /\ pc[w] # "reply"
  BY DEF Told, ReplayOpen, RefuseOpenKey, RefuseUpload, ReplayChunk, RefuseChunkKey,
         RefuseSealed, RefuseOffset, ReplayFinalize, RefuseIncomplete, RefuseSource, ReadHead
<1>2. CASE \/ RefuseOpenKey(w) \/ RefuseUpload(w) \/ RefuseChunkKey(w) \/ RefuseSealed(w)
           \/ RefuseOffset(w) \/ RefuseIncomplete(w) \/ RefuseSource(w)
  <2>1. \E status \in Statuses : status # "done" /\ Refuse(w, status)
    BY <1>2 DEF RefuseOpenKey, RefuseUpload, RefuseChunkKey, RefuseSealed, RefuseOffset,
                RefuseIncomplete, RefuseSource, Statuses
  <2> QED BY <1>1, <2>1, RefuseReply
<1>3. ASSUME NEW u \in DOMAIN sessions, NEW row, row = sessions[u], Tell(w, Public(u, row)),
             sessions[u].owner = Mine(w),
             intent[w].kind = "open" => /\ sessions[u].key = intent[w].key
                                        /\ sessions[u].digest = intent[w].data
                                        /\ sessions[u].size = intent[w].size
      PROVE  \E r \in Reply : Tell(w, r) /\ ReplyFits(w, r)
  <2>1. u \in UploadIds /\ row.offset \in Nat
    BY <1>3, SessionType DEF UInv
  <2>2. Public(u, row) \in Reply
    BY <2>1 DEF Public, Result, Reply, Statuses, Sealed
  <2>3. ReplyFits(w, Public(u, row))
    BY <1>3, <2>1 DEF ReplyFits, Public, Result
  <2> QED BY <1>3, <2>2, <2>3
<1>4. CASE ReplayOpen(w)
  <2>1. PICK u \in Named(Slot(w)) : SameRequest(w, sessions[u]) /\ Tell(w, Public(u, sessions[u]))
    BY <1>4 DEF ReplayOpen
  <2>2. u \in DOMAIN sessions /\ sessions[u].owner = Mine(w) /\ sessions[u].key = intent[w].key
    BY <2>1 DEF Named, Slot, Mine
  <2> QED BY <1>1, <1>3, <2>1, <2>2 DEF SameRequest
<1>5. CASE ReplayFinalize(w)
  <2> DEFINE u == intent[w].upload
  <2>1. /\ u \in DOMAIN sessions /\ sessions[u].owner = Mine(w) /\ seen[w] = sessions[u]
        /\ Tell(w, Public(u, seen[w])) /\ intent[w].kind # "open"
    BY <1>5 DEF ReplayFinalize, UInv, OwnUploads, UploadFound, ReadsStayTrue, ReadsHold
  <2> QED BY <1>1, <1>3, <2>1
<1>6. CASE ReadHead(w)
  <2>1. intent[w].kind # "open"
    BY <1>6, Running DEF ReadHead, UInv, LocalsHold
  <2> QED BY <1>1, <1>3, <1>6, <2>1 DEF ReadHead, UploadFound
<1>7. CASE ReplayChunk(w)
  <2> DEFINE u == intent[w].upload
  <2>1. PICK c \in BoundChunks(w) : Tell(w, Result(c.upload, c.start + Len(c.data), FALSE))
    BY <1>7 DEF ReplayChunk
  <2>2. c \in chunks /\ c.upload = u /\ c \in ChunkRow
    BY <2>1 DEF BoundChunks, ChunksOf, UInv, TypeOK
  <2>3. u \in DOMAIN sessions /\ sessions[u].owner = Mine(w) /\ intent[w].kind = "chunk"
    BY <1>7 DEF ReplayChunk, UInv, OwnUploads, UploadFound
  <2>4. c.start + Len(c.data) <= sessions[u].offset
    BY <2>2, <2>3 DEF UInv, ChunksTile, Tiles, ChunksOf
  <2>5. c.start + Len(c.data) \in Nat /\ c.upload \in UploadIds
    BY <2>2, ChunkLength DEF ChunkRow
  <2>6. Result(c.upload, c.start + Len(c.data), FALSE) \in Reply
    BY <2>5 DEF Result, Reply, Statuses
  <2>7. ReplyFits(w, Result(c.upload, c.start + Len(c.data), FALSE))
    BY <2>2, <2>3, <2>4 DEF ReplyFits, Result
  <2> QED BY <1>1, <2>1, <2>6, <2>7
<1> QED BY <1>1, <1>2, <1>4, <1>5, <1>6, <1>7 DEF Told

-----------------------------------------------------------------------------
(* What the steps do to the tables *)

LEMMA KindsOfStep ==
  ASSUME [Next]_vars
  PROVE  \/ UNCHANGED <<sessions, chunks>>
         \/ \E w \in Workers : CommitOpen(w) \/ CommitChunk(w) \/ CommitFinalize(w)
         \/ \E u \in UploadIds : Consumed(u)
<1> USE DEF tables, Tell, Refuse
<1>1. CASE UNCHANGED vars \/ Crash \/ (\E o \in Owners : AccountRegistered(o))
           \/ (\E d \in Drifting : ObjectLost(d))
  BY <1>1 DEF vars, Crash, AccountRegistered, ObjectLost
<1>2. ASSUME NEW w \in Workers, \/ \E i \in Intents : Start(w, i)
                                \/ Queued(w) \/ Fail(w) \/ Answer(w) \/ AnswerError(w)
                                \/ MissSession(w) \/ StoreChunk(w) \/ StoreSource(w)
      PROVE  UNCHANGED <<sessions, chunks>>
  BY <1>2 DEF Start, Queued, EnsureAccount, ClaimKey, LoseRace, LockUpload, Fail, Answer,
              AnswerError, MissSession, StoreChunk, StoreSource
<1>3. ASSUME NEW w \in Workers, Told(w)
      PROVE  UNCHANGED <<sessions, chunks>>
  BY <1>3 DEF Told, ReplayOpen, RefuseOpenKey, RefuseUpload, ReplayChunk, RefuseChunkKey,
         RefuseSealed, RefuseOffset, ReplayFinalize, RefuseIncomplete, RefuseSource, ReadHead
<1> QED BY <1>1, <1>2, <1>3 DEF Next, Statement, Told

\* A committed open adds one session, under a key that had none.
LEMMA OpenEffect ==
  ASSUME UInv, NEW w \in Workers, CommitOpen(w)
  PROVE  \E u \in UploadIds \ DOMAIN sessions :
           /\ DOMAIN sessions' = DOMAIN sessions \cup {u}
           /\ \A x \in DOMAIN sessions : sessions'[x] = sessions[x]
           /\ sessions'[u] = [owner |-> Mine(w), key |-> intent[w].key, size |-> intent[w].size,
                              digest |-> intent[w].data, offset |-> 0, state |-> "uploading"]
           /\ sessions'[u] \in SessionRow
           /\ sessions' \in [DOMAIN sessions' -> SessionRow]
           /\ Finish(w, Result(u, 0, FALSE))
           /\ <<Mine(w), intent[w].key>> = Slot(w) /\ Named(Slot(w)) = {} /\ claim[Slot(w)] = w
           /\ chunks' = chunks /\ stored' = stored
<1>1. PICK u \in UploadIds \ DOMAIN sessions :
        LET row == [owner |-> Mine(w), key |-> intent[w].key, size |-> intent[w].size,
                    digest |-> intent[w].data, offset |-> 0, state |-> "uploading"]
        IN sessions' = Put(sessions, u, row) /\ Finish(w, Public(u, row))
  BY DEF CommitOpen
<1> DEFINE row == [owner |-> Mine(w), key |-> intent[w].key, size |-> intent[w].size,
                   digest |-> intent[w].data, offset |-> 0, state |-> "uploading"]
<1>2. pc[w] = "commit" /\ chunks' = chunks /\ stored' = stored
  BY DEF CommitOpen
<1>3. /\ Mine(w) \in Owners /\ intent[w].key \in Keys /\ intent[w].size \in Nat
      /\ intent[w].data \in Content
  BY <1>2, Running DEF UInv, Opening
<1>4. row \in SessionRow
  BY <1>3 DEF SessionRow, States
<1>5. Public(u, row) = Result(u, 0, FALSE)
  BY DEF Public, Sealed
<1>6. /\ DOMAIN sessions' = DOMAIN sessions \cup {u}
      /\ \A x \in DOMAIN sessions : sessions'[x] = sessions[x]
      /\ sessions'[u] = row
  BY <1>1 DEF Put
<1>7. sessions' = [x \in DOMAIN sessions \cup {u} |-> IF x = u THEN row ELSE sessions[x]]
  BY <1>1 DEF Put
<1>8. sessions' \in [DOMAIN sessions' -> SessionRow]
  BY <1>4, <1>6, <1>7 DEF UInv, TypeOK
<1>9. <<Mine(w), intent[w].key>> = Slot(w) /\ Named(Slot(w)) = {} /\ claim[Slot(w)] = w
  BY <1>2 DEF UInv, ReadsStayTrue, ReadsHold, Slot, Mine
<1> QED BY <1>1, <1>2, <1>4, <1>5, <1>6, <1>8, <1>9

\* A session row in which only the offset, or only the state, has changed.
LEMMA RowUpdate ==
  ASSUME TypeOK, NEW u \in DOMAIN sessions, NEW n \in Nat, NEW state \in States,
         sessions' \in {[sessions EXCEPT ![u].offset = n], [sessions EXCEPT ![u].state = state]}
  PROVE  /\ DOMAIN sessions' = DOMAIN sessions
         /\ sessions' \in [DOMAIN sessions -> SessionRow]
         /\ \A x \in DOMAIN sessions : x # u => sessions'[x] = sessions[x]
         /\ sessions'[u].owner = sessions[u].owner /\ sessions'[u].key = sessions[u].key
         /\ sessions'[u].size = sessions[u].size /\ sessions'[u].digest = sessions[u].digest
         /\ sessions' = [sessions EXCEPT ![u].offset = n] =>
              sessions'[u].offset = n /\ sessions'[u].state = sessions[u].state
         /\ sessions' = [sessions EXCEPT ![u].state = state] =>
              sessions'[u].state = state /\ sessions'[u].offset = sessions[u].offset
BY DEF TypeOK, SessionRow

\* What changes in the row of a session that a step touches.
Keeps(u, fields) == \A f \in fields : sessions'[u][f] = sessions[u][f]

LEMMA ChunkEffect ==
  ASSUME UInv, NEW w \in Workers, CommitChunk(w)
  PROVE  LET u == intent[w].upload
             c == [upload |-> u, key |-> intent[w].key,
                   start |-> sessions[u].offset, data |-> intent[w].data]
         IN /\ u \in DOMAIN sessions /\ lock[u] = w /\ ~Sealed(sessions[u])
            /\ DOMAIN sessions' = DOMAIN sessions
            /\ sessions' \in [DOMAIN sessions -> SessionRow]
            /\ \A x \in DOMAIN sessions : x # u => sessions'[x] = sessions[x]
            /\ Keeps(u, {"owner", "key", "size", "digest", "state"})
            /\ sessions'[u].offset = sessions[u].offset + Len(c.data)
            /\ sessions'[u].offset <= sessions[u].size
            /\ intent[w].start = sessions[u].offset
            /\ c.data \in Content /\ Len(c.data) \in Nat /\ Len(c.data) > 0
            /\ c \in ChunkRow /\ chunks' = chunks \cup {c} /\ BoundChunks(w) = {}
            /\ Finish(w, Result(u, sessions'[u].offset, FALSE))
            /\ stored' = stored
<1> DEFINE u == intent[w].upload
           c == [upload |-> u, key |-> intent[w].key,
                 start |-> sessions[u].offset, data |-> intent[w].data]
<1>1. pc[w] = "check" /\ intent[w].kind = "chunk" /\ stored' = stored /\ BoundChunks(w) = {}
  BY DEF CommitChunk
<1>2. /\ u \in UploadIds /\ intent[w].data \in Content /\ intent[w].data # <<>>
      /\ intent[w].key \in Keys /\ intent[w].start \in Nat
  BY <1>1, Running DEF UInv
<1>3. Len(intent[w].data) \in Nat /\ Len(intent[w].data) > 0
  BY <1>2, ChunkLength
<1>4. u \in DOMAIN sessions /\ lock[u] = w /\ seen[w] = sessions[u]
  BY <1>1 DEF UInv, ReadsStayTrue, ReadsHold
<1>5. /\ ~Sealed(sessions[u]) /\ intent[w].start = sessions[u].offset
      /\ NextOffset(w) = sessions[u].offset + Len(intent[w].data)
      /\ NextOffset(w) <= sessions[u].size
  BY <1>4 DEF CommitChunk, Fits, NextOffset
<1>6. sessions' = [sessions EXCEPT ![u].offset = NextOffset(w)]
  BY DEF CommitChunk
<1>7. NextOffset(w) \in Nat
  BY <1>2, <1>3 DEF NextOffset
<1>8. /\ DOMAIN sessions' = DOMAIN sessions
      /\ sessions' \in [DOMAIN sessions -> SessionRow]
      /\ \A x \in DOMAIN sessions : x # u => sessions'[x] = sessions[x]
      /\ sessions'[u].owner = sessions[u].owner /\ sessions'[u].key = sessions[u].key
      /\ sessions'[u].size = sessions[u].size /\ sessions'[u].digest = sessions[u].digest
      /\ sessions'[u].offset = NextOffset(w) /\ sessions'[u].state = sessions[u].state
  <2>1. PICK n \in Nat : n = NextOffset(w)
    BY <1>7
  <2>2. sessions' = [sessions EXCEPT ![u].offset = n]
    BY <1>6, <2>1
  <2>3. TypeOK /\ "uploading" \in States
    BY DEF UInv, States
  <2>4. sessions' \in {[sessions EXCEPT ![u].offset = n], [sessions EXCEPT ![u].state = "uploading"]}
    BY <2>2
  <2> QED BY <1>4, <2>1, <2>2, <2>3, <2>4, RowUpdate
<1>9. c \in ChunkRow
  BY <1>2, <1>4, SessionType DEF ChunkRow, UInv
<1>10. chunks' = chunks \cup {c} /\ Finish(w, Result(u, NextOffset(w), FALSE))
  BY <1>5 DEF CommitChunk
<1> QED BY <1>1, <1>2, <1>3, <1>4, <1>5, <1>8, <1>9, <1>10 DEF Keeps

LEMMA FinalizeEffect ==
  ASSUME UInv, NEW w \in Workers, CommitFinalize(w)
  PROVE  LET u == intent[w].upload
         IN /\ u \in DOMAIN sessions /\ lock[u] = w /\ ~Sealed(sessions[u])
            /\ DOMAIN sessions' = DOMAIN sessions
            /\ sessions' \in [DOMAIN sessions -> SessionRow]
            /\ \A x \in DOMAIN sessions : x # u => sessions'[x] = sessions[x]
            /\ Keeps(u, {"owner", "key", "size", "digest", "offset"})
            /\ sessions'[u].state = "finalized"
            /\ sessions[u].offset = sessions[u].size
            /\ Assembled(u, sessions[u].size) = sessions[u].digest
            /\ sessions[u].digest \in stored \cup Drifting
            /\ Finish(w, Result(u, sessions[u].offset, TRUE))
            /\ chunks' = chunks /\ stored' = stored
<1> DEFINE u == intent[w].upload
<1>1. pc[w] = "install" /\ stored' = stored /\ chunks' = chunks
  BY DEF CommitFinalize
<1>2. /\ u \in DOMAIN sessions /\ lock[u] = w /\ seen[w] = sessions[u]
      /\ ~Sealed(seen[w]) /\ seen[w].offset = seen[w].size
      /\ Assembled(u, seen[w].size) = seen[w].digest
      /\ seen[w].digest \in stored \cup Drifting
  BY <1>1 DEF UInv, ReadsStayTrue, ReadsHold
<1>3. sessions' = [sessions EXCEPT ![u].state = "finalized"]
  BY DEF CommitFinalize
<1>4. /\ DOMAIN sessions' = DOMAIN sessions
      /\ sessions' \in [DOMAIN sessions -> SessionRow]
      /\ \A x \in DOMAIN sessions : x # u => sessions'[x] = sessions[x]
      /\ sessions'[u].owner = sessions[u].owner /\ sessions'[u].key = sessions[u].key
      /\ sessions'[u].size = sessions[u].size /\ sessions'[u].digest = sessions[u].digest
      /\ sessions'[u].state = "finalized" /\ sessions'[u].offset = sessions[u].offset
  BY <1>2, <1>3, RowUpdate DEF UInv, States
<1>5. Finish(w, Result(u, sessions[u].offset, TRUE))
  BY <1>2 DEF CommitFinalize
<1> QED BY <1>1, <1>2, <1>4, <1>5 DEF Keeps

LEMMA ConsumeEffect ==
  ASSUME UInv, NEW u \in UploadIds, Consumed(u)
  PROVE  /\ u \in DOMAIN sessions /\ lock[u] = Nobody /\ sessions[u].state = "finalized"
         /\ DOMAIN sessions' = DOMAIN sessions
         /\ sessions' \in [DOMAIN sessions -> SessionRow]
         /\ \A x \in DOMAIN sessions : x # u => sessions'[x] = sessions[x]
         /\ Keeps(u, {"owner", "key", "size", "digest", "offset"})
         /\ sessions'[u].state = "consumed"
         /\ chunks' = chunks /\ stored' = stored
<1>1. /\ u \in DOMAIN sessions /\ lock[u] = Nobody /\ sessions[u].state = "finalized"
      /\ sessions' = [sessions EXCEPT ![u].state = "consumed"]
      /\ chunks' = chunks /\ stored' = stored
  BY DEF Consumed
<1>2. /\ DOMAIN sessions' = DOMAIN sessions
      /\ sessions' \in [DOMAIN sessions -> SessionRow]
      /\ \A x \in DOMAIN sessions : x # u => sessions'[x] = sessions[x]
      /\ sessions'[u].owner = sessions[u].owner /\ sessions'[u].key = sessions[u].key
      /\ sessions'[u].size = sessions[u].size /\ sessions'[u].digest = sessions[u].digest
      /\ sessions'[u].state = "consumed" /\ sessions'[u].offset = sessions[u].offset
  BY <1>1, RowUpdate DEF UInv, States
<1> QED BY <1>1, <1>2 DEF Keeps

\* The step form of UploadsOnlyGrow: sessions keep their declaration, offsets and
\* states only advance, and no chunk is removed.
Grows(u) ==
  /\ u \in DOMAIN sessions'
  /\ sessions[u].offset <= sessions'[u].offset
  /\ Sealed(sessions[u]) => Sealed(sessions'[u]) /\ sessions'[u].offset = sessions[u].offset
  /\ sessions[u].state = "consumed" => sessions'[u].state = "consumed"
  /\ Keeps(u, {"owner", "key", "size", "digest"})

LEMMA SessionsGrow ==
  ASSUME UInv, [Next]_vars
  PROVE  chunks \subseteq chunks' /\ \A u \in DOMAIN sessions : Grows(u)
<1>1. ASSUME NEW u \in DOMAIN sessions, sessions'[u] = sessions[u], u \in DOMAIN sessions'
      PROVE  Grows(u)
  BY <1>1, SessionType DEF Grows, Keeps, Sealed, UInv
<1>2. CASE UNCHANGED <<sessions, chunks>>
  BY <1>1, <1>2
<1>3. ASSUME NEW w \in Workers, CommitOpen(w)
      PROVE  chunks \subseteq chunks' /\ \A u \in DOMAIN sessions : Grows(u)
  BY <1>1, <1>3, OpenEffect
<1>4. ASSUME NEW w \in Workers, CommitChunk(w)
      PROVE  chunks \subseteq chunks' /\ \A u \in DOMAIN sessions : Grows(u)
  <2> DEFINE u == intent[w].upload
  <2>1. /\ u \in DOMAIN sessions /\ ~Sealed(sessions[u])
        /\ DOMAIN sessions' = DOMAIN sessions /\ chunks \subseteq chunks'
        /\ \A x \in DOMAIN sessions : x # u => sessions'[x] = sessions[x]
        /\ Keeps(u, {"owner", "key", "size", "digest", "state"})
        /\ sessions'[u].offset = sessions[u].offset + Len(intent[w].data)
        /\ Len(intent[w].data) \in Nat
    BY <1>4, ChunkEffect
  <2>2. sessions[u].offset \in Nat
    BY <2>1, SessionType DEF UInv
  <2>3. Grows(u)
    BY <2>1, <2>2 DEF Grows, Keeps, Sealed
  <2> QED BY <1>1, <2>1, <2>3
<1>5. ASSUME NEW w \in Workers, CommitFinalize(w)
      PROVE  chunks \subseteq chunks' /\ \A u \in DOMAIN sessions : Grows(u)
  <2> DEFINE u == intent[w].upload
  <2>1. /\ u \in DOMAIN sessions /\ ~Sealed(sessions[u])
        /\ DOMAIN sessions' = DOMAIN sessions /\ chunks' = chunks
        /\ \A x \in DOMAIN sessions : x # u => sessions'[x] = sessions[x]
        /\ Keeps(u, {"owner", "key", "size", "digest", "offset"})
    BY <1>5, FinalizeEffect
  <2>2. sessions[u].offset \in Nat
    BY <2>1, SessionType DEF UInv
  <2>3. Grows(u)
    BY <2>1, <2>2 DEF Grows, Keeps, Sealed
  <2> QED BY <1>1, <2>1, <2>3
<1>6. ASSUME NEW u \in UploadIds, Consumed(u)
      PROVE  chunks \subseteq chunks' /\ \A x \in DOMAIN sessions : Grows(x)
  <2>1. /\ u \in DOMAIN sessions /\ chunks' = chunks
        /\ DOMAIN sessions' = DOMAIN sessions
        /\ \A x \in DOMAIN sessions : x # u => sessions'[x] = sessions[x]
        /\ Keeps(u, {"owner", "key", "size", "digest", "offset"})
        /\ sessions'[u].state = "consumed"
    BY <1>6, ConsumeEffect
  <2>2. sessions[u].offset \in Nat
    BY <2>1, SessionType DEF UInv
  <2>3. Grows(u)
    BY <2>1, <2>2 DEF Grows, Keeps, Sealed
  <2> QED BY <1>1, <2>1, <2>3
<1> QED BY <1>2, <1>3, <1>4, <1>5, <1>6, KindsOfStep

-----------------------------------------------------------------------------
(* What the steps do to the requests *)

\* A step of w leaves another request its progress, its rows and its keys.
LeftAlone(v) ==
  /\ pc'[v] = pc[v] /\ intent'[v] = intent[v] /\ seen'[v] = seen[v] /\ reply'[v] = reply[v]
  /\ \A x \in Owners \cup UploadIds : lock[x] = v => lock'[x] = v
  /\ \A s \in Owners \X Keys : claim[s] = v => claim'[s] = v

StepOf(w) == (\E i \in Intents : Start(w, i)) \/ Queued(w) \/ Statement(w) \/ Fail(w)

LEMMA FinishAlone ==
  ASSUME TypeOK, NEW w \in Workers, NEW r, Finish(w, r), NEW v \in Workers, v # w
  PROVE  LeftAlone(v)
<1>1. /\ \A x \in Owners \cup UploadIds : lock[x] = v => lock'[x] = v
      /\ \A s \in Owners \X Keys : claim[s] = v => claim'[s] = v
  BY FreedType DEF Finish
<1> QED BY <1>1 DEF LeftAlone, Finish, Goto, TypeOK

LEMMA OthersAlone ==
  ASSUME UInv, NEW w \in Workers, StepOf(w), NEW v \in Workers, v # w
  PROVE  LeftAlone(v)
<1> USE DEF UInv
<1>1. CASE Told(w)
  BY <1>1, ToldReply, FinishAlone DEF Tell
<1>2. CASE CommitOpen(w) \/ CommitChunk(w) \/ CommitFinalize(w)
  <2>1. \E r : Finish(w, r)
    BY <1>2 DEF CommitOpen, CommitChunk, CommitFinalize
  <2> QED BY <2>1, FinishAlone
<1>3. CASE Answer(w) \/ AnswerError(w)
  BY <1>3 DEF Answer, AnswerError, Idle, Goto, LeftAlone, TypeOK
<1>4. CASE Fail(w)
  <2>1. /\ \A x \in Owners \cup UploadIds : lock[x] = v => lock'[x] = v
        /\ \A s \in Owners \X Keys : claim[s] = v => claim'[s] = v
    BY <1>4, FreedType DEF Fail
  <2> QED BY <1>4, <2>1 DEF Fail, Idle, Goto, LeftAlone, TypeOK
<1>5. CASE (\E i \in Intents : Start(w, i)) \/ MissSession(w) \/ StoreChunk(w) \/ StoreSource(w)
  BY <1>5 DEF Start, MissSession, StoreChunk, StoreSource, Goto, LeftAlone, TypeOK
<1>6. CASE LoseRace(w)
  <2>1. \A x \in Owners \cup UploadIds : lock[x] = v => lock'[x] = v
    BY <1>6, FreedType DEF LoseRace
  <2> QED BY <1>6, <2>1 DEF LoseRace, Goto, LeftAlone, TypeOK
<1>7. CASE EnsureAccount(w) \/ LockUpload(w)
  BY <1>7, UploadsAssumption DEF EnsureAccount, LockUpload, Available, Goto, LeftAlone, TypeOK
<1>8. CASE ClaimKey(w)
  BY <1>8, UploadsAssumption DEF ClaimKey, Goto, LeftAlone, TypeOK
<1> QED BY <1>1, <1>2, <1>3, <1>4, <1>5, <1>6, <1>7, <1>8 DEF StepOf, Queued, Statement, Told

LEMMA TypeStep ==
  ASSUME UInv, [Next]_vars
  PROVE  TypeOK'
<1> USE DEF UInv
<1>0. TypeOK /\ RequestsOK /\ DataOK
  BY TypeParts
<1>1. ASSUME UNCHANGED <<tables, stored, told>>
      PROVE  DataOK'
  BY <1>0, <1>1 DEF DataOK, tables, told
<1>2. ASSUME NEW w \in Workers, Told(w)
      PROVE  TypeOK'
  <2>1. PICK r \in Reply : Tell(w, r)
    BY <1>2, ToldReply
  <2> QED BY <1>1, <2>1, FinishType, TypeParts DEF Tell
<1>3. ASSUME NEW w \in Workers, NEW i \in Intents, Start(w, i)
      PROVE  TypeOK'
  <2>1. FirstStatement(i.kind) \in PCs
    BY IntentType DEF FirstStatement, PCs
  <2>2. RequestsOK'
    BY <1>0, <1>3, <2>1 DEF RequestsOK, Start, Goto
  <2> QED BY <1>1, <1>3, <2>2, TypeParts DEF Start
<1>4. ASSUME NEW w \in Workers, \/ EnsureAccount(w) \/ MissSession(w) \/ ClaimKey(w) \/ LoseRace(w)
      PROVE  TypeOK'
  <2>1. Mine(w) \in Owners /\ Slot(w) \in Owners \X Keys
    BY <1>4, Running DEF EnsureAccount, MissSession, ClaimKey, LoseRace, Opening
  <2>2. /\ FreedBy(w, lock) \in [Owners \cup UploadIds -> Workers \cup {Nobody}]
        /\ FreedBy(w, claim) \in [Owners \X Keys -> Workers \cup {Nobody}]
    BY <1>0, FreedType
  <2>3. RequestsOK'
    <3>1. CASE EnsureAccount(w)
      BY <1>0, <2>1, <3>1 DEF RequestsOK, EnsureAccount, Goto, PCs
    <3>2. CASE MissSession(w) \/ LoseRace(w)
      BY <1>0, <2>2, <3>2 DEF RequestsOK, MissSession, LoseRace, Goto, PCs
    <3>3. CASE ClaimKey(w)
      BY <1>0, <2>1, <3>3 DEF RequestsOK, ClaimKey, Goto, PCs
    <3> QED BY <1>4, <3>1, <3>2, <3>3
  <2> QED BY <1>1, <1>4, <2>3, TypeParts DEF EnsureAccount, MissSession, ClaimKey, LoseRace
<1>5. ASSUME NEW w \in Workers, LockUpload(w)
      PROVE  TypeOK'
  <2> DEFINE u == intent[w].upload
  <2>1. u \in DOMAIN sessions
    BY <1>5 DEF LockUpload, UploadFound
  <2>2. u \in UploadIds /\ sessions[u] \in SessionRow
    BY <1>0, <2>1, SessionType
  <2>3. RequestsOK'
    BY <1>0, <1>5, <2>2 DEF RequestsOK, LockUpload, Goto, PCs
  <2> QED BY <1>1, <1>5, <2>3, TypeParts DEF LockUpload
<1>6. ASSUME NEW w \in Workers, StoreChunk(w) \/ StoreSource(w)
      PROVE  TypeOK'
  <2>1. RequestsOK'
    BY <1>0, <1>6 DEF RequestsOK, StoreChunk, StoreSource, Goto, PCs
  <2>2. intent[w].data \in Content
    BY <1>6, Running DEF StoreChunk, StoreSource
  <2>3. CASE StoreChunk(w)
    BY <1>0, <2>1, <2>2, <2>3, TypeParts DEF StoreChunk, DataOK, tables, told
  <2>4. CASE StoreSource(w)
    <3>1. intent[w].upload \in DOMAIN sessions /\ seen[w] = sessions[intent[w].upload]
      BY <2>4 DEF StoreSource, ReadsStayTrue, ReadsHold
    <3>2. seen[w].digest \in Content
      BY <1>0, <3>1, SessionType
    <3> QED BY <1>0, <2>1, <2>4, <3>2, TypeParts DEF StoreSource, DataOK, tables, told
  <2> QED BY <1>6, <2>3, <2>4
<1>7. ASSUME NEW w \in Workers, CommitOpen(w)
      PROVE  TypeOK'
  <2>1. PICK u \in UploadIds \ DOMAIN sessions :
          /\ DOMAIN sessions' = DOMAIN sessions \cup {u}
          /\ sessions' \in [DOMAIN sessions' -> SessionRow]
          /\ Finish(w, Result(u, 0, FALSE))
          /\ chunks' = chunks /\ stored' = stored
    BY <1>7, OpenEffect
  <2>2. registered' = registered \cup {Mine(w)} /\ Mine(w) \in Owners
    BY <1>7, Running DEF CommitOpen, Opening
  <2>3. Result(u, 0, FALSE) \in Reply
    BY DEF Result, Reply, Statuses
  <2>4. RequestsOK' /\ UNCHANGED told
    BY <2>1, <2>3, FinishType
  <2> QED BY <1>0, <2>1, <2>2, <2>4, TypeParts DEF DataOK, told
<1>8. ASSUME NEW w \in Workers, CommitChunk(w)
      PROVE  TypeOK'
  <2> DEFINE u == intent[w].upload
  <2>1. PICK c \in ChunkRow :
          /\ u \in DOMAIN sessions
          /\ DOMAIN sessions' = DOMAIN sessions
          /\ sessions' \in [DOMAIN sessions -> SessionRow]
          /\ chunks' = chunks \cup {c}
          /\ Finish(w, Result(u, sessions'[u].offset, FALSE))
          /\ stored' = stored
    BY <1>8, ChunkEffect
  <2>2. registered' = registered
    BY <1>8 DEF CommitChunk
  <2>3. u \in UploadIds /\ sessions'[u] \in SessionRow
    BY <1>0, <2>1, SessionType
  <2>4. Result(u, sessions'[u].offset, FALSE) \in Reply
    BY <2>3 DEF Result, Reply, Statuses, SessionRow
  <2>5. RequestsOK' /\ UNCHANGED told
    BY <2>1, <2>4, FinishType
  <2> QED BY <1>0, <2>1, <2>2, <2>5, TypeParts DEF DataOK, told
<1>9. ASSUME NEW w \in Workers, CommitFinalize(w)
      PROVE  TypeOK'
  <2> DEFINE u == intent[w].upload
  <2>1. /\ u \in DOMAIN sessions
        /\ DOMAIN sessions' = DOMAIN sessions
        /\ sessions' \in [DOMAIN sessions -> SessionRow]
        /\ chunks' = chunks /\ stored' = stored
        /\ Finish(w, Result(u, sessions[u].offset, TRUE))
    BY <1>9, FinalizeEffect
  <2>2. registered' = registered
    BY <1>9 DEF CommitFinalize
  <2>3. u \in UploadIds /\ sessions[u].offset \in Nat
    BY <1>0, <2>1, SessionType
  <2>4. Result(u, sessions[u].offset, TRUE) \in Reply
    BY <2>3 DEF Result, Reply, Statuses
  <2>5. RequestsOK' /\ UNCHANGED told
    BY <2>1, <2>4, FinishType
  <2> QED BY <1>0, <2>1, <2>2, <2>5, TypeParts DEF DataOK, told
<1>10. ASSUME NEW w \in Workers, AnswerError(w) \/ Fail(w)
       PROVE  TypeOK'
  <2>1. Idle(w) /\ lock' \in {lock, FreedBy(w, lock)} /\ claim' \in {claim, FreedBy(w, claim)}
    BY <1>10 DEF AnswerError, Fail
  <2> QED BY <1>0, <1>1, <1>10, <2>1, IdleType, TypeParts DEF AnswerError, Fail
<1>11. ASSUME NEW w \in Workers, Answer(w)
       PROVE  TypeOK'
  <2>1. /\ pc[w] = "reply" /\ reply[w].status = "done" /\ reply[w] \in Reply
        /\ intent[w].kind = "open" => intent[w].key \in Keys
        /\ Mine(w) \in Owners
    BY <1>11, Running DEF Answer, LocalsHold
  <2>2. reply[w].upload \in DOMAIN sessions
    BY <2>1 DEF RepliesTrue, ReplyFits
  <2>3. reply[w].upload \in UploadIds /\ reply[w].offset \in Nat /\ reply[w].sealed \in BOOLEAN
    BY <1>0, <2>1, <2>2, SessionType DEF Reply
  <2>4. RequestsOK'
    BY <1>0, <1>11, IdleType DEF Answer
  <2>5. named' \in SUBSET (Owners \X Keys \X UploadIds)
    BY <1>0, <1>11, <2>1, <2>3 DEF Answer, DataOK
  <2>6. heard' \in [UploadIds -> [offset: Nat, sealed: BOOLEAN]]
    <3> DEFINE update(h) == [offset |-> IF reply[w].offset > h.offset THEN reply[w].offset ELSE h.offset,
                           sealed |-> reply[w].sealed \/ h.sealed]
    <3>1. heard' = [heard EXCEPT ![reply[w].upload] = update(@)]
      BY <1>11 DEF Answer, Hear
    <3>2. \A h \in [offset: Nat, sealed: BOOLEAN] : update(h) \in [offset: Nat, sealed: BOOLEAN]
      BY <2>3
    <3> HIDE DEF update
    <3> QED BY <1>0, <2>3, <3>1, <3>2 DEF DataOK
  <2> QED BY <1>0, <1>11, <2>4, <2>5, <2>6, TypeParts DEF Answer, DataOK, tables
<1>12. CASE Crash
  <2>1. RequestsOK'
    BY <1>0, <1>12 DEF Crash, RequestsOK, PCs
  <2> QED BY <1>1, <1>12, <2>1, TypeParts DEF Crash
<1>13. ASSUME NEW o \in Owners, AccountRegistered(o)
       PROVE  TypeOK'
  BY <1>0, <1>13, TypeParts DEF AccountRegistered, RequestsOK, DataOK, requests, told
<1>14. ASSUME NEW u \in UploadIds, Consumed(u)
       PROVE  TypeOK'
  <2>1. /\ DOMAIN sessions' = DOMAIN sessions
        /\ sessions' \in [DOMAIN sessions -> SessionRow]
    BY <1>14, ConsumeEffect
  <2> QED BY <1>0, <1>14, <2>1, TypeParts DEF Consumed, RequestsOK, DataOK, requests, told
<1>15. ASSUME NEW d \in Drifting, ObjectLost(d)
       PROVE  TypeOK'
  BY <1>0, <1>15, TypeParts DEF ObjectLost, RequestsOK, DataOK, tables, requests, told
<1>16. CASE UNCHANGED vars
  BY <1>0, <1>16, TypeParts DEF vars, tables, requests, told, RequestsOK, DataOK
<1> QED BY <1>2, <1>3, <1>4, <1>5, <1>6, <1>7, <1>8, <1>9, <1>10, <1>11, <1>12, <1>13,
           <1>14, <1>15, <1>16 DEF Next, Queued, Statement, Told

\* What holds of one request.
Good(v) ==
  /\ LocalsHold(v) /\ ReadsHold(v)
  /\ pc[v] \in {"check", "install"} => UploadFound(v)
  /\ pc[v] = "reply" => ReplyFits(v, reply[v])

LEMMA AllGood ==
  /\ Locals /\ ReadsStayTrue /\ OwnUploads /\ RepliesTrue <=> \A v \in Workers : Good(v)
  /\ (Locals /\ ReadsStayTrue /\ OwnUploads /\ RepliesTrue)' <=> \A v \in Workers : Good(v)'
BY DEF Good, Locals, ReadsStayTrue, OwnUploads, RepliesTrue

\* What v has read stays as it is.
ReadsKept(v) ==
  /\ \A u \in DOMAIN sessions :
       lock[u] = v => sessions'[u] = sessions[u] /\ ChunksOf(u)' = ChunksOf(u)
  /\ \A s \in Owners \X Keys : claim[s] = v /\ Named(s) = {} => Named(s)' = {}
  /\ stored \cup Drifting \subseteq stored' \cup Drifting

\* A session that gets no chunk keeps its chunks.
LEMMA ChunksKept ==
  ASSUME NEW u, NEW c, chunks' = chunks \cup {c}, c.upload # u
  PROVE  ChunksOf(u)' = ChunksOf(u)
BY DEF ChunksOf

LEMMA StoredKept ==
  ASSUME UInv, [Next]_vars
  PROVE  stored \cup Drifting \subseteq stored' \cup Drifting
<1> USE DEF UInv, tables
<1>1. ASSUME NEW d \in Drifting, ObjectLost(d)
      PROVE  stored \cup Drifting \subseteq stored' \cup Drifting
  BY <1>1 DEF ObjectLost
<1>2. CASE UNCHANGED vars \/ Crash \/ (\E o \in Owners : AccountRegistered(o))
           \/ (\E u \in UploadIds : Consumed(u))
  BY <1>2 DEF vars, Crash, AccountRegistered, Consumed
<1>3. ASSUME NEW w \in Workers, \/ \E i \in Intents : Start(w, i)
                                \/ Queued(w) \/ Fail(w) \/ Answer(w) \/ AnswerError(w)
                                \/ MissSession(w) \/ StoreChunk(w) \/ StoreSource(w)
                                \/ CommitOpen(w) \/ CommitChunk(w) \/ CommitFinalize(w)
      PROVE  stored \subseteq stored'
  BY <1>3 DEF Start, Queued, EnsureAccount, ClaimKey, LoseRace, LockUpload, Fail, Answer,
              AnswerError, MissSession, StoreChunk, StoreSource, CommitOpen, CommitChunk,
              CommitFinalize
<1>4. ASSUME NEW w \in Workers, Told(w)
      PROVE  stored \subseteq stored'
  BY <1>4, ToldReply DEF Tell
<1> QED BY <1>1, <1>2, <1>3, <1>4 DEF Next, Statement, Told

\* Everything but v's own statements and a crash.
Elsewhere(v) ==
  \/ \E w \in Workers : w # v /\ StepOf(w)
  \/ \E o \in Owners : AccountRegistered(o)
  \/ \E u \in UploadIds : Consumed(u)
  \/ \E d \in Drifting : ObjectLost(d)
  \/ UNCHANGED vars

LEMMA StepCases ==
  ASSUME [Next]_vars, NEW v \in Workers
  PROVE  Elsewhere(v) \/ StepOf(v) \/ Crash
BY DEF Next, Elsewhere, StepOf

LEMMA ElsewhereAlone ==
  ASSUME UInv, [Next]_vars, NEW v \in Workers, Elsewhere(v)
  PROVE  LeftAlone(v)
<1>1. ASSUME NEW w \in Workers, w # v, StepOf(w)
      PROVE  LeftAlone(v)
  BY <1>1, OthersAlone
<1>2. CASE ~ \E w \in Workers : w # v /\ StepOf(w)
  BY <1>2 DEF Elsewhere, LeftAlone, AccountRegistered, Consumed, ObjectLost, vars, requests
<1> QED BY <1>1, <1>2

LEMMA ElsewhereKept ==
  ASSUME UInv, [Next]_vars, NEW v \in Workers, Elsewhere(v)
  PROVE  ReadsKept(v)
<1> DEFINE Same(u) == sessions'[u] = sessions[u] /\ ChunksOf(u)' = ChunksOf(u)
           Free(s) == claim[s] = v /\ Named(s) = {} => Named(s)' = {}
<1>1. SUFFICES (\A u \in DOMAIN sessions : lock[u] = v => Same(u)) /\ (\A s \in Owners \X Keys : Free(s))
  BY StoredKept DEF ReadsKept
<1>2. ASSUME DOMAIN sessions' = DOMAIN sessions,
             \A u \in DOMAIN sessions : Keeps(u, {"owner", "key"})
      PROVE  \A s \in Owners \X Keys : Free(s)
  BY <1>2 DEF Keeps, Named
<1>3. v # Nobody
  BY UploadsAssumption
<1>4. CASE UNCHANGED <<sessions, chunks>>
  BY <1>4 DEF Named, ChunksOf
<1>5. ASSUME NEW u \in UploadIds, Consumed(u)
      PROVE  (\A x \in DOMAIN sessions : lock[x] = v => Same(x)) /\ (\A s \in Owners \X Keys : Free(s))
  <2>1. /\ lock[u] = Nobody /\ DOMAIN sessions' = DOMAIN sessions /\ chunks' = chunks
        /\ \A x \in DOMAIN sessions : x # u => sessions'[x] = sessions[x]
        /\ Keeps(u, {"owner", "key"})
    BY <1>5, ConsumeEffect DEF Keeps
  <2> QED BY <1>2, <1>3, <2>1 DEF Keeps, ChunksOf
<1>6. ASSUME NEW w \in Workers, w # v, CommitOpen(w)
      PROVE  (\A x \in DOMAIN sessions : lock[x] = v => Same(x)) /\ (\A s \in Owners \X Keys : Free(s))
  <2>1. PICK u \in UploadIds \ DOMAIN sessions :
          /\ DOMAIN sessions' = DOMAIN sessions \cup {u}
          /\ \A x \in DOMAIN sessions : sessions'[x] = sessions[x]
          /\ sessions'[u] = [owner |-> Mine(w), key |-> intent[w].key, size |-> intent[w].size,
                             digest |-> intent[w].data, offset |-> 0, state |-> "uploading"]
          /\ <<Mine(w), intent[w].key>> = Slot(w) /\ claim[Slot(w)] = w
          /\ chunks' = chunks
    BY <1>6, OpenEffect
  <2>2. <<sessions'[u].owner, sessions'[u].key>> = Slot(w)
    BY <2>1
  <2>3. \A s \in Owners \X Keys : Free(s)
    BY <1>6, <2>1, <2>2 DEF Named
  <2> QED BY <2>1, <2>3 DEF ChunksOf
<1>7. ASSUME NEW w \in Workers, w # v, CommitChunk(w)
      PROVE  (\A x \in DOMAIN sessions : lock[x] = v => Same(x)) /\ (\A s \in Owners \X Keys : Free(s))
  <2> DEFINE u == intent[w].upload
  <2>1. PICK c \in ChunkRow :
          /\ lock[u] = w /\ DOMAIN sessions' = DOMAIN sessions
          /\ chunks' = chunks \cup {c} /\ c.upload = u
          /\ \A x \in DOMAIN sessions : x # u => sessions'[x] = sessions[x]
          /\ Keeps(u, {"owner", "key"})
    <3>1. PICK c : c = [upload |-> u, key |-> intent[w].key,
                        start |-> sessions[u].offset, data |-> intent[w].data]
      OBVIOUS
    <3>2. /\ lock[u] = w /\ DOMAIN sessions' = DOMAIN sessions
          /\ c \in ChunkRow /\ chunks' = chunks \cup {c}
          /\ \A x \in DOMAIN sessions : x # u => sessions'[x] = sessions[x]
          /\ Keeps(u, {"owner", "key", "size", "digest", "state"})
      BY <1>7, <3>1, ChunkEffect
    <3>3. Keeps(u, {"owner", "key"}) /\ c.upload = u
      BY <3>1, <3>2 DEF Keeps
    <3> QED BY <3>2, <3>3
  <2>2. \A x \in DOMAIN sessions : x # u => ChunksOf(x)' = ChunksOf(x)
    BY <2>1, ChunksKept
  <2> QED BY <1>2, <1>7, <2>1, <2>2 DEF Keeps
<1>8. ASSUME NEW w \in Workers, w # v, CommitFinalize(w)
      PROVE  (\A x \in DOMAIN sessions : lock[x] = v => Same(x)) /\ (\A s \in Owners \X Keys : Free(s))
  <2> DEFINE u == intent[w].upload
  <2>1. /\ lock[u] = w /\ DOMAIN sessions' = DOMAIN sessions
        /\ \A x \in DOMAIN sessions : x # u => sessions'[x] = sessions[x]
        /\ Keeps(u, {"owner", "key"}) /\ chunks' = chunks
    BY <1>8, FinalizeEffect DEF Keeps
  <2> QED BY <1>2, <1>8, <2>1 DEF Keeps, ChunksOf
<1>9. ASSUME NEW w \in Workers, CommitOpen(w) \/ CommitChunk(w) \/ CommitFinalize(w),
             ~ UNCHANGED <<sessions, chunks>>
      PROVE  w # v
  <2>1. pc[w] # "idle" /\ pc'[w] = "reply" /\ pc[w] # "reply"
    BY <1>9 DEF CommitOpen, CommitChunk, CommitFinalize, Finish, Goto, UInv, TypeOK
  <2> QED BY <2>1, ElsewhereAlone DEF LeftAlone
<1> QED BY <1>4, <1>5, <1>6, <1>7, <1>8, <1>9, KindsOfStep

LEMMA GoodAlone ==
  ASSUME UInv, [Next]_vars, NEW v \in Workers, Elsewhere(v)
  PROVE  Good(v)'
<1> USE DEF UInv
<1>1. /\ pc'[v] = pc[v] /\ intent'[v] = intent[v] /\ seen'[v] = seen[v] /\ reply'[v] = reply[v]
      /\ \A x \in Owners \cup UploadIds : lock[x] = v => lock'[x] = v
      /\ \A s \in Owners \X Keys : claim[s] = v => claim'[s] = v
  BY ElsewhereAlone DEF LeftAlone
<1>2. /\ \A u \in DOMAIN sessions :
           lock[u] = v => sessions'[u] = sessions[u] /\ ChunksOf(u)' = ChunksOf(u)
      /\ \A s \in Owners \X Keys : claim[s] = v /\ Named(s) = {} => Named(s)' = {}
      /\ stored \cup Drifting \subseteq stored' \cup Drifting
  BY ElsewhereKept DEF ReadsKept
<1>3. \A u \in DOMAIN sessions : Grows(u)
  BY SessionsGrow
<1>4. Good(v)
  BY AllGood
<1>5. LocalsHold(v)'
  BY <1>1, <1>4 DEF Good, LocalsHold
<1>6. pc[v] \in {"check", "install"} =>
        LET u == intent[v].upload
        IN /\ u \in DOMAIN sessions' /\ lock[u] = v /\ lock'[u] = v
           /\ sessions'[u] = sessions[u] /\ ChunksOf(u)' = ChunksOf(u)
           /\ seen'[v] = sessions'[u] /\ sessions'[u].owner = intent'[v].owner
  <2> SUFFICES ASSUME pc[v] \in {"check", "install"}
               PROVE  LET u == intent[v].upload
                      IN /\ u \in DOMAIN sessions' /\ lock[u] = v /\ lock'[u] = v
                         /\ sessions'[u] = sessions[u] /\ ChunksOf(u)' = ChunksOf(u)
                         /\ seen'[v] = sessions'[u] /\ sessions'[u].owner = intent'[v].owner
    OBVIOUS
  <2> DEFINE u == intent[v].upload
  <2>1. u \in DOMAIN sessions /\ lock[u] = v /\ seen[v] = sessions[u] /\ sessions[u].owner = Mine(v)
    BY <1>4 DEF Good, ReadsHold, UploadFound
  <2>2. u \in UploadIds
    BY <2>1, SessionType
  <2> QED BY <1>1, <1>2, <1>3, <2>1, <2>2 DEF Grows, Mine
<1>7. ReadsHold(v)'
  <2>1. CASE pc[v] = "after"
    <3>1. PICK u \in Named(Slot(v)) : TRUE
      BY <1>4, <2>1 DEF Good, ReadsHold
    <3>2. u \in DOMAIN sessions /\ Grows(u)
      BY <1>3, <3>1 DEF Named
    <3>3. u \in Named(Slot(v))'
      BY <1>1, <3>1, <3>2 DEF Named, Slot, Grows, Keeps
    <3> QED BY <1>1, <2>1, <3>3 DEF ReadsHold
  <2>2. CASE pc[v] = "commit"
    <3>1. claim[Slot(v)] = v /\ Named(Slot(v)) = {} /\ Slot(v) \in Owners \X Keys
      BY <1>4, <2>2, Running DEF Good, ReadsHold, Opening
    <3>2. \A s : s = Slot(v) => s \in Owners \X Keys /\ Named(s) = {} /\ claim'[s] = v /\ Named(s)' = {}
      BY <1>1, <1>2, <3>1
    <3>3. Slot(v)' = Slot(v)
      BY <1>1 DEF Slot
    <3>4. claim'[Slot(v)'] = v /\ Named(Slot(v))' = {}
      BY <3>2, <3>3 DEF Named
    <3> QED BY <1>1, <2>2, <3>4 DEF ReadsHold
  <2>3. CASE pc[v] = "check"
    BY <1>1, <1>6, <2>3 DEF ReadsHold
  <2>4. CASE pc[v] = "install"
    <3> DEFINE u == intent[v].upload
    <3>1. /\ u \in DOMAIN sessions' /\ lock'[u] = v /\ seen'[v] = sessions'[u]
          /\ ChunksOf(u)' = ChunksOf(u)
      BY <1>6, <2>4
    <3>2. /\ ~Sealed(seen[v]) /\ seen[v].offset = seen[v].size
          /\ Assembled(u, seen[v].size) = seen[v].digest /\ seen[v].digest \in stored \cup Drifting
      BY <1>4, <2>4 DEF Good, ReadsHold
    <3>3. Assembled(u, seen[v].size)' = Assembled(u, seen[v].size)
      BY <1>1, <3>1 DEF Assembled
    <3> QED BY <1>1, <1>2, <2>4, <3>1, <3>2, <3>3 DEF ReadsHold, Sealed
  <2> QED BY <1>1, <2>1, <2>2, <2>3, <2>4 DEF ReadsHold
<1>8. pc'[v] \in {"check", "install"} => UploadFound(v)'
  BY <1>1, <1>6 DEF UploadFound, Mine
<1>9. pc'[v] = "reply" => ReplyFits(v, reply[v])'
  <2> SUFFICES ASSUME pc[v] = "reply", reply[v].status = "done"
               PROVE  ReplyFits(v, reply[v])'
    BY <1>1 DEF ReplyFits
  <2> DEFINE u == reply[v].upload
  <2>1. u \in DOMAIN sessions /\ ReplyFits(v, reply[v]) /\ reply[v] \in Reply
    BY <1>4 DEF Good, ReplyFits, LocalsHold
  <2>2. Grows(u) /\ sessions[u].offset \in Nat /\ sessions'[u].offset \in Nat /\ reply[v].offset \in Nat
    BY <1>3, <2>1, TypeStep, SessionType DEF Reply, Grows, TypeOK, SessionRow
  <2>3. reply[v].offset <= sessions[u].offset /\ sessions[u].offset <= sessions'[u].offset
    BY <2>1, <2>2 DEF ReplyFits, Grows
  <2>4. reply[v].offset <= sessions'[u].offset
    BY <2>2, <2>3
  <2> QED BY <1>1, <2>1, <2>2, <2>4 DEF ReplyFits, Grows, Keeps, Mine
<1> QED BY <1>5, <1>7, <1>8, <1>9 DEF Good

\* A request that is about to answer holds nothing.
LEMMA GoodReply ==
  ASSUME UInv, NEW v \in Workers, pc[v] # "idle", NEW r \in Reply, Finish(v, r),
         r.status = "done" =>
           /\ r.upload \in DOMAIN sessions'
           /\ sessions'[r.upload].owner = Mine(v)
           /\ r.offset <= sessions'[r.upload].offset
           /\ r.sealed => Sealed(sessions'[r.upload])
           /\ intent[v].kind = "open" => /\ sessions'[r.upload].key = intent[v].key
                                         /\ sessions'[r.upload].digest = intent[v].data
                                         /\ sessions'[r.upload].size = intent[v].size
  PROVE  Good(v)'
<1>1. intent'[v] = intent[v] /\ pc'[v] = "reply" /\ reply'[v] = r /\ intent[v] \in Intents
  BY Running DEF UInv, Finish, Goto, TypeOK
<1>2. LocalsHold(v)' /\ ReadsHold(v)'
  BY <1>1 DEF LocalsHold, ReadsHold, Opening
<1>3. ReplyFits(v, reply[v])'
  BY <1>1 DEF ReplyFits, Mine
<1> QED BY <1>1, <1>2, <1>3 DEF Good

LEMMA GoodOwn ==
  ASSUME UInv, [Next]_vars, NEW v \in Workers, StepOf(v)
  PROVE  Good(v)'
<1> USE DEF UInv
<1>0. TypeOK /\ Good(v)
  BY AllGood
<1>1. ASSUME pc'[v] = "idle"
      PROVE  Good(v)'
  BY <1>1 DEF Good, LocalsHold, ReadsHold
<1>2. CASE Answer(v) \/ AnswerError(v) \/ Fail(v)
  BY <1>0, <1>1, <1>2 DEF Answer, AnswerError, Fail, Idle, Goto, TypeOK
<1>3. CASE Told(v)
  <2>1. PICK r \in Reply : Tell(v, r) /\ ReplyFits(v, r)
    BY <1>3, ToldReply
  <2>2. sessions' = sessions /\ pc[v] # "idle"
    BY <1>3, <2>1, ToldReply DEF Tell, tables
  <2> QED BY <2>1, <2>2, GoodReply DEF Tell, ReplyFits
<1>4. CASE CommitOpen(v)
  <2>1. PICK u \in UploadIds \ DOMAIN sessions :
          /\ DOMAIN sessions' = DOMAIN sessions \cup {u}
          /\ sessions'[u] = [owner |-> Mine(v), key |-> intent[v].key, size |-> intent[v].size,
                             digest |-> intent[v].data, offset |-> 0, state |-> "uploading"]
          /\ Finish(v, Result(u, 0, FALSE))
    BY <1>4, OpenEffect
  <2>2. Result(u, 0, FALSE) \in Reply /\ pc[v] # "idle"
    BY <1>4 DEF Result, Reply, Statuses, CommitOpen
  <2> QED BY <2>1, <2>2, GoodReply DEF Result
<1>5. CASE CommitChunk(v)
  <2> DEFINE u == intent[v].upload
             r == Result(u, sessions'[u].offset, FALSE)
  <2>1. /\ u \in DOMAIN sessions /\ DOMAIN sessions' = DOMAIN sessions
        /\ sessions' \in [DOMAIN sessions -> SessionRow]
        /\ Keeps(u, {"owner"})
        /\ Finish(v, r)
    BY <1>5, ChunkEffect DEF Keeps
  <2>2. u \in UploadIds /\ sessions'[u].offset \in Nat
    BY <1>0, <2>1, SessionType DEF SessionRow
  <2>3. r \in Reply /\ pc[v] # "idle" /\ intent[v].kind # "open" /\ pc[v] = "check"
    BY <1>5, <2>2 DEF Result, Reply, Statuses, CommitChunk
  <2>4. sessions[u].owner = Mine(v)
    BY <1>0, <2>3 DEF Good, UploadFound
  <2> QED BY <2>1, <2>2, <2>3, <2>4, GoodReply DEF Result, Keeps
<1>6. CASE CommitFinalize(v)
  <2> DEFINE u == intent[v].upload
             r == Result(u, sessions[u].offset, TRUE)
  <2>1. /\ u \in DOMAIN sessions /\ DOMAIN sessions' = DOMAIN sessions
        /\ Keeps(u, {"owner", "offset"}) /\ sessions'[u].state = "finalized"
        /\ Finish(v, r)
    BY <1>6, FinalizeEffect DEF Keeps
  <2>2. u \in UploadIds /\ sessions[u].offset \in Nat
    BY <1>0, <2>1, SessionType
  <2>3. r \in Reply /\ pc[v] = "install" /\ intent[v].kind # "open"
    BY <1>0, <1>6, <2>2 DEF Result, Reply, Statuses, CommitFinalize, Good, LocalsHold
  <2>4. sessions[u].owner = Mine(v)
    BY <1>0, <2>3 DEF Good, UploadFound
  <2> QED BY <2>1, <2>2, <2>3, <2>4, GoodReply DEF Result, Keeps, Sealed
<1>7. ASSUME NEW i \in Intents, Start(v, i)
      PROVE  Good(v)'
  <2>1. intent'[v] = i /\ pc'[v] = FirstStatement(i.kind)
    BY <1>0, <1>7 DEF Start, Goto, TypeOK
  <2> QED BY <2>1, IntentType DEF Good, LocalsHold, ReadsHold, FirstStatement, Opening
<1>8. CASE EnsureAccount(v) \/ MissSession(v)
  <2>1. intent'[v] = intent[v] /\ pc[v] \in Opening /\ pc'[v] \in {"select", "insert"}
    BY <1>0, <1>8 DEF EnsureAccount, MissSession, Goto, TypeOK, Opening
  <2> QED BY <1>0, <2>1 DEF Good, LocalsHold, ReadsHold, Opening
<1>9. CASE ClaimKey(v)
  <2>1. /\ pc[v] \in Opening /\ pc'[v] = "commit" /\ intent'[v] = intent[v] /\ sessions' = sessions
        /\ Named(Slot(v)) = {} /\ claim' = [claim EXCEPT ![Slot(v)] = v]
    BY <1>0, <1>9 DEF ClaimKey, Goto, TypeOK, Opening, tables
  <2>2. Slot(v) \in Owners \X Keys
    BY <2>1, Running DEF Opening
  <2>3. claim'[Slot(v)] = v
    BY <1>0, <2>1, <2>2 DEF TypeOK
  <2>4. Slot(v)' = Slot(v) /\ Named(Slot(v))' = {}
    BY <2>1 DEF Slot, Named
  <2>5. ReadsHold(v)'
    BY <2>1, <2>3, <2>4 DEF ReadsHold
  <2> QED BY <1>0, <2>1, <2>5 DEF Good, LocalsHold, Opening
<1>10. CASE LoseRace(v)
  <2>1. /\ pc[v] \in Opening /\ pc'[v] = "after" /\ intent'[v] = intent[v] /\ sessions' = sessions
        /\ Named(Slot(v)) # {}
    BY <1>0, <1>10 DEF LoseRace, Goto, TypeOK, Opening, tables
  <2>2. Named(Slot(v))' # {}
    BY <2>1 DEF Slot, Named
  <2> QED BY <1>0, <2>1, <2>2 DEF Good, ReadsHold, LocalsHold, Opening
<1>11. CASE StoreChunk(v)
  <2>1. pc[v] = "put" /\ pc'[v] = "lock" /\ intent'[v] = intent[v]
    BY <1>0, <1>11 DEF StoreChunk, Goto, TypeOK
  <2> QED BY <1>0, <2>1 DEF Good, LocalsHold, ReadsHold, Opening
<1>12. CASE LockUpload(v)
  <2> DEFINE u == intent[v].upload
  <2>1. /\ pc[v] = "lock" /\ pc'[v] = "check" /\ intent'[v] = intent[v] /\ sessions' = sessions
        /\ UploadFound(v) /\ seen'[v] = sessions[u]
        /\ lock' = [lock EXCEPT ![u] = v]
    BY <1>0, <1>12 DEF LockUpload, Goto, TypeOK, tables
  <2>2. u \in DOMAIN sessions /\ u \in UploadIds
    BY <1>0, <2>1, SessionType DEF UploadFound
  <2>3. lock'[u] = v
    BY <1>0, <2>1, <2>2 DEF TypeOK
  <2> QED BY <1>0, <2>1, <2>2, <2>3 DEF Good, LocalsHold, ReadsHold, UploadFound, Mine, Opening
<1>13. CASE StoreSource(v)
  <2> DEFINE u == intent[v].upload
  <2>1. /\ pc[v] = "check" /\ pc'[v] = "install" /\ intent'[v] = intent[v] /\ seen' = seen
        /\ lock' = lock /\ sessions' = sessions /\ chunks' = chunks /\ intent[v].kind = "finalize"
        /\ ~Sealed(seen[v]) /\ seen[v].offset = seen[v].size
        /\ Assembled(u, seen[v].size) = seen[v].digest /\ seen[v].digest \in stored'
    BY <1>0, <1>13 DEF StoreSource, Goto, TypeOK, tables, Verified
  <2>2. u \in DOMAIN sessions /\ lock[u] = v /\ seen[v] = sessions[u] /\ UploadFound(v)
    BY <1>0, <2>1 DEF Good, ReadsHold
  <2>3. Assembled(u, seen[v].size)' = Assembled(u, seen[v].size)
    BY <2>1 DEF Assembled, ChunksOf
  <2>4. ReadsHold(v)'
    BY <2>1, <2>2, <2>3 DEF ReadsHold, Sealed
  <2> QED BY <1>0, <2>1, <2>2, <2>4 DEF Good, LocalsHold, UploadFound, Mine, Opening
<1> QED BY <1>2, <1>3, <1>4, <1>5, <1>6, <1>7, <1>8, <1>9, <1>10, <1>11, <1>12, <1>13
        DEF StepOf, Queued, Statement, Told

LEMMA GoodStep ==
  ASSUME UInv, [Next]_vars
  PROVE  (Locals /\ ReadsStayTrue /\ OwnUploads /\ RepliesTrue)'
<1>1. ASSUME NEW v \in Workers
      PROVE  Good(v)'
  <2>1. CASE Crash
    BY <2>1 DEF Crash, Good, LocalsHold, ReadsHold
  <2> QED BY <2>1, StepCases, GoodAlone, GoodOwn
<1> QED BY <1>1, AllGood

-----------------------------------------------------------------------------
(* The tables stay well formed *)

\* What holds of one session and its chunks.
TiledOK(u) == Tiles(u, sessions[u].offset) /\ sessions[u].offset <= sessions[u].size
SealedOK(u) ==
  Sealed(sessions[u]) =>
    /\ sessions[u].offset = sessions[u].size
    /\ Assembled(u, sessions[u].size) = sessions[u].digest
    /\ sessions[u].digest \in stored \cup Drifting

\* A session whose chunks and numbers have not changed.
LEMMA TableKept ==
  ASSUME UInv, [Next]_vars, NEW u \in DOMAIN sessions, ChunksOf(u)' = ChunksOf(u),
         Keeps(u, {"size", "digest", "offset"}), Sealed(sessions'[u]) => Sealed(sessions[u])
  PROVE  TiledOK(u)' /\ SealedOK(u)'
<1>1. /\ sessions'[u].offset = sessions[u].offset /\ sessions'[u].size = sessions[u].size
      /\ sessions'[u].digest = sessions[u].digest
  BY DEF Keeps
<1>2. TiledOK(u) /\ SealedOK(u)
  BY DEF UInv, ChunksTile, SealedAsDeclared, TiledOK, SealedOK
<1>3. TiledOK(u)'
  BY <1>1, <1>2 DEF TiledOK, Tiles
<1>4. Assembled(u, sessions[u].size)' = Assembled(u, sessions[u].size)
  BY <1>1 DEF Assembled
<1>5. SealedOK(u)'
  BY <1>1, <1>2, <1>4, StoredKept DEF SealedOK
<1> QED BY <1>3, <1>5

LEMMA ChunkSpan ==
  ASSUME UInv, NEW c \in chunks
  PROVE  c \in ChunkRow /\ c.start \in Nat /\ Len(c.data) \in Nat
BY ChunkLength DEF UInv, TypeOK, ChunkRow

\* A chunk that begins where the committed bytes end extends them.
LEMMA TilesExtended ==
  ASSUME UInv, NEW w \in Workers, CommitChunk(w), NEW u, u = intent[w].upload
  PROVE  TiledOK(u)'
<1>0. PICK n, m, c :
      /\ n = sessions[u].offset
      /\ c = [upload |-> u, key |-> intent[w].key, start |-> n, data |-> intent[w].data]
      /\ m = n + Len(c.data)
  OBVIOUS
<1>1. /\ u \in DOMAIN sessions
      /\ sessions'[u].size = sessions[u].size /\ sessions'[u].offset = m
      /\ sessions'[u].offset <= sessions[u].size
      /\ Len(c.data) \in Nat /\ Len(c.data) > 0
      /\ chunks' = chunks \cup {c}
  BY <1>0, ChunkEffect DEF Keeps
<1>2. n \in Nat /\ m \in Nat
  BY <1>0, <1>1, SessionType DEF UInv
<1>3. Tiles(u, n)
  BY <1>0, <1>1 DEF UInv, ChunksTile
<1>4. ChunksOf(u)' = ChunksOf(u) \cup {c}
  BY <1>0, <1>1 DEF ChunksOf
<1>5. \A d \in ChunksOf(u) : d.start \in Nat /\ Len(d.data) \in Nat /\ d.start + Len(d.data) <= n
  BY <1>3, ChunkSpan DEF Tiles, ChunksOf
<1>6. c.start = n
  BY <1>0
<1>7. ASSUME NEW p \in 1 .. m
      PROVE  /\ Covers(c, p) <=> p > n
             /\ \A d \in ChunksOf(u) : Covers(d, p) => p <= n
  <2>1. p \in Nat
    BY <1>2
  <2>2. p <= n + Len(c.data)
    BY <1>0, <1>2
  <2>3. Covers(c, p) <=> p > n
    BY <1>1, <1>2, <1>6, <2>1, <2>2 DEF Covers
  <2>4. ASSUME NEW d \in ChunksOf(u), Covers(d, p)
        PROVE  p <= n
    BY <1>2, <1>5, <2>1, <2>4 DEF Covers
  <2> QED BY <2>3, <2>4
<1>8. \A p \in 1 .. m : \E d \in ChunksOf(u)' : Covers(d, p)
  <2> TAKE p \in 1 .. m
  <2>1. CASE p <= n
    BY <1>2, <1>3, <1>4, <2>1 DEF Tiles
  <2>2. CASE p > n
    BY <1>4, <1>7, <2>2
  <2> QED BY <1>2, <2>1, <2>2
<1>9. \A d \in ChunksOf(u)' : d.start + Len(d.data) <= m
  <2>1. c.start + Len(c.data) <= m
    BY <1>0, <1>1, <1>2, <1>6
  <2>2. ASSUME NEW d \in ChunksOf(u)
        PROVE  d.start + Len(d.data) <= m
    BY <1>0, <1>1, <1>2, <1>5
  <2> QED BY <1>4, <2>1, <2>2
<1>10. \A d, e \in ChunksOf(u)' : \A p \in 1 .. m : Covers(d, p) /\ Covers(e, p) => d = e
  <2> TAKE d, e \in ChunksOf(u)'
  <2> TAKE p \in 1 .. m
  <2> HAVE Covers(d, p) /\ Covers(e, p)
  <2>1. CASE p <= n
    <3>1. p \in 1 .. n /\ ~(p > n)
      BY <1>2, <2>1
    <3>2. d \in ChunksOf(u) /\ e \in ChunksOf(u)
      BY <1>4, <1>7, <3>1
    <3> QED BY <1>3, <3>1, <3>2 DEF Tiles
  <2>2. CASE p > n
    <3>1. ~(p <= n)
      BY <1>2, <2>2
    <3> QED BY <1>4, <1>7, <3>1
  <2> QED BY <1>2, <2>1, <2>2
<1>11. Tiles(u, sessions[u].offset)'
  BY <1>1, <1>8, <1>9, <1>10 DEF Tiles
<1> QED BY <1>1, <1>11 DEF TiledOK

LEMMA TablesStep ==
  ASSUME UInv, [Next]_vars
  PROVE  ChunksTile' /\ SealedAsDeclared'
<1> USE DEF UInv
<1> DEFINE Owned == \A c \in chunks : c.upload \in DOMAIN sessions
           Bound == \A c, d \in chunks : c.upload = d.upload /\ c.key = d.key => c = d
<1>1. SUFFICES /\ \A u \in DOMAIN sessions' : TiledOK(u)' /\ SealedOK(u)'
               /\ Owned' /\ Bound'
  BY DEF ChunksTile, SealedAsDeclared, TiledOK, SealedOK
<1>2. Owned /\ Bound
  BY DEF ChunksTile
<1>3. ASSUME chunks' = chunks
      PROVE  Owned' /\ Bound' /\ \A u \in DOMAIN sessions : ChunksOf(u)' = ChunksOf(u)
  BY <1>2, <1>3, SessionsGrow DEF ChunksOf, Grows
<1>4. CASE UNCHANGED <<sessions, chunks>>
  BY <1>3, <1>4, TableKept DEF Keeps
<1>5. ASSUME NEW w \in Workers, CommitOpen(w)
      PROVE  (\A u \in DOMAIN sessions' : TiledOK(u)' /\ SealedOK(u)') /\ Owned' /\ Bound'
  <2>1. PICK u \in UploadIds \ DOMAIN sessions :
          /\ DOMAIN sessions' = DOMAIN sessions \cup {u}
          /\ \A x \in DOMAIN sessions : sessions'[x] = sessions[x]
          /\ sessions'[u] = [owner |-> Mine(w), key |-> intent[w].key, size |-> intent[w].size,
                             digest |-> intent[w].data, offset |-> 0, state |-> "uploading"]
          /\ sessions'[u] \in SessionRow
          /\ chunks' = chunks
    BY <1>5, OpenEffect
  <2>0. sessions'[u].offset = 0 /\ sessions'[u].state = "uploading" /\ sessions'[u].size \in Nat
    BY <2>1 DEF SessionRow
  <2>2. \A x \in DOMAIN sessions : TiledOK(x)' /\ SealedOK(x)'
    BY <1>3, <2>1, TableKept DEF Keeps
  <2>3. ChunksOf(u)' = {}
    BY <1>2, <2>1 DEF ChunksOf
  <2>4. TiledOK(u)'
    BY <2>0, <2>3 DEF TiledOK, Tiles
  <2>5. SealedOK(u)'
    BY <2>0 DEF SealedOK, Sealed
  <2> QED BY <1>3, <2>1, <2>2, <2>4, <2>5
<1>6. ASSUME NEW w \in Workers, CommitChunk(w)
      PROVE  (\A u \in DOMAIN sessions' : TiledOK(u)' /\ SealedOK(u)') /\ Owned' /\ Bound'
  <2>0. PICK u, c : /\ u = intent[w].upload
                    /\ c = [upload |-> u, key |-> intent[w].key,
                            start |-> sessions[u].offset, data |-> intent[w].data]
    OBVIOUS
  <2>1. /\ u \in DOMAIN sessions /\ DOMAIN sessions' = DOMAIN sessions
        /\ ~Sealed(sessions[u]) /\ Keeps(u, {"state"})
        /\ \A x \in DOMAIN sessions : x # u => sessions'[x] = sessions[x]
        /\ chunks' = chunks \cup {c} /\ c.upload = u /\ c.key = intent[w].key
        /\ BoundChunks(w) = {}
    <3>1. /\ u \in DOMAIN sessions /\ DOMAIN sessions' = DOMAIN sessions
          /\ ~Sealed(sessions[u]) /\ Keeps(u, {"owner", "key", "size", "digest", "state"})
          /\ \A x \in DOMAIN sessions : x # u => sessions'[x] = sessions[x]
          /\ chunks' = chunks \cup {c} /\ BoundChunks(w) = {}
      <4> DEFINE v == intent[w].upload
      <4>1. c = [upload |-> v, key |-> intent[w].key,
                 start |-> sessions[v].offset, data |-> intent[w].data]
        BY <2>0
      <4>2. /\ v \in DOMAIN sessions /\ DOMAIN sessions' = DOMAIN sessions
            /\ ~Sealed(sessions[v]) /\ Keeps(v, {"owner", "key", "size", "digest", "state"})
            /\ \A x \in DOMAIN sessions : x # v => sessions'[x] = sessions[x]
            /\ chunks' = chunks \cup {c} /\ BoundChunks(w) = {}
        BY <1>6, <4>1, ChunkEffect
      <4>3. u = v
        BY <2>0
      <4> HIDE DEF v
      <4> QED BY <4>2, <4>3
    <3>2. Keeps(u, {"state"}) /\ c.upload = u /\ c.key = intent[w].key
      BY <2>0, <3>1 DEF Keeps
    <3> QED BY <3>1, <3>2
  <2>2. \A x \in DOMAIN sessions : x # u => TiledOK(x)' /\ SealedOK(x)'
    BY <2>1, ChunksKept, TableKept DEF Keeps
  <2>3. SealedOK(u)'
    BY <2>1 DEF SealedOK, Sealed, Keeps
  <2>4. Owned' /\ Bound'
    BY <1>2, <2>0, <2>1 DEF BoundChunks, ChunksOf
  <2>5. TiledOK(u)'
    BY <1>6, <2>0, TilesExtended
  <2> QED BY <2>1, <2>2, <2>3, <2>4, <2>5
<1>7. ASSUME NEW w \in Workers, CommitFinalize(w)
      PROVE  (\A u \in DOMAIN sessions' : TiledOK(u)' /\ SealedOK(u)') /\ Owned' /\ Bound'
  <2>0. PICK u : u = intent[w].upload
    OBVIOUS
  <2>1. /\ u \in DOMAIN sessions /\ DOMAIN sessions' = DOMAIN sessions
        /\ \A x \in DOMAIN sessions : x # u => sessions'[x] = sessions[x]
        /\ Keeps(u, {"size", "digest", "offset"})
        /\ sessions[u].offset = sessions[u].size
        /\ Assembled(u, sessions[u].size) = sessions[u].digest
        /\ sessions[u].digest \in stored \cup Drifting
        /\ chunks' = chunks
    BY <1>7, <2>0, FinalizeEffect DEF Keeps
  <2>2. \A x \in DOMAIN sessions : x # u => TiledOK(x)' /\ SealedOK(x)'
    BY <1>3, <2>1, TableKept DEF Keeps
  <2>3. TiledOK(u)
    BY <2>1 DEF ChunksTile, TiledOK
  <2>4. TiledOK(u)'
    BY <1>3, <2>1, <2>3 DEF TiledOK, Tiles, Keeps
  <2>5. SealedOK(u)'
    <3>1. Assembled(u, sessions[u].size)' = Assembled(u, sessions[u].size)
      BY <1>3, <2>1 DEF Assembled, Keeps
    <3> QED BY <2>1, <3>1, StoredKept DEF SealedOK, Keeps
  <2> QED BY <1>3, <2>1, <2>2, <2>4, <2>5
<1>8. ASSUME NEW u \in UploadIds, Consumed(u)
      PROVE  (\A x \in DOMAIN sessions' : TiledOK(x)' /\ SealedOK(x)') /\ Owned' /\ Bound'
  <2>1. /\ u \in DOMAIN sessions /\ DOMAIN sessions' = DOMAIN sessions
        /\ \A x \in DOMAIN sessions : x # u => sessions'[x] = sessions[x]
        /\ Keeps(u, {"size", "digest", "offset"}) /\ Sealed(sessions[u])
        /\ chunks' = chunks
    BY <1>8, ConsumeEffect DEF Keeps, Sealed
  <2> QED BY <1>3, <2>1, TableKept DEF Keeps
<1> QED BY <1>4, <1>5, <1>6, <1>7, <1>8, KindsOfStep

-----------------------------------------------------------------------------
(* What callers are told *)

\* Only an answer that arrives tells a caller something.
LEMMA ToldKept ==
  ASSUME UInv, [Next]_vars
  PROVE  UNCHANGED told \/ \E w \in Workers : Answer(w)
<1> USE DEF UInv, told
<1>1. ASSUME NEW w \in Workers, Told(w)
      PROVE  UNCHANGED told
  BY <1>1, ToldReply DEF Tell, Finish
<1>2. ASSUME NEW w \in Workers, CommitOpen(w) \/ CommitChunk(w) \/ CommitFinalize(w)
      PROVE  UNCHANGED told
  BY <1>2 DEF CommitOpen, CommitChunk, CommitFinalize, Finish
<1>3. ASSUME NEW w \in Workers, \/ \E i \in Intents : Start(w, i)
                                \/ Queued(w) \/ Fail(w) \/ AnswerError(w)
                                \/ MissSession(w) \/ StoreChunk(w) \/ StoreSource(w)
      PROVE  UNCHANGED told
  BY <1>3 DEF Start, Queued, EnsureAccount, ClaimKey, LoseRace, LockUpload, Fail,
              AnswerError, MissSession, StoreChunk, StoreSource
<1>4. CASE UNCHANGED vars \/ Crash \/ (\E o \in Owners : AccountRegistered(o))
           \/ (\E u \in UploadIds : Consumed(u)) \/ (\E d \in Drifting : ObjectLost(d))
  BY <1>4 DEF vars, Crash, AccountRegistered, Consumed, ObjectLost
<1> QED BY <1>1, <1>2, <1>3, <1>4 DEF Next, Statement, Told

\* What an arriving answer tells.
LEMMA AnswerEffect ==
  ASSUME UInv, NEW w \in Workers, Answer(w)
  PROVE  \E u \in DOMAIN sessions, r \in Reply :
           /\ r = reply[w] /\ u = r.upload /\ u \in UploadIds
           /\ UNCHANGED <<sessions, chunks>>
           /\ r.offset <= sessions[u].offset
           /\ r.sealed => Sealed(sessions[u])
           /\ heard' = [heard EXCEPT ![u] =
                          [offset |-> IF r.offset > @.offset THEN r.offset ELSE @.offset,
                           sealed |-> r.sealed \/ @.sealed]]
           /\ \A n \in named' : n \in named \/ /\ n = <<sessions[u].owner, sessions[u].key, u>>
                                               /\ intent[w].kind = "open"
<1> DEFINE r == reply[w]
           u == r.upload
<1>0. pc[w] = "reply" /\ r.status = "done"
  BY DEF Answer
<1>1. r \in Reply /\ r.status = "done" /\ ReplyFits(w, r)
  BY <1>0, Running DEF UInv, LocalsHold, RepliesTrue
<1>2. /\ u \in DOMAIN sessions
      /\ sessions[u].owner = Mine(w)
      /\ intent[w].kind = "open" => sessions[u].key = intent[w].key
  BY <1>1 DEF ReplyFits
<1>3. u \in UploadIds
  BY <1>2, SessionType DEF UInv
<1>4. UNCHANGED <<sessions, chunks>>
  BY DEF Answer, tables
<1>5. heard' = [heard EXCEPT ![u] =
                  [offset |-> IF r.offset > @.offset THEN r.offset ELSE @.offset,
                   sealed |-> r.sealed \/ @.sealed]]
  BY DEF Answer, Hear
<1>6. \A n \in named' : n \in named \/ /\ n = <<sessions[u].owner, sessions[u].key, u>>
                                       /\ intent[w].kind = "open"
  BY <1>2 DEF Answer
<1>7. /\ r.offset <= sessions[u].offset
      /\ r.sealed => Sealed(sessions[u])
  BY <1>1, <1>2 DEF ReplyFits
<1> QED BY <1>1, <1>2, <1>3, <1>4, <1>5, <1>6, <1>7

LEMMA HeardStep ==
  ASSUME UInv, [Next]_vars
  PROVE  ToldIsDurable'
<1> DEFINE Durable(u) ==
             /\ heard[u].offset > 0 =>
                  u \in DOMAIN sessions /\ heard[u].offset <= sessions[u].offset
             /\ heard[u].sealed => u \in DOMAIN sessions /\ Sealed(sessions[u])
<1>1. SUFFICES ASSUME NEW u \in UploadIds
               PROVE  Durable(u)'
  BY DEF ToldIsDurable
<1>2. Durable(u) /\ heard[u].offset \in Nat
  BY DEF UInv, ToldIsDurable, TypeOK
<1>3. CASE heard'[u] = heard[u]
  <2>1. ASSUME u \in DOMAIN sessions
        PROVE  /\ u \in DOMAIN sessions' /\ sessions[u].offset <= sessions'[u].offset
               /\ Sealed(sessions[u]) => Sealed(sessions'[u])
               /\ sessions[u].offset \in Nat /\ sessions'[u].offset \in Nat
    BY <2>1, SessionsGrow, TypeStep, SessionType DEF Grows, UInv, TypeOK, SessionRow
  <2>2. ASSUME heard[u].offset > 0
        PROVE  u \in DOMAIN sessions' /\ heard[u].offset <= sessions'[u].offset
    BY <1>2, <2>1, <2>2
  <2> QED BY <1>2, <1>3, <2>1, <2>2
<1>4. ASSUME NEW w \in Workers, Answer(w), heard'[u] # heard[u]
      PROVE  Durable(u)'
  <2>1. PICK x \in DOMAIN sessions, r \in Reply :
          /\ x \in UploadIds /\ UNCHANGED <<sessions, chunks>>
          /\ r.offset <= sessions[x].offset
          /\ r.sealed => Sealed(sessions[x])
          /\ heard' = [heard EXCEPT ![x] =
                         [offset |-> IF r.offset > @.offset THEN r.offset ELSE @.offset,
                          sealed |-> r.sealed \/ @.sealed]]
    BY <1>4, AnswerEffect
  <2>2. x = u
    BY <1>4, <2>1 DEF UInv, TypeOK
  <2>3. /\ heard'[u].offset \in {r.offset, heard[u].offset}
        /\ heard'[u].sealed => r.sealed \/ heard[u].sealed
    BY <2>1, <2>2 DEF UInv, TypeOK
  <2> QED BY <1>2, <2>1, <2>2, <2>3
<1> QED BY <1>3, <1>4, ToldKept DEF told

LEMMA KeysStep ==
  ASSUME UInv, [Next]_vars
  PROVE  OneUploadPerKey'
<1> DEFINE Slots(u) == <<sessions[u].owner, sessions[u].key>>
<1>1. \A u, t \in DOMAIN sessions : Slots(u) = Slots(t) => u = t
  BY DEF UInv, OneUploadPerKey
<1>2. \A u, t \in DOMAIN sessions' : Slots(u)' = Slots(t)' => u = t
  <2>1. CASE DOMAIN sessions' = DOMAIN sessions
    BY <1>1, <2>1, SessionsGrow DEF Grows, Keeps
  <2>2. ASSUME NEW w \in Workers, CommitOpen(w)
        PROVE  \A u, t \in DOMAIN sessions' : Slots(u)' = Slots(t)' => u = t
    <3>1. PICK x \in UploadIds \ DOMAIN sessions :
            /\ DOMAIN sessions' = DOMAIN sessions \cup {x}
            /\ \A y \in DOMAIN sessions : sessions'[y] = sessions[y]
            /\ sessions'[x] = [owner |-> Mine(w), key |-> intent[w].key, size |-> intent[w].size,
                               digest |-> intent[w].data, offset |-> 0, state |-> "uploading"]
            /\ <<Mine(w), intent[w].key>> = Slot(w) /\ Named(Slot(w)) = {}
      BY <2>2, OpenEffect
    <3>2. \A y \in DOMAIN sessions : Slots(y)' # Slots(x)'
      BY <3>1 DEF Named
    <3>3. \A u, t \in DOMAIN sessions : Slots(u)' = Slots(t)' => u = t
      BY <1>1, <3>1
    <3> QED BY <3>1, <3>2, <3>3
  <2>3. ASSUME NEW w \in Workers, CommitChunk(w) \/ CommitFinalize(w)
        PROVE  DOMAIN sessions' = DOMAIN sessions
    BY <2>3, ChunkEffect, FinalizeEffect
  <2>4. ASSUME NEW u \in UploadIds, Consumed(u)
        PROVE  DOMAIN sessions' = DOMAIN sessions
    BY <2>4, ConsumeEffect
  <2> QED BY <2>1, <2>2, <2>3, <2>4, KindsOfStep
<1>3. \A n \in named : n[3] \in Named(<<n[1], n[2]>>)
  BY DEF UInv, OneUploadPerKey
<1>4. \A n \in named' : n[3] \in Named(<<n[1], n[2]>>)'
  <2>1. ASSUME NEW n \in named
        PROVE  n[3] \in Named(<<n[1], n[2]>>)'
    BY <1>3, SessionsGrow DEF Named, Grows, Keeps
  <2>2. ASSUME NEW w \in Workers, Answer(w)
        PROVE  \A n \in named' : n \in named \/ n[3] \in Named(<<n[1], n[2]>>)'
    <3>1. PICK u \in DOMAIN sessions :
            /\ UNCHANGED sessions
            /\ \A n \in named' : n \in named \/ n = <<sessions[u].owner, sessions[u].key, u>>
      BY <2>2, AnswerEffect
    <3> QED BY <3>1 DEF Named
  <2> QED BY <2>1, <2>2, ToldKept DEF told
<1>5. \A n, m \in named' : n[1] = m[1] /\ n[2] = m[2] => n[3] = m[3]
  BY <1>2, <1>4 DEF Named
<1> QED BY <1>2, <1>4, <1>5 DEF OneUploadPerKey

-----------------------------------------------------------------------------
(* The invariant, and what follows from it *)

LEMMA InitUInv == Init => UInv
<1> SUFFICES ASSUME Init
             PROVE  UInv
  OBVIOUS
<1>1. sessions = [u \in {} |-> None] /\ DOMAIN sessions = {}
  BY DEF Init
<1>2. TypeOK
  BY <1>1 DEF Init, TypeOK, PCs
<1>3. Locals /\ ReadsStayTrue /\ OwnUploads /\ RepliesTrue
  BY DEF Init, Locals, LocalsHold, ReadsStayTrue, ReadsHold, OwnUploads, RepliesTrue
<1>4. ChunksTile /\ SealedAsDeclared
  BY <1>1 DEF Init, ChunksTile, SealedAsDeclared
<1>5. ToldIsDurable /\ OneUploadPerKey
  BY <1>1 DEF Init, ToldIsDurable, OneUploadPerKey
<1> QED BY <1>2, <1>3, <1>4, <1>5 DEF UInv

LEMMA StepUInv == UInv /\ [Next]_vars => UInv'
BY TypeStep, GoodStep, TablesStep, HeardStep, KeysStep DEF UInv

\* The inductive invariant holds in every reachable state, whatever the number
\* of requests, accounts and uploads, the contents sent and the objects lost.
THEOREM UploadsInvariance == Spec => []UInv
BY InitUInv, StepUInv, PTL DEF Spec

\* Every variable has its type.
THEOREM UploadsTypeCorrect == Spec => []TypeOK
<1>1. UInv => TypeOK
  BY DEF UInv
<1> QED BY <1>1, UploadsInvariance, PTL

\* The chunks of an upload cover the bytes up to its committed offset, each
\* byte once, and a chunk key is bound to one chunk: commitChunk appends only.
THEOREM ChunksCorrect == Spec => []ChunksTile
<1>1. UInv => ChunksTile
  BY DEF UInv
<1> QED BY <1>1, UploadsInvariance, PTL

\* finalizeUpload seals an upload only when it is the declared source, and
\* with the object of that source in the store.
THEOREM SealedCorrect == Spec => []SealedAsDeclared
<1>1. UInv => SealedAsDeclared
  BY DEF UInv
<1> QED BY <1>1, UploadsInvariance, PTL

\* The offsets and states told to callers survive later statements, rollbacks
\* and crashes.
THEOREM ToldCorrect == Spec => []ToldIsDurable
<1>1. UInv => ToldIsDurable
  BY DEF UInv
<1> QED BY <1>1, UploadsInvariance, PTL

\* What openUpload, commitChunk and finalizeUpload have read is still so when
\* they act on it, across the object store's writes between their statements.
THEOREM ReadsCorrect == Spec => []ReadsStayTrue
<1>1. UInv => ReadsStayTrue
  BY DEF UInv
<1> QED BY <1>1, UploadsInvariance, PTL

\* The callers that open with one key are all given the same upload.
THEOREM KeysCorrect == Spec => []OneUploadPerKey
<1>1. UInv => OneUploadPerKey
  BY DEF UInv
<1> QED BY <1>1, UploadsInvariance, PTL

\* An answer is about an upload of the caller's own account, and an opener gets
\* an upload of the source it declared.
THEOREM AnswersCorrect == Spec => []AnswersFit
<1>1. UInv => AnswersFit
  BY DEF UInv, RepliesTrue, ReplyFits, AnswersFit
<1> QED BY <1>1, UploadsInvariance, PTL

\* Sessions keep their declaration, offsets and states only advance, and no
\* committed chunk is removed, whichever statement is executed.
THEOREM GrowCorrect == Spec => UploadsOnlyGrow
<1>1. UInv /\ [Next]_vars =>
        [/\ chunks \subseteq chunks'
         /\ \A u \in DOMAIN sessions :
              /\ u \in DOMAIN sessions'
              /\ sessions[u].offset <= sessions'[u].offset
              /\ Sealed(sessions[u]) => Sealed(sessions'[u]) /\ sessions'[u].offset = sessions[u].offset
              /\ sessions[u].state = "consumed" => sessions'[u].state = "consumed"
              /\ \A field \in {"owner", "key", "size", "digest"} :
                   sessions'[u][field] = sessions[u][field]]_vars
  BY SessionsGrow DEF Grows, Keeps
<1> QED BY <1>1, UploadsInvariance, PTL DEF Spec, UploadsOnlyGrow

\* A retry of a chunk that was committed is acknowledged with its committed
\* offset: the only answer its transaction can give, once it has the upload.
THEOREM RetryCorrect == Spec => CommittedChunkAcknowledged
<1> DEFINE Acknowledged(w) ==
             /\ pc[w] = "check" /\ intent[w].kind = "chunk" /\ pc'[w] = "reply"
             /\ \E c \in BoundChunks(w) : SameChunk(w, c)
             => reply'[w] = Result(intent[w].upload, NextOffset(w), FALSE)
<1>1. ASSUME UInv, [Next]_vars, NEW w \in Workers,
             pc[w] = "check", intent[w].kind = "chunk", pc'[w] = "reply",
             NEW c \in BoundChunks(w), SameChunk(w, c)
      PROVE  reply'[w] = Result(intent[w].upload, NextOffset(w), FALSE)
  <2>1. StepOf(w)
    <3>1. ~Crash
      BY <1>1 DEF Crash
    <3>2. ~Elsewhere(w)
      BY <1>1, ElsewhereAlone DEF LeftAlone
    <3> QED BY <1>1, <3>1, <3>2, StepCases
  <2>2. c \in chunks /\ c.upload = intent[w].upload /\ c.key = intent[w].key
    BY DEF BoundChunks, ChunksOf
  <2>3. \A d \in BoundChunks(w) : d = c
    BY <1>1, <2>2 DEF UInv, ChunksTile, BoundChunks, ChunksOf
  <2>4. ReplayChunk(w)
    <3>1. pc'[w] # "idle" /\ pc'[w] = "reply"
      BY <1>1
    <3>2. ~Fail(w) /\ ~StoreSource(w) /\ ~Answer(w) /\ ~AnswerError(w)
      BY <1>1 DEF Fail, Idle, Goto, StoreSource, Answer, AnswerError, UInv, TypeOK
    <3>3. ~Queued(w) /\ ~ \E i \in Intents : Start(w, i)
      BY <1>1 DEF Queued, EnsureAccount, ClaimKey, LoseRace, LockUpload, Start
    <3>4. /\ ~ReplayOpen(w) /\ ~RefuseOpenKey(w) /\ ~MissSession(w) /\ ~CommitOpen(w)
          /\ ~StoreChunk(w) /\ ~RefuseUpload(w) /\ ~ReplayFinalize(w) /\ ~RefuseIncomplete(w)
          /\ ~RefuseSource(w) /\ ~CommitFinalize(w) /\ ~ReadHead(w)
      BY <1>1 DEF ReplayOpen, RefuseOpenKey, MissSession, CommitOpen, StoreChunk, RefuseUpload,
              ReplayFinalize, RefuseIncomplete, RefuseSource, CommitFinalize, ReadHead
    <3>5. ~RefuseChunkKey(w) /\ ~RefuseSealed(w) /\ ~RefuseOffset(w) /\ ~CommitChunk(w)
      BY <1>1, <2>3 DEF RefuseChunkKey, RefuseSealed, RefuseOffset, CommitChunk
    <3> QED BY <2>1, <3>2, <3>3, <3>4, <3>5 DEF StepOf, Statement
  <2>5. reply'[w] = Result(c.upload, c.start + Len(c.data), FALSE)
    BY <1>1, <2>3, <2>4 DEF ReplayChunk, Tell, Finish, UInv, TypeOK
  <2> QED BY <1>1, <2>2, <2>5 DEF SameChunk, NextOffset
<1>2. UInv /\ [Next]_vars => \A w \in Workers : Acknowledged(w)
  BY <1>1
<1> QED BY <1>2, UploadsInvariance, PTL DEF Spec, CommittedChunkAcknowledged

-----------------------------------------------------------------------------
(* Contents, put together from chunks *)

\* Tiles and Assembled, of any set of chunk rows.
TiledBy(C, n) ==
  /\ \A p \in 1 .. n : \E c \in C : Covers(c, p)
  /\ \A c, d \in C : \A p \in 1 .. n : Covers(c, p) /\ Covers(d, p) => c = d
BytesOf(C, n) ==
  [p \in 1 .. n |-> LET c == CHOOSE c \in C : Covers(c, p) IN c.data[p - c.start]]

LEMMA AssembledFrom ==
  ASSUME NEW u, NEW n
  PROVE  /\ Assembled(u, n) = BytesOf(ChunksOf(u), n)
         /\ Tiles(u, n) => TiledBy(ChunksOf(u), n)
BY DEF Assembled, BytesOf, Tiles, TiledBy

\* Each byte is taken from the one chunk that covers it.
LEMMA ByteAt ==
  ASSUME NEW C, NEW n, TiledBy(C, n), NEW c \in C, NEW p \in 1 .. n, Covers(c, p)
  PROVE  BytesOf(C, n)[p] = c.data[p - c.start]
<1>1. (CHOOSE d \in C : Covers(d, p)) = c
  BY DEF TiledBy
<1> QED BY <1>1 DEF BytesOf

LEMMA BytesType ==
  ASSUME NEW C, NEW n \in Nat, \A c \in C : c \in ChunkRow, TiledBy(C, n)
  PROVE  BytesOf(C, n) \in Content /\ Len(BytesOf(C, n)) = n
<1>1. ASSUME NEW p \in 1 .. n
      PROVE  BytesOf(C, n)[p] \in Bytes
  <2>1. PICK c \in C : Covers(c, p)
    BY DEF TiledBy
  <2>2. c.data \in Seq(Bytes) /\ c.start \in Nat /\ Len(c.data) \in Nat
    BY <2>1, ChunkLength DEF ChunkRow, Content
  <2>3. p - c.start \in 1 .. Len(c.data)
    BY <2>1, <2>2 DEF Covers
  <2>4. c.data[p - c.start] \in Bytes
    BY <2>2, <2>3, ElementOfSeq
  <2> QED BY <2>1, <2>4, ByteAt
<1>2. BytesOf(C, n) \in [1 .. n -> Bytes]
  BY <1>1 DEF BytesOf
<1>3. BytesOf(C, n) \in Seq(Bytes)
  BY <1>2, IsASeq
<1>4. DOMAIN BytesOf(C, n) = 1 .. n /\ DOMAIN BytesOf(C, n) = 1 .. Len(BytesOf(C, n))
  BY <1>2, <1>3, LenProperties
<1>5. Len(BytesOf(C, n)) = n
  BY <1>2, <1>3, <1>4, LenProperties
<1> QED BY <1>3, <1>5 DEF Content

\* Appending a chunk appends its bytes.
LEMMA BytesAppended ==
  ASSUME NEW C, NEW n \in Nat, \A c \in C : c \in ChunkRow, TiledBy(C, n),
         NEW c \in ChunkRow, c.start = n, TiledBy(C \cup {c}, n + Len(c.data))
  PROVE  BytesOf(C \cup {c}, n + Len(c.data)) = BytesOf(C, n) \o c.data
<1> DEFINE m == n + Len(c.data)
           old == BytesOf(C, n)
           new == BytesOf(C \cup {c}, m)
<1>1. c.data \in Seq(Bytes) /\ Len(c.data) \in Nat /\ m \in Nat
  BY ChunkLength DEF ChunkRow, Content
<1>2. old \in Seq(Bytes) /\ Len(old) = n /\ new \in Seq(Bytes) /\ Len(new) = m
  BY <1>1, BytesType DEF Content
<1>3. /\ old \o c.data \in Seq(Bytes) /\ Len(old \o c.data) = m
      /\ \A p \in 1 .. m : (old \o c.data)[p] = IF p <= n THEN old[p] ELSE c.data[p - n]
  <2>1. PICK s : s = old
    OBVIOUS
  <2>2. /\ s \o c.data \in Seq(Bytes) /\ Len(s \o c.data) = Len(s) + Len(c.data)
        /\ \A p \in 1 .. Len(s) + Len(c.data) :
             (s \o c.data)[p] = IF p <= Len(s) THEN s[p] ELSE c.data[p - Len(s)]
    BY <1>1, <1>2, <2>1, ConcatProperties
  <2> QED BY <1>2, <2>1, <2>2
<1>4. ASSUME NEW p \in 1 .. m
      PROVE  new[p] = (old \o c.data)[p]
  <2>0. p \in Nat /\ 1 <= p /\ p <= m
    BY <1>1
  <2>1. CASE p <= n
    <3>1. p \in 1 .. n
      BY <2>0, <2>1
    <3>2. PICK d \in C : Covers(d, p)
      BY <3>1 DEF TiledBy
    <3>3. old[p] = d.data[p - d.start]
      BY <3>1, <3>2, ByteAt
    <3>4. new[p] = d.data[p - d.start]
      BY <3>2, ByteAt
    <3> QED BY <1>3, <2>1, <3>3, <3>4
  <2>2. CASE ~(p <= n)
    <3>1. Covers(c, p)
      BY <1>1, <2>0, <2>2 DEF Covers
    <3>2. new[p] = c.data[p - n]
      BY <3>1, ByteAt
    <3> QED BY <1>3, <2>2, <3>2
  <2> QED BY <2>1, <2>2
<1> HIDE DEF old, new, m
<1>5. new = old \o c.data
  BY <1>2, <1>3, <1>4, SeqEqual
<1> QED BY <1>5 DEF old, new, m

-----------------------------------------------------------------------------
(* The uploads implement ByteLog *)

SlotOf(u) == <<sessions[u].owner, sessions[u].key>>
\* Each opened key stands for the one session it opened.
Indexed ==
  /\ KeysOpened = {SlotOf(u) : u \in DOMAIN sessions}
  /\ \A u \in DOMAIN sessions : SessionOf(SlotOf(u)) = u
  /\ \A u \in DOMAIN sessions : SourcesOpened[SlotOf(u)] = SourceOf(u)
  /\ \A u \in DOMAIN sessions : HeardOfKeys[SlotOf(u)] = heard[u]
  /\ DOMAIN SourcesOpened = KeysOpened /\ DOMAIN HeardOfKeys = KeysOpened
  /\ SourcesOpened = [s \in KeysOpened |-> SourcesOpened[s]]
  /\ HeardOfKeys = [s \in KeysOpened |-> HeardOfKeys[s]]

LEMMA IndexedNow == UInv => Indexed
<1> SUFFICES ASSUME UInv
             PROVE  Indexed
  OBVIOUS
<1>1. KeysOpened = {SlotOf(u) : u \in DOMAIN sessions}
  BY DEF KeysOpened, SlotOf
<1>2. ASSUME NEW u \in DOMAIN sessions
      PROVE  SessionOf(SlotOf(u)) = u
  BY DEF UInv, OneUploadPerKey, SessionOf, SlotOf
<1>3. ASSUME NEW u \in DOMAIN sessions
      PROVE  SourcesOpened[SlotOf(u)] = SourceOf(u) /\ HeardOfKeys[SlotOf(u)] = heard[u]
  BY <1>1, <1>2 DEF SourcesOpened, HeardOfKeys
<1>4. /\ DOMAIN SourcesOpened = KeysOpened /\ DOMAIN HeardOfKeys = KeysOpened
      /\ SourcesOpened = [s \in KeysOpened |-> SourcesOpened[s]]
      /\ HeardOfKeys = [s \in KeysOpened |-> HeardOfKeys[s]]
  BY DEF SourcesOpened, HeardOfKeys
<1> QED BY <1>1, <1>2, <1>3, <1>4 DEF Indexed

LEMMA IndexedNext == UInv' => Indexed'
BY IndexedNow, PTL

\* The bytes of a session are a content of its committed length.
LEMMA SourceBytes ==
  ASSUME UInv, NEW u \in DOMAIN sessions
  PROVE  /\ SourceOf(u).bytes = BytesOf(ChunksOf(u), sessions[u].offset)
         /\ SourceOf(u).bytes \in Content /\ Len(SourceOf(u).bytes) = sessions[u].offset
         /\ SourceOf(u).size = sessions[u].size /\ SourceOf(u).digest = sessions[u].digest
         /\ SourceOf(u).sealed = Sealed(sessions[u])
         /\ TiledBy(ChunksOf(u), sessions[u].offset)
         /\ \A c \in ChunksOf(u) : c \in ChunkRow
         /\ sessions[u].offset \in Nat /\ sessions[u].size \in Nat
<1>1. sessions[u].offset \in Nat /\ sessions[u].size \in Nat
  BY SessionType DEF UInv
<1>2. TiledBy(ChunksOf(u), sessions[u].offset)
  BY AssembledFrom DEF UInv, ChunksTile
<1>3. \A c \in ChunksOf(u) : c \in ChunkRow
  BY DEF ChunksOf, UInv, TypeOK
<1>4. SourceOf(u).bytes = BytesOf(ChunksOf(u), sessions[u].offset)
  BY AssembledFrom DEF SourceOf
<1>5. SourceOf(u).bytes \in Content /\ Len(SourceOf(u).bytes) = sessions[u].offset
  BY <1>1, <1>2, <1>3, <1>4, BytesType
<1> QED BY <1>1, <1>2, <1>3, <1>4, <1>5 DEF SourceOf

\* A step that opens no upload leaves the keys as they are.
LEMMA SlotsKept ==
  ASSUME UInv, UInv', [Next]_vars, DOMAIN sessions' = DOMAIN sessions
  PROVE  /\ KeysOpened' = KeysOpened
         /\ \A u \in DOMAIN sessions : SlotOf(u)' = SlotOf(u)
         /\ \A u \in DOMAIN sessions :
              SourcesOpened'[SlotOf(u)] = SourceOf(u)' /\ HeardOfKeys'[SlotOf(u)] = heard'[u]
<1>1. \A u \in DOMAIN sessions : SlotOf(u)' = SlotOf(u)
  BY SessionsGrow DEF SlotOf, Grows, Keeps
<1>2. Indexed /\ Indexed'
  BY IndexedNow, IndexedNext
<1>3. KeysOpened' = KeysOpened
  BY <1>1, <1>2 DEF Indexed
<1>4. ASSUME NEW u \in DOMAIN sessions
      PROVE  SourcesOpened'[SlotOf(u)] = SourceOf(u)' /\ HeardOfKeys'[SlotOf(u)] = heard'[u]
  <2>1. SourcesOpened'[SlotOf(u)'] = SourceOf(u)' /\ HeardOfKeys'[SlotOf(u)'] = heard'[u]
    BY <1>2 DEF Indexed
  <2> QED BY <1>1, <2>1
<1> QED BY <1>1, <1>3, <1>4

\* Sources that do not change: a session whose chunks and row, up to finalized
\* or consumed, are the same.
LEMMA SourceKept ==
  ASSUME NEW u \in DOMAIN sessions, ChunksOf(u)' = ChunksOf(u),
         Keeps(u, {"size", "digest", "offset"}), Sealed(sessions'[u]) = Sealed(sessions[u])
  PROVE  SourceOf(u)' = SourceOf(u)
<1>1. Assembled(u, sessions[u].offset)' = Assembled(u, sessions[u].offset)
  BY DEF Assembled, Keeps
<1> QED BY <1>1 DEF SourceOf, Keeps, Sealed

\* When one source changes, and callers are told nothing.
LEMMA OneSource ==
  ASSUME UInv, UInv', [Next]_vars, DOMAIN sessions' = DOMAIN sessions, heard' = heard,
         NEW u \in DOMAIN sessions,
         \A x \in DOMAIN sessions : x # u => SourceOf(x)' = SourceOf(x)
  PROVE  /\ SlotOf(u) \in DOMAIN SourcesOpened
         /\ SourcesOpened[SlotOf(u)] = SourceOf(u)
         /\ SourcesOpened' = [SourcesOpened EXCEPT ![SlotOf(u)] = SourceOf(u)']
         /\ HeardOfKeys' = HeardOfKeys
<1>1. Indexed /\ Indexed'
  BY IndexedNow, IndexedNext
<1>2. /\ KeysOpened' = KeysOpened
      /\ \A x \in DOMAIN sessions :
           SourcesOpened'[SlotOf(x)] = SourceOf(x)' /\ HeardOfKeys'[SlotOf(x)] = heard'[x]
  BY SlotsKept
<1>3. /\ \A s \in KeysOpened : \E x \in DOMAIN sessions : s = SlotOf(x)
      /\ DOMAIN SourcesOpened = KeysOpened /\ DOMAIN HeardOfKeys = KeysOpened
      /\ \A x \in DOMAIN sessions : /\ SlotOf(x) \in KeysOpened
                                    /\ SourcesOpened[SlotOf(x)] = SourceOf(x)
                                    /\ HeardOfKeys[SlotOf(x)] = heard[x]
  BY <1>1 DEF Indexed
<1>4. \A x \in DOMAIN sessions : SlotOf(x) = SlotOf(u) => x = u
  BY DEF UInv, OneUploadPerKey, SlotOf
<1>5. HeardOfKeys' = HeardOfKeys
  <2>1. \A s \in KeysOpened : HeardOfKeys'[s] = HeardOfKeys[s]
    BY <1>2, <1>3
  <2> QED BY <1>1, <1>2, <2>1 DEF Indexed
<1>6. SourcesOpened' = [SourcesOpened EXCEPT ![SlotOf(u)] = SourceOf(u)']
  <2> DEFINE updated == [SourcesOpened EXCEPT ![SlotOf(u)] = SourceOf(u)']
  <2>1. ASSUME NEW x \in DOMAIN sessions
        PROVE  SourcesOpened'[SlotOf(x)] = updated[SlotOf(x)]
    <3>1. SlotOf(x) \in DOMAIN SourcesOpened
      BY <1>1 DEF Indexed
    <3>2. CASE x = u
      BY <1>2, <3>1, <3>2
    <3>3. CASE x # u
      BY <1>2, <1>3, <1>4, <3>1, <3>3
    <3> QED BY <3>2, <3>3
  <2>2. \A s \in KeysOpened : SourcesOpened'[s] = updated[s]
    BY <1>3, <2>1
  <2> QED BY <1>1, <1>2, <2>2 DEF Indexed
<1> QED BY <1>1, <1>5, <1>6 DEF Indexed

LEMMA SourcesStutter ==
  ASSUME UInv, UInv', [Next]_vars, DOMAIN sessions' = DOMAIN sessions, heard' = heard,
         \A x \in DOMAIN sessions : SourceOf(x)' = SourceOf(x)
  PROVE  UNCHANGED <<SourcesOpened, HeardOfKeys>>
<1>1. Indexed /\ Indexed'
  BY IndexedNow, IndexedNext
<1>2. /\ KeysOpened' = KeysOpened
      /\ \A x \in DOMAIN sessions :
           SourcesOpened'[SlotOf(x)] = SourceOf(x)' /\ HeardOfKeys'[SlotOf(x)] = heard'[x]
  BY SlotsKept
<1>3. /\ \A s \in KeysOpened : \E x \in DOMAIN sessions : s = SlotOf(x)
      /\ DOMAIN SourcesOpened = KeysOpened /\ DOMAIN HeardOfKeys = KeysOpened
      /\ \A x \in DOMAIN sessions : /\ SlotOf(x) \in KeysOpened
                                    /\ SourcesOpened[SlotOf(x)] = SourceOf(x)
                                    /\ HeardOfKeys[SlotOf(x)] = heard[x]
  BY <1>1 DEF Indexed
<1>4. \A s \in KeysOpened : SourcesOpened'[s] = SourcesOpened[s] /\ HeardOfKeys'[s] = HeardOfKeys[s]
  BY <1>2, <1>3
<1> QED BY <1>1, <1>2, <1>4 DEF Indexed

\* A committed open begins an empty source under a slot that had none.
LEMMA OpenImplements ==
  ASSUME UInv, UInv', [Next]_vars, NEW w \in Workers, CommitOpen(w)
  PROVE  \E s \in Owners \X Keys : Source!Open(s)
<1>1. PICK u \in UploadIds \ DOMAIN sessions :
        /\ DOMAIN sessions' = DOMAIN sessions \cup {u}
        /\ \A x \in DOMAIN sessions : sessions'[x] = sessions[x]
        /\ sessions'[u] = [owner |-> Mine(w), key |-> intent[w].key, size |-> intent[w].size,
                           digest |-> intent[w].data, offset |-> 0, state |-> "uploading"]
        /\ Finish(w, Result(u, 0, FALSE))
        /\ <<Mine(w), intent[w].key>> = Slot(w) /\ Named(Slot(w)) = {}
        /\ chunks' = chunks
  BY OpenEffect
<1>2. PICK s, i : s = Slot(w) /\ i = intent[w]
  OBVIOUS
<1>3. /\ s \in Owners \X Keys /\ i \in Intents /\ i.kind = "open"
      /\ i.size \in Nat /\ i.data \in Content
  BY <1>2, Running DEF CommitOpen, Opening, UInv, LocalsHold
<1>4. SlotOf(u)' = s
  BY <1>1, <1>2 DEF SlotOf
<1>5. \A x \in DOMAIN sessions : SlotOf(x)' = SlotOf(x) /\ SourceOf(x)' = SourceOf(x)
  <2>1. ASSUME NEW x \in DOMAIN sessions
        PROVE  SlotOf(x)' = SlotOf(x) /\ SourceOf(x)' = SourceOf(x)
    <3>1. sessions'[x] = sessions[x] /\ ChunksOf(x)' = ChunksOf(x)
      BY <1>1 DEF ChunksOf
    <3> QED BY <3>1, SourceKept DEF SlotOf, Keeps
  <2> QED BY <2>1
<1>6. Indexed /\ Indexed' /\ heard' = heard
  BY <1>1, IndexedNow, IndexedNext DEF Finish, told
<1>7. KeysOpened' = KeysOpened \cup {s} /\ s \notin KeysOpened
  <2>1. KeysOpened' = KeysOpened \cup {s}
    BY <1>1, <1>4, <1>5, <1>6 DEF Indexed
  <2>2. s \notin KeysOpened
    BY <1>1, <1>2 DEF KeysOpened, Named
  <2> QED BY <2>1, <2>2
<1>8. SourceOf(u)' = [size |-> i.size, digest |-> i.data, bytes |-> <<>>, sealed |-> FALSE]
  <2>1. sessions'[u].size = i.size /\ sessions'[u].digest = i.data /\ sessions'[u].offset = 0
        /\ Sealed(sessions'[u]) = FALSE
    BY <1>1, <1>2 DEF Sealed
  <2>2. SourceOf(u)'.bytes = <<>>
    <3>1. /\ SourceOf(u)'.bytes = Assembled(u, sessions[u].offset)'
          /\ Assembled(u, sessions[u].offset)' = BytesOf(ChunksOf(u)', 0)
      BY <2>1 DEF SourceOf, Assembled, BytesOf
    <3>2. ChunksOf(u)' = {}
      BY <1>1 DEF ChunksOf, UInv, ChunksTile
    <3>3. BytesOf({}, 0) \in Content /\ Len(BytesOf({}, 0)) = 0
      BY BytesType DEF TiledBy
    <3>4. BytesOf({}, 0) = <<>>
      BY <3>3, EmptySeq DEF Content
    <3> QED BY <3>1, <3>2, <3>4
  <2>3. SourceOf(u)' = [size |-> sessions'[u].size, digest |-> sessions'[u].digest,
                        bytes |-> SourceOf(u)'.bytes, sealed |-> Sealed(sessions'[u])]
    BY DEF SourceOf, Sealed
  <2> QED BY <2>1, <2>2, <2>3
<1>9. heard[u] = [offset |-> 0, sealed |-> FALSE]
  <2>1. heard[u] \in [offset: Nat, sealed: BOOLEAN]
    BY DEF UInv, TypeOK
  <2>2. ~(heard[u].offset > 0) /\ ~heard[u].sealed
    BY <1>1 DEF UInv, ToldIsDurable
  <2>3. heard[u].offset = 0
    BY <2>1, <2>2
  <2>4. heard[u].sealed = FALSE
    BY <2>1, <2>2
  <2>5. heard[u] = [offset |-> heard[u].offset, sealed |-> heard[u].sealed]
    BY <2>1
  <2> QED BY <2>3, <2>4, <2>5
<1>10. /\ \A t \in KeysOpened : \E x \in DOMAIN sessions : t = SlotOf(x)
      /\ \A x \in DOMAIN sessions : /\ SourcesOpened[SlotOf(x)] = SourceOf(x)
                                    /\ HeardOfKeys[SlotOf(x)] = heard[x]
  BY <1>6 DEF Indexed
<1>11. \A x \in DOMAIN sessions' : /\ SourcesOpened'[SlotOf(x)'] = SourceOf(x)'
                                   /\ HeardOfKeys'[SlotOf(x)'] = heard'[x]
  BY <1>6 DEF Indexed
<1>12. SourcesOpened' = Source!Extend(SourcesOpened, s, SourceOf(u)')
  <2>1. /\ SourcesOpened'[s] = SourceOf(u)'
        /\ \A t \in KeysOpened : SourcesOpened'[t] = SourcesOpened[t]
    BY <1>10, <1>11, <1>1, <1>4, <1>5
  <2>2. \A t \in KeysOpened' :
          SourcesOpened'[t] = IF t = s THEN SourceOf(u)' ELSE SourcesOpened[t]
    BY <1>7, <2>1
  <2>3. SourcesOpened' = [t \in KeysOpened' |-> SourcesOpened'[t]] /\ DOMAIN SourcesOpened = KeysOpened
    BY <1>6 DEF Indexed
  <2> QED BY <1>7, <2>2, <2>3 DEF Source!Extend
<1>13. HeardOfKeys' = Source!Extend(HeardOfKeys, s, heard[u])
  <2>1. /\ HeardOfKeys'[s] = heard'[u]
        /\ \A t \in KeysOpened : HeardOfKeys'[t] = HeardOfKeys[t]
    BY <1>10, <1>11, <1>1, <1>4, <1>5, <1>6
  <2>2. \A t \in KeysOpened' :
          HeardOfKeys'[t] = IF t = s THEN heard[u] ELSE HeardOfKeys[t]
    BY <1>6, <1>7, <2>1
  <2>3. HeardOfKeys' = [t \in KeysOpened' |-> HeardOfKeys'[t]] /\ DOMAIN HeardOfKeys = KeysOpened
    BY <1>6 DEF Indexed
  <2> QED BY <1>7, <2>2, <2>3 DEF Source!Extend
<1>14. [size |-> i.size, digest |-> i.data] \in Source!Declared
  BY <1>3 DEF Source!Declared
<1>15. s \notin DOMAIN SourcesOpened
  BY <1>6, <1>7 DEF Indexed
<1>16. Source!Open(s)
  <2>1. PICK d : d = [size |-> i.size, digest |-> i.data]
    OBVIOUS
  <2>2. SourcesOpened' = Source!Extend(SourcesOpened, s, [size |-> d.size, digest |-> d.digest,
                                                          bytes |-> <<>>, sealed |-> FALSE])
    BY <1>8, <1>12, <2>1
  <2> QED BY <1>9, <1>13, <1>14, <1>15, <2>1, <2>2 DEF Source!Open
<1> QED BY <1>3, <1>16

\* A committed chunk appends its bytes to the source of its session.
LEMMA ChunkImplements ==
  ASSUME UInv, UInv', [Next]_vars, NEW w \in Workers, CommitChunk(w)
  PROVE  \E s \in DOMAIN SourcesOpened : Source!AppendBytes(s)
<1>1. PICK u, c, n : /\ u = intent[w].upload /\ n = sessions[u].offset
                     /\ c = [upload |-> u, key |-> intent[w].key, start |-> n,
                             data |-> intent[w].data]
  OBVIOUS
<1>2. /\ u \in DOMAIN sessions /\ ~Sealed(sessions[u])
      /\ DOMAIN sessions' = DOMAIN sessions
      /\ \A x \in DOMAIN sessions : x # u => sessions'[x] = sessions[x]
      /\ Keeps(u, {"size", "digest", "state"})
      /\ sessions'[u].offset = n + Len(c.data)
      /\ sessions'[u].offset <= sessions[u].size
      /\ chunks' = chunks \cup {c} /\ c \in ChunkRow /\ c.start = n /\ c.upload = u
      /\ Finish(w, Result(u, sessions'[u].offset, FALSE))
  <2>1. /\ u \in DOMAIN sessions /\ ~Sealed(sessions[u]) /\ Keeps(u, {"owner", "key", "size", "digest", "state"})
        /\ DOMAIN sessions' = DOMAIN sessions
        /\ \A x \in DOMAIN sessions : x # u => sessions'[x] = sessions[x]
        /\ sessions'[u].offset = n + Len(c.data)
        /\ sessions'[u].offset <= sessions[u].size
        /\ chunks' = chunks \cup {c} /\ c \in ChunkRow
        /\ Finish(w, Result(u, sessions'[u].offset, FALSE))
    <3> DEFINE v == intent[w].upload
    <3>1. c = [upload |-> v, key |-> intent[w].key,
               start |-> sessions[v].offset, data |-> intent[w].data]
      BY <1>1
    <3>2. /\ v \in DOMAIN sessions /\ ~Sealed(sessions[v]) /\ Keeps(v, {"owner", "key", "size", "digest", "state"})
          /\ DOMAIN sessions' = DOMAIN sessions
          /\ \A x \in DOMAIN sessions : x # v => sessions'[x] = sessions[x]
          /\ sessions'[v].offset = sessions[v].offset + Len(c.data)
          /\ sessions'[v].offset <= sessions[v].size
          /\ chunks' = chunks \cup {c} /\ c \in ChunkRow
          /\ Finish(w, Result(v, sessions'[v].offset, FALSE))
      BY <3>1, ChunkEffect
    <3>3. u = v /\ n = sessions[v].offset
      BY <1>1
    <3> HIDE DEF v
    <3> QED BY <3>2, <3>3
  <2>2. Keeps(u, {"size", "digest", "state"})
    BY <2>1 DEF Keeps
  <2>3. c.start = n /\ c.upload = u
    BY <1>1
  <2> QED BY <2>1, <2>2, <2>3
<1>3. heard' = heard /\ ChunksOf(u)' = ChunksOf(u) \cup {c}
  BY <1>2 DEF Finish, told, ChunksOf
<1>4. \A x \in DOMAIN sessions : x # u => SourceOf(x)' = SourceOf(x)
  <2>1. ASSUME NEW x \in DOMAIN sessions, x # u
        PROVE  SourceOf(x)' = SourceOf(x)
    <3>1. sessions'[x] = sessions[x] /\ ChunksOf(x)' = ChunksOf(x)
      BY <1>2, <2>1, ChunksKept
    <3> QED BY <3>1, SourceKept DEF Keeps
  <2> QED BY <2>1
<1>5. PICK s : s = SlotOf(u)
  OBVIOUS
<1>6. /\ s \in DOMAIN SourcesOpened /\ SourcesOpened[s] = SourceOf(u)
      /\ SourcesOpened' = [SourcesOpened EXCEPT ![s] = SourceOf(u)']
      /\ HeardOfKeys' = HeardOfKeys
  BY <1>2, <1>3, <1>4, <1>5, OneSource
<1>7. /\ SourceOf(u).bytes = BytesOf(ChunksOf(u), n) /\ Len(SourceOf(u).bytes) = n
      /\ TiledBy(ChunksOf(u), n) /\ \A d \in ChunksOf(u) : d \in ChunkRow
      /\ n \in Nat /\ SourceOf(u).size = sessions[u].size
      /\ SourceOf(u).sealed = Sealed(sessions[u])
  <2>1. /\ \A d \in ChunksOf(u) : d \in ChunkRow
        /\ SourceOf(u).bytes = BytesOf(ChunksOf(u), n) /\ Len(SourceOf(u).bytes) = n
    BY <1>1, <1>2, SourceBytes
  <2> QED BY <1>1, <1>2, <2>1, SourceBytes
<1>8. TiledBy(ChunksOf(u) \cup {c}, n + Len(c.data))
  <2>1. Tiles(u, sessions[u].offset)'
    BY <1>2 DEF UInv, ChunksTile
  <2> QED BY <1>2, <1>3, <2>1 DEF Tiles, TiledBy
<1>9. BytesOf(ChunksOf(u) \cup {c}, n + Len(c.data)) = BytesOf(ChunksOf(u), n) \o c.data
  <2>1. PICK C : C = ChunksOf(u)
    OBVIOUS
  <2> QED BY <1>2, <1>7, <1>8, <2>1, BytesAppended
<1>10. SourceOf(u)' = [SourceOf(u) EXCEPT !.bytes = SourceOf(u).bytes \o c.data]
  <2>1. SourceOf(u)'.bytes = SourceOf(u).bytes \o c.data
    <3>1. SourceOf(u)'.bytes = BytesOf(ChunksOf(u)', sessions'[u].offset)
      BY DEF SourceOf, Assembled, BytesOf
    <3> QED BY <1>2, <1>3, <1>7, <1>9, <3>1
  <2>2. /\ sessions'[u].size = sessions[u].size /\ sessions'[u].digest = sessions[u].digest
        /\ Sealed(sessions'[u]) = Sealed(sessions[u])
    BY <1>2 DEF Keeps, Sealed
  <2>3. SourceOf(u)' = [size |-> sessions'[u].size, digest |-> sessions'[u].digest,
                        bytes |-> SourceOf(u)'.bytes, sealed |-> Sealed(sessions'[u])]
    BY DEF SourceOf, Sealed
  <2>4. SourceOf(u) = [size |-> sessions[u].size, digest |-> sessions[u].digest,
                       bytes |-> SourceOf(u).bytes, sealed |-> Sealed(sessions[u])]
    BY DEF SourceOf, Sealed
  <2> QED BY <2>1, <2>2, <2>3, <2>4
<1>11. c.data \in Source!Pieces
  <2>1. intent[w] \in Intents /\ intent[w].kind = "chunk" /\ c.data = intent[w].data
    BY <1>1, Running DEF CommitChunk, UInv
  <2> QED BY <2>1 DEF Source!Pieces
<1>12. Source!AppendBytes(s)
  <2>1. SourcesOpened' = [SourcesOpened EXCEPT ![s].bytes = @ \o c.data]
    BY <1>6, <1>10
  <2>2. ~SourcesOpened[s].sealed
    BY <1>2, <1>6, <1>7
  <2>3. Len(SourcesOpened[s].bytes) + Len(c.data) <= SourcesOpened[s].size
    BY <1>2, <1>6, <1>7
  <2> QED BY <1>6, <1>11, <2>1, <2>2, <2>3 DEF Source!AppendBytes
<1> QED BY <1>6, <1>12

\* A committed finalization seals the source of its session.
LEMMA FinalizeImplements ==
  ASSUME UInv, UInv', [Next]_vars, NEW w \in Workers, CommitFinalize(w)
  PROVE  \E s \in DOMAIN SourcesOpened : Source!Seal(s)
<1>1. PICK u : u = intent[w].upload
  OBVIOUS
<1>2. /\ u \in DOMAIN sessions /\ ~Sealed(sessions[u])
      /\ DOMAIN sessions' = DOMAIN sessions
      /\ \A x \in DOMAIN sessions : x # u => sessions'[x] = sessions[x]
      /\ Keeps(u, {"size", "digest", "offset"}) /\ sessions'[u].state = "finalized"
      /\ sessions[u].offset = sessions[u].size
      /\ Assembled(u, sessions[u].size) = sessions[u].digest
      /\ Finish(w, Result(u, sessions[u].offset, TRUE)) /\ chunks' = chunks
  BY <1>1, FinalizeEffect DEF Keeps
<1>3. heard' = heard /\ \A x : ChunksOf(x)' = ChunksOf(x)
  BY <1>2 DEF Finish, told, ChunksOf
<1>4. \A x \in DOMAIN sessions : x # u => SourceOf(x)' = SourceOf(x)
  BY <1>2, <1>3, SourceKept DEF Keeps
<1>5. PICK s : s = SlotOf(u)
  OBVIOUS
<1>6. /\ s \in DOMAIN SourcesOpened /\ SourcesOpened[s] = SourceOf(u)
      /\ SourcesOpened' = [SourcesOpened EXCEPT ![s] = SourceOf(u)']
      /\ HeardOfKeys' = HeardOfKeys
  BY <1>2, <1>3, <1>4, <1>5, OneSource
<1>7. /\ Len(SourceOf(u).bytes) = sessions[u].offset
      /\ SourceOf(u).size = sessions[u].size /\ SourceOf(u).digest = sessions[u].digest
      /\ SourceOf(u).sealed = Sealed(sessions[u])
  BY <1>2, SourceBytes
<1>8. SourceOf(u).bytes = SourceOf(u).digest
  BY <1>2 DEF SourceOf
<1>9. SourceOf(u)' = [SourceOf(u) EXCEPT !.sealed = TRUE]
  <2>1. Assembled(u, sessions[u].offset)' = Assembled(u, sessions[u].offset)
    BY <1>2, <1>3 DEF Assembled, Keeps
  <2>2. /\ sessions'[u].size = sessions[u].size /\ sessions'[u].digest = sessions[u].digest
        /\ Sealed(sessions'[u]) = TRUE
    BY <1>2 DEF Keeps, Sealed
  <2>3. SourceOf(u)' = [size |-> sessions'[u].size, digest |-> sessions'[u].digest,
                        bytes |-> Assembled(u, sessions[u].offset)', sealed |-> Sealed(sessions'[u])]
    BY DEF SourceOf, Sealed
  <2>4. SourceOf(u) = [size |-> sessions[u].size, digest |-> sessions[u].digest,
                       bytes |-> Assembled(u, sessions[u].offset), sealed |-> Sealed(sessions[u])]
    BY DEF SourceOf
  <2>5. PICK size, digest, bytes, sealed, yes :
          /\ size = sessions[u].size /\ digest = sessions[u].digest /\ yes = TRUE
          /\ bytes = Assembled(u, sessions[u].offset) /\ sealed = Sealed(sessions[u])
    OBVIOUS
  <2>6. /\ SourceOf(u) = [size |-> size, digest |-> digest, bytes |-> bytes, sealed |-> sealed]
        /\ SourceOf(u)' = [size |-> size, digest |-> digest, bytes |-> bytes, sealed |-> yes]
    BY <2>1, <2>2, <2>3, <2>4, <2>5
  <2>7. SourceOf(u)' = [SourceOf(u) EXCEPT !.sealed = yes]
    BY <2>6
  <2> QED BY <2>5, <2>7
<1>10. Source!Seal(s)
  BY <1>2, <1>6, <1>7, <1>8, <1>9 DEF Source!Seal
<1> QED BY <1>6, <1>10

\* An answer that arrives tells an offset the source has reached.
LEMMA AnswerImplements ==
  ASSUME UInv, UInv', [Next]_vars, NEW w \in Workers, Answer(w)
  PROVE  \E s \in DOMAIN SourcesOpened : Source!Tell(s)
<1>1. PICK u \in DOMAIN sessions, r \in Reply :
        /\ u \in UploadIds /\ UNCHANGED <<sessions, chunks>>
        /\ r.offset <= sessions[u].offset
        /\ r.sealed => Sealed(sessions[u])
        /\ heard' = [heard EXCEPT ![u] =
                       [offset |-> IF r.offset > @.offset THEN r.offset ELSE @.offset,
                        sealed |-> r.sealed \/ @.sealed]]
  BY AnswerEffect
<1>2. PICK s : s = SlotOf(u)
  OBVIOUS
<1>3. /\ KeysOpened' = KeysOpened /\ DOMAIN sessions' = DOMAIN sessions
      /\ \A x \in DOMAIN sessions :
           SourcesOpened'[SlotOf(x)] = SourceOf(x)' /\ HeardOfKeys'[SlotOf(x)] = heard'[x]
  BY <1>1, SlotsKept
<1>4. \A x \in DOMAIN sessions : SourceOf(x)' = SourceOf(x)
  BY <1>1, SourceKept DEF Keeps, ChunksOf
<1>5. Indexed /\ Indexed'
  BY IndexedNow, IndexedNext
<1>6. /\ \A t \in KeysOpened : \E x \in DOMAIN sessions : t = SlotOf(x)
      /\ DOMAIN SourcesOpened = KeysOpened /\ DOMAIN HeardOfKeys = KeysOpened
      /\ \A x \in DOMAIN sessions : /\ SlotOf(x) \in KeysOpened
                                    /\ SourcesOpened[SlotOf(x)] = SourceOf(x)
                                    /\ HeardOfKeys[SlotOf(x)] = heard[x]
  BY <1>5 DEF Indexed
<1>7. SourcesOpened' = SourcesOpened
  <2>1. \A t \in KeysOpened : SourcesOpened'[t] = SourcesOpened[t]
    BY <1>3, <1>4, <1>6
  <2> QED BY <1>3, <1>5, <2>1 DEF Indexed
<1>8. PICK n, sealed :
        /\ n = IF r.offset > heard[u].offset THEN r.offset ELSE heard[u].offset
        /\ sealed = (r.sealed \/ heard[u].sealed)
  OBVIOUS
<1>9. heard' = [heard EXCEPT ![u] = [offset |-> n, sealed |-> sealed]]
  BY <1>1, <1>8
<1>10. HeardOfKeys' = [HeardOfKeys EXCEPT ![s] = [offset |-> n, sealed |-> sealed]]
  <2> DEFINE updated == [HeardOfKeys EXCEPT ![s] = [offset |-> n, sealed |-> sealed]]
  <2>1. ASSUME NEW x \in DOMAIN sessions
        PROVE  HeardOfKeys'[SlotOf(x)] = updated[SlotOf(x)]
    <3>1. SlotOf(x) \in DOMAIN HeardOfKeys /\ HeardOfKeys'[SlotOf(x)] = heard'[x]
      BY <1>3, <1>6
    <3>2. CASE x = u
      BY <1>1, <1>2, <1>9, <3>1, <3>2 DEF UInv, TypeOK
    <3>3. CASE x # u
      <4>1. SlotOf(x) # s
        BY <1>2, <3>3 DEF UInv, OneUploadPerKey, SlotOf
      <4>2. heard'[x] = heard[x]
        BY <1>1, <1>9, <3>3, SessionType DEF UInv, TypeOK
      <4> QED BY <1>6, <3>1, <4>1, <4>2
    <3> QED BY <3>2, <3>3
  <2>2. \A t \in KeysOpened : HeardOfKeys'[t] = updated[t]
    BY <1>6, <2>1
  <2>3. HeardOfKeys' = [t \in KeysOpened |-> HeardOfKeys'[t]]
    BY <1>3, <1>5 DEF Indexed
  <2> QED BY <1>6, <2>2, <2>3
<1>11. /\ HeardOfKeys[s] = heard[u] /\ SourcesOpened[s] = SourceOf(u) /\ s \in DOMAIN SourcesOpened
       /\ Len(SourceOf(u).bytes) = sessions[u].offset
       /\ SourceOf(u).sealed = Sealed(sessions[u]) /\ sessions[u].offset \in Nat
  BY <1>2, <1>6, SourceBytes
<1>12. n \in HeardOfKeys[s].offset .. Len(SourcesOpened[s].bytes)
  <2>1. r.offset \in Nat /\ heard[u].offset \in Nat
    BY <1>1 DEF Reply, UInv, TypeOK
  <2>2. heard[u].offset <= sessions[u].offset
    BY <1>1, <1>11, <2>1 DEF UInv, ToldIsDurable
  <2> QED BY <1>1, <1>8, <1>11, <2>1, <2>2
<1>13. sealed \in {HeardOfKeys[s].sealed, SourcesOpened[s].sealed}
  <2>1. r.sealed \in BOOLEAN /\ heard[u].sealed \in BOOLEAN /\ Sealed(sessions[u]) \in BOOLEAN
    BY <1>1 DEF Reply, UInv, TypeOK, Sealed
  <2>2. sealed = heard[u].sealed \/ sealed = Sealed(sessions[u])
    BY <1>1, <1>8, <2>1
  <2> QED BY <1>11, <2>2
<1>14. Source!Tell(s)
  BY <1>7, <1>10, <1>12, <1>13 DEF Source!Tell
<1> QED BY <1>11, <1>14

LEMMA UploadsStepImplements ==
  UInv /\ UInv' /\ [Next]_vars => [Source!Next]_<<SourcesOpened, HeardOfKeys>>
<1> SUFFICES ASSUME UInv, UInv', [Next]_vars
             PROVE  Source!Next \/ UNCHANGED <<SourcesOpened, HeardOfKeys>>
  OBVIOUS
<1>1. ASSUME NEW w \in Workers, CommitOpen(w)
      PROVE  Source!Next
  BY <1>1, OpenImplements DEF Source!Next
<1>2. ASSUME NEW w \in Workers, CommitChunk(w) \/ CommitFinalize(w) \/ Answer(w)
      PROVE  Source!Next
  BY <1>2, ChunkImplements, FinalizeImplements, AnswerImplements DEF Source!Next
<1>3. CASE UNCHANGED told /\ UNCHANGED <<sessions, chunks>>
  <2>1. \A x \in DOMAIN sessions : SourceOf(x)' = SourceOf(x)
    BY <1>3, SourceKept DEF Keeps, ChunksOf
  <2> QED BY <1>3, <2>1, SourcesStutter DEF told
<1>4. ASSUME NEW u \in UploadIds, Consumed(u)
      PROVE  UNCHANGED <<SourcesOpened, HeardOfKeys>>
  <2>1. /\ u \in DOMAIN sessions /\ sessions[u].state = "finalized"
        /\ DOMAIN sessions' = DOMAIN sessions
        /\ \A x \in DOMAIN sessions : x # u => sessions'[x] = sessions[x]
        /\ Keeps(u, {"size", "digest", "offset"})
        /\ sessions'[u].state = "consumed" /\ chunks' = chunks
    BY <1>4, ConsumeEffect DEF Keeps
  <2>2. \A x \in DOMAIN sessions : ChunksOf(x)' = ChunksOf(x)
    BY <2>1 DEF ChunksOf
  <2>3. SourceOf(u)' = SourceOf(u)
    BY <2>1, <2>2, SourceKept DEF Sealed
  <2>4. \A x \in DOMAIN sessions : x # u => SourceOf(x)' = SourceOf(x)
    BY <2>1, <2>2, SourceKept DEF Keeps
  <2>5. heard' = heard
    BY <1>4 DEF Consumed, told
  <2> QED BY <2>1, <2>3, <2>4, <2>5, SourcesStutter
<1> QED BY <1>1, <1>2, <1>3, <1>4, KindsOfStep, ToldKept

LEMMA UploadsInitImplements == Init => Source!Init
<1> SUFFICES ASSUME Init
             PROVE  Source!Init
  OBVIOUS
<1>1. KeysOpened = {}
  BY DEF Init, KeysOpened
<1> QED BY <1>1 DEF Source!Init, SourcesOpened, HeardOfKeys

\* Sessions, chunk rows and objects together behave as one append-only byte
\* string per key, sealed only when it is the declared source, of which callers
\* are never told more than is committed.
THEOREM UploadsImplementation == Spec => ImplementsByteLog
<1>1. UInv /\ UInv' /\ [Next]_vars => [Source!Next]_<<SourcesOpened, HeardOfKeys>>
  BY UploadsStepImplements
<1> QED BY <1>1, UploadsInvariance, UploadsInitImplements, PTL
        DEF Spec, ImplementsByteLog, Source!Spec
=============================================================================
