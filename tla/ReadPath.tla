------------------------------- MODULE ReadPath -------------------------------
(***************************************************************************)
(* Reads of current metadata and content: readFile and readContent of      *)
(* src/src/postgres-repository.js and cloud-drive-service.js.              *)
(*                                                                         *)
(* A read looks the file up in one statement and, for content, reads the   *)
(* object afterwards, while mutations commit and objects may be lost.  A   *)
(* mutation is one step here: reads see nothing of it before its COMMIT.   *)
(***************************************************************************)
EXTENDS ByteRange

CONSTANTS
  Workers,   \* reads the server may run at the same time
  Owners, FileIds, VersionIds,
  Contents,
  Size,      \* the bytes of each content
  Drifting,  \* contents whose object something outside may remove or damage
  Headers,   \* Range headers that callers send
  None       \* no row, request or answer

-----------------------------------------------------------------------------
FileRow == [owner: Owners, state: {"active", "tombstoned"}, version: VersionIds]
VersionRow == [file: FileIds, content: Contents]
Task == [kind: {"metadata", "content"}, owner: Owners, file: FileIds, range: Headers]

\* What the lookup found: the version, and for content the object it names.
Row == [version: VersionIds, content: Contents]
Errors == {"not_found", "gone", "integrity", "dependency"}

Answer ==
  [status: Errors]
    \cup [status: {"metadata"}, version: VersionIds]
    \cup [status: {"content"}, version: VersionIds, content: Contents,
          slice: [status: {200, 206}, start: Nat, end: Nat] \cup {Unsatisfiable, Malformed}]

\* An object has 1 to MAX_SOURCE_BYTES bytes, which the parser can count.
ASSUME ReadPathAssumption ==
  /\ Size \in [Contents -> 1 .. MaxSafe]
  /\ Drifting \subseteq Contents
  /\ Headers \subseteq Header
  /\ None \notin Row \cup Task \cup Answer

VARIABLES
  files, versions,  \* the tables
  stored,           \* contents whose object reads back intact
  pc, task, row,    \* each read's progress, request and looked up row
  answer,
  window            \* history: what the file has been since the read began

requests == <<pc, task, row, answer>>
vars     == <<files, versions, stored, requests, window>>

\* What an owner would find under an id at this moment.
Observation(o, f, table) ==
  IF f \notin DOMAIN table \/ table[f].owner # o THEN "not_found"
  ELSE IF table[f].state = "tombstoned" THEN "gone"
  ELSE table[f].version

TypeOK ==
  /\ DOMAIN files \subseteq FileIds /\ files \in [DOMAIN files -> FileRow]
  /\ DOMAIN versions \subseteq VersionIds /\ versions \in [DOMAIN versions -> VersionRow]
  /\ stored \subseteq Contents
  /\ pc \in [Workers -> {"idle", "lookup", "load", "reply"}]
  /\ task \in [Workers -> Task \cup {None}]
  /\ row \in [Workers -> Row \cup {None}]
  /\ answer \in [Workers -> Answer \cup {None}]
  /\ window \in [Workers -> SUBSET (VersionIds \cup {"not_found", "gone"})]
  /\ \A w \in Workers :
       /\ pc[w] = "load" <=> row[w] # None
       /\ pc[w] = "reply" <=> answer[w] # None

Init ==
  /\ files = [f \in {} |-> None]
  /\ versions = [v \in {} |-> None]
  /\ stored = {}
  /\ pc = [w \in Workers |-> "idle"]
  /\ task = [w \in Workers |-> None]
  /\ row = [w \in Workers |-> None]
  /\ answer = [w \in Workers |-> None]
  /\ window = [w \in Workers |-> {}]

-----------------------------------------------------------------------------
(* Uploads and mutations, as reads see them *)

Put(table, id, entry) == [x \in DOMAIN table \cup {id} |-> IF x = id THEN entry ELSE table[x]]

\* finalizeUpload installs an object.
Install(c) ==
  /\ stored' = stored \cup {c}
  /\ UNCHANGED <<files, versions, requests, window>>

\* The COMMIT of a mutation, seen by every read that is running.
CommitFiles(table) ==
  /\ files' = table
  /\ window' = [w \in Workers |->
                  IF task[w] = None THEN {}
                  ELSE window[w] \cup {Observation(task[w].owner, task[w].file, table)}]
  /\ UNCHANGED <<stored, requests>>

NewVersion(o, f, v, c) ==
  /\ v \notin DOMAIN versions
  /\ c \in stored \cup Drifting
  /\ versions' = Put(versions, v, [file |-> f, content |-> c])
  /\ CommitFiles(Put(files, f, [owner |-> o, state |-> "active", version |-> v]))

CreateFile(o, f, v, c) == f \notin DOMAIN files /\ NewVersion(o, f, v, c)

\* Mutant: the file points to its new version in a transaction of its own.
UpdateFileFirst(o, f, v, c) ==
  /\ f \in DOMAIN files /\ files[f].owner = o /\ files[f].state = "active"
  /\ v \notin DOMAIN versions
  /\ CommitFiles(Put(files, f, [owner |-> o, state |-> "active", version |-> v]))
  /\ UNCHANGED versions

UpdateFile(o, f, v, c) ==
  /\ f \in DOMAIN files /\ files[f].owner = o /\ files[f].state = "active"
  /\ NewVersion(o, f, v, c)

\* The tombstone keeps the pointer to the last version.
DeleteFile(o, f) ==
  /\ f \in DOMAIN files /\ files[f].owner = o /\ files[f].state = "active"
  /\ CommitFiles([files EXCEPT ![f].state = "tombstoned"])
  /\ UNCHANGED versions

\* Something outside the program removes or damages an object.
ObjectLost(c) ==
  /\ stored' = stored \ {c}
  /\ UNCHANGED <<files, versions, requests, window>>

-----------------------------------------------------------------------------
(* Reads *)

Goto(w, label) == pc' = [pc EXCEPT ![w] = label]

Start(w, t) ==
  /\ pc[w] = "idle"
  /\ task' = [task EXCEPT ![w] = t]
  /\ window' = [window EXCEPT ![w] = {Observation(t.owner, t.file, files)}]
  /\ Goto(w, "lookup")
  /\ UNCHANGED <<files, versions, stored, row, answer>>

Reply(w, a) ==
  /\ answer' = [answer EXCEPT ![w] = a]
  /\ row' = [row EXCEPT ![w] = None]
  /\ Goto(w, "reply")
  /\ UNCHANGED <<files, versions, stored, task, window>>
Refuse(w, status) == Reply(w, [status |-> status])

\* Mutant: the owner is not part of the query.
FoundOfAny(w) == task[w].file \in DOMAIN files

Found(w) == task[w].file \in DOMAIN files /\ files[task[w].file].owner = task[w].owner

\* Mutant: the state of the row is not looked at.
Existing(f) == TRUE

Active(f) == files[f].state = "active"

RefuseLookup(w) ==
  /\ pc[w] = "lookup"
  /\ \/ ~Found(w) /\ Refuse(w, "not_found")
     \/ Found(w) /\ ~Active(task[w].file) /\ Refuse(w, "gone")

\* SELECT ... FROM files LEFT JOIN file_versions: both rows in one snapshot.
Lookup(w) ==
  /\ pc[w] = "lookup"
  /\ Found(w) /\ Active(task[w].file)
  /\ LET v == files[task[w].file].version
     IN IF v \notin DOMAIN versions THEN Refuse(w, "integrity")
        ELSE IF task[w].kind = "metadata"
          THEN Reply(w, [status |-> "metadata", version |-> v])
          ELSE /\ row' = [row EXCEPT ![w] = [version |-> v, content |-> versions[v].content]]
               /\ Goto(w, "load")
               /\ UNCHANGED <<files, versions, stored, task, answer, window>>

\* Mutant: the object of the version that is current when it is read.
NamedByCurrent(w) == versions[files[task[w].file].version].content

Named(w) == row[w].content

\* objectStore.read: missing or damaged bytes are refused, or vanish meanwhile.
RefuseObject(w) ==
  /\ pc[w] = "load"
  /\ Named(w) \notin stored
  /\ \E status \in {"integrity", "dependency"} : Refuse(w, status)

\* The range is cut from bytes that were verified as a whole.
Load(w) ==
  /\ pc[w] = "load"
  /\ Named(w) \in stored
  /\ Reply(w, [status |-> "content", version |-> row[w].version, content |-> Named(w),
               slice |-> parseSingleByteRange(task[w].range, Size[Named(w)])])

Done(w) ==
  /\ Goto(w, "idle")
  /\ task' = [task EXCEPT ![w] = None]
  /\ row' = [row EXCEPT ![w] = None]
  /\ answer' = [answer EXCEPT ![w] = None]
  /\ window' = [window EXCEPT ![w] = {}]
  /\ UNCHANGED <<files, versions, stored>>

\* The answer reaches the caller, or the read fails and the caller gets none.
Answered(w) == pc[w] = "reply" /\ Done(w)
Fail(w) == pc[w] \in {"lookup", "load"} /\ Done(w)

Next ==
  \/ \E c \in Contents : Install(c)
  \/ \E c \in Drifting : ObjectLost(c)
  \/ \E o \in Owners, f \in FileIds :
       \/ \E v \in VersionIds, c \in Contents : CreateFile(o, f, v, c) \/ UpdateFile(o, f, v, c)
       \/ DeleteFile(o, f)
  \/ \E w \in Workers :
       \/ \E t \in Task : Start(w, t)
       \/ RefuseLookup(w) \/ Lookup(w) \/ RefuseObject(w) \/ Load(w)
       \/ Answered(w) \/ Fail(w)

Spec == Init /\ [][Next]_vars

-----------------------------------------------------------------------------
(* What reads guarantee *)

\* The version was current, or the file gone or not found, at some instant.
Seen(w) ==
  /\ answer[w].status \in {"metadata", "content"} => answer[w].version \in window[w]
  /\ answer[w].status \in {"gone", "not_found"} => answer[w].status \in window[w]

\* In every state of the declared types a read answers as if it had happened in
\* one instant between its request and its answer; so a read that begins after a
\* delete was answered is denied.  The bytes are those of the version in the
\* ETag, whatever was committed between the lookup and the read of the object.
ReadIsCurrent ==
  /\ TypeOK
  /\ \A w \in Workers :
       pc[w] = "reply" =>
         /\ Seen(w)
         /\ answer[w].status = "content" =>
              answer[w].content = versions[answer[w].version].content

\* A read fails only for the sake of an object that something outside touched:
\* never because a version was replaced or its file deleted meanwhile.
FailsOnlyOnDrift ==
  \A w \in Workers :
    pc[w] = "reply" /\ answer[w].status \in {"integrity", "dependency"} =>
      \E v \in window[w] \cap DOMAIN versions : versions[v].content \in Drifting

\* A partial response holds exactly the bytes that the header selects, a full
\* one all of them, and a range is refused only when it selects nothing or is
\* too large a number.
SliceIsExact ==
  \A w \in Workers :
    pc[w] = "reply" /\ answer[w].status = "content" =>
      LET s == answer[w].slice
          h == task[w].range
          total == Size[answer[w].content]
      IN /\ s.status \in {200, 206} =>
              s.start <= s.end /\ s.start .. s.end = Selected(h, total)
         /\ s.status = 200 <=> h.form = "none"
         /\ s.status = 416 => Selected(h, total) = {} \/ ~Representable(h)
=============================================================================
