------------------------------ MODULE ObjectStore ------------------------------
(***************************************************************************)
(* The immutable object store of src/src/object-store.js: put, read and    *)
(* verify as the file operations they consist of.                          *)
(*                                                                         *)
(* The digest of a content is the content.  The file system is external:   *)
(* link fails when its target exists; a killed process leaves its files as *)
(* they are; a power failure leaves anything of a file that was not        *)
(* synced, and may lose any directory entry, for the entry of the prefix   *)
(* directory that put creates below objects/ is never synced.              *)
(***************************************************************************)

CONSTANTS
  Workers,   \* puts and reads the servers may run at the same time
  Contents,
  Drifting,  \* contents whose file something outside may remove or damage
  None       \* no file, content or answer

-----------------------------------------------------------------------------
\* How much of its content a file holds; foreign bytes come from outside.
Extents == {"empty", "part", "whole", "foreign"}
File == [bytes: Extents, synced: BOOLEAN]

Answer == [status: {"done", "integrity", "dependency"}, bytes: Extents \cup {None}]
PCs == {"idle", "open", "write", "sync", "link", "sync_dir", "stat", "load",
        "unlink", "reply"}

ASSUME ObjectStoreAssumption ==
  /\ Drifting \subseteq Contents
  /\ None \notin Contents \cup File \cup Answer \cup Extents

VARIABLES
  target,  \* the file objects/<xx>/<digest> of each content
  temp,    \* the file .pending-<uuid> of each put
  pc, kind, content, answer,  \* each request: put or read, of what, its result
  known,   \* history: the content had been acknowledged when the request began
  told     \* history: contents whose put or read was answered with success

requests == <<pc, kind, content, answer, known>>
vars     == <<target, temp, requests, told>>

TypeOK ==
  /\ target \in [Contents -> File \cup {None}]
  /\ temp \in [Workers -> File \cup {None}]
  /\ pc \in [Workers -> PCs]
  /\ kind \in [Workers -> {"put", "read"}]
  /\ content \in [Workers -> Contents \cup {None}]
  /\ answer \in [Workers -> Answer \cup {None}]
  /\ known \in [Workers -> BOOLEAN]
  /\ told \subseteq Contents
  /\ \A w \in Workers :
       /\ pc[w] = "idle" <=> content[w] = None
       /\ pc[w] \in {"reply", "unlink"} <=> answer[w] # None

Init ==
  /\ target = [d \in Contents |-> None]
  /\ temp = [w \in Workers |-> None]
  /\ pc = [w \in Workers |-> "idle"]
  /\ kind = [w \in Workers |-> "read"]
  /\ content = [w \in Workers |-> None]
  /\ answer = [w \in Workers |-> None]
  /\ known = [w \in Workers |-> FALSE]
  /\ told = {}

-----------------------------------------------------------------------------
Goto(w, label) == pc' = [pc EXCEPT ![w] = label]

\* The outcome is decided; a put still removes its temporary file.
Decide(w, status, bytes) ==
  /\ answer' = [answer EXCEPT ![w] = [status |-> status, bytes |-> bytes]]
  /\ Goto(w, IF kind[w] = "put" THEN "unlink" ELSE "reply")
  /\ UNCHANGED <<kind, content, known, told>>

Step(w, from, to) ==
  /\ pc[w] = from /\ Goto(w, to)
  /\ UNCHANGED <<kind, content, answer, known, told>>

Start(w, k, d) ==
  /\ pc[w] = "idle"
  /\ kind' = [kind EXCEPT ![w] = k]
  /\ content' = [content EXCEPT ![w] = d]
  /\ known' = [known EXCEPT ![w] = d \in told]
  /\ Goto(w, IF k = "put" THEN "open" ELSE "stat")
  /\ UNCHANGED <<target, temp, answer, told>>

-----------------------------------------------------------------------------
(* put *)

\* open(temporary, 'wx')
OpenTemp(w) ==
  /\ Step(w, "open", "write")
  /\ temp' = [temp EXCEPT ![w] = [bytes |-> "empty", synced |-> FALSE]]
  /\ UNCHANGED target

\* writeFile: bytes arrive in the file one part after the other.
WritePart(w) ==
  /\ Step(w, "write", "write")
  /\ temp[w].bytes = "empty"
  /\ temp' = [temp EXCEPT ![w].bytes = "part"]
  /\ UNCHANGED target

\* Mutant: a write that stopped early is taken for a complete one.
WriteShort(w) ==
  /\ Step(w, "write", "sync")
  /\ temp' = [temp EXCEPT ![w].bytes = "part"]
  /\ UNCHANGED target

WriteRest(w) ==
  /\ Step(w, "write", "sync")
  /\ temp' = [temp EXCEPT ![w].bytes = "whole"]
  /\ UNCHANGED target

\* Mutant: the file is closed without being synced.
CloseTemp(w) ==
  /\ Step(w, "sync", "link")
  /\ UNCHANGED <<temp, target>>

SyncTemp(w) ==
  /\ Step(w, "sync", "link")
  /\ temp' = [temp EXCEPT ![w].synced = TRUE]
  /\ UNCHANGED target

\* The link names the temporary file, which is not written any more.
Link(w) ==
  /\ Step(w, "link", "sync_dir")
  /\ target[content[w]] = None
  /\ target' = [target EXCEPT ![content[w]] = temp[w]]
  /\ UNCHANGED temp

\* EEXIST: another put was first, and what it installed is verified.
FindExisting(w) ==
  /\ Step(w, "link", "stat")
  /\ target[content[w]] # None
  /\ UNCHANGED <<target, temp>>

SyncDirectory(w) ==
  /\ pc[w] = "sync_dir"
  /\ Decide(w, "done", "whole")
  /\ UNCHANGED <<target, temp>>

\* A file operation fails: an error is the outcome, and the link may stay.
FailStep(w) ==
  /\ pc[w] \in {"open", "write", "sync", "link", "sync_dir", "stat", "load"}
  /\ Decide(w, "dependency", None)
  /\ UNCHANGED <<target, temp>>

\* Mutant: a put that failed takes the object back with its temporary file.
RemoveTempAndTarget(w) ==
  /\ Step(w, "unlink", "reply")
  /\ temp' = [temp EXCEPT ![w] = None]
  /\ target' = IF answer[w].status = "done" THEN target ELSE [target EXCEPT ![content[w]] = None]

\* finally: unlink and sync of the directory, whose errors are ignored.
RemoveTemp(w) ==
  /\ Step(w, "unlink", "reply")
  /\ temp' = [temp EXCEPT ![w] = None]
  /\ UNCHANGED target

-----------------------------------------------------------------------------
(* read, verify, and the verification of an existing object *)

\* lstat: a missing file is an integrity error, and so is one that is not
\* regular or too large.
Stat(w) ==
  /\ Step(w, "stat", "load")
  /\ target[content[w]] # None
  /\ UNCHANGED <<target, temp>>

RefuseStat(w) ==
  /\ pc[w] = "stat"
  /\ target[content[w]] \in {None} \cup [bytes: {"foreign"}, synced: BOOLEAN]
  /\ Decide(w, "integrity", None)
  /\ UNCHANGED <<target, temp>>

\* Mutant: the digest of what was read is not compared.
LoadUnverified(w) ==
  /\ pc[w] = "load"
  /\ IF target[content[w]] = None THEN Decide(w, "dependency", None)
     ELSE Decide(w, "done", target[content[w]].bytes)
  /\ UNCHANGED <<target, temp>>

\* readFile and the digest; a file that vanished since lstat is another error.
Load(w) ==
  /\ pc[w] = "load"
  /\ IF target[content[w]] = None THEN Decide(w, "dependency", None)
     ELSE IF target[content[w]].bytes # "whole" THEN Decide(w, "integrity", None)
     ELSE Decide(w, "done", "whole")
  /\ UNCHANGED <<target, temp>>

-----------------------------------------------------------------------------
(* Answers, failures, and what happens outside *)

Idle(w) ==
  /\ Goto(w, "idle")
  /\ kind' = [kind EXCEPT ![w] = "read"]
  /\ content' = [content EXCEPT ![w] = None]
  /\ answer' = [answer EXCEPT ![w] = None]
  /\ known' = [known EXCEPT ![w] = FALSE]

Reply(w) ==
  /\ pc[w] = "reply"
  /\ told' = IF answer[w].status = "done" THEN told \cup {content[w]} ELSE told
  /\ Idle(w)
  /\ UNCHANGED <<target, temp>>

\* The process of w is killed.  Its temporary file stays, under a name that
\* nothing will ever look up.
Kill(w) ==
  /\ pc[w] # "idle"
  /\ Idle(w)
  /\ temp' = [temp EXCEPT ![w] = None]
  /\ UNCHANGED <<target, told>>

\* What a power failure may leave of a file.
Remains(file) ==
  IF file = None THEN {None}
  ELSE {None} \cup IF file.synced THEN {file}
                   ELSE {[bytes |-> e, synced |-> TRUE] : e \in {"empty", "part", file.bytes}}

PowerLoss ==
  /\ target' \in {t \in [Contents -> File \cup {None}] :
                    \A d \in Contents : t[d] \in Remains(target[d])}
  /\ temp' = [w \in Workers |-> None]
  /\ pc' = [w \in Workers |-> "idle"]
  /\ kind' = [w \in Workers |-> "read"]
  /\ content' = [w \in Workers |-> None]
  /\ answer' = [w \in Workers |-> None]
  /\ known' = [w \in Workers |-> FALSE]
  /\ told' = {}

\* Something outside the program removes or overwrites an object.
Drift(d) ==
  /\ target[d] # None
  /\ \E file \in {None, [bytes |-> "foreign", synced |-> TRUE]} :
       target' = [target EXCEPT ![d] = file]
  /\ UNCHANGED <<temp, requests, told>>

-----------------------------------------------------------------------------
Operation(w) ==
  \/ OpenTemp(w) \/ WriteRest(w) \/ SyncTemp(w) \/ Link(w) \/ FindExisting(w)
  \/ SyncDirectory(w) \/ RemoveTemp(w) \/ Stat(w) \/ RefuseStat(w) \/ Load(w) \/ Reply(w)

Next ==
  \/ \E w \in Workers :
       \/ \E k \in {"put", "read"}, d \in Contents : Start(w, k, d)
       \/ Operation(w) \/ WritePart(w)
       \/ FailStep(w) \/ Kill(w)
  \/ PowerLoss
  \/ \E d \in Drifting : Drift(d)

Spec == Init /\ [][Next]_vars

-----------------------------------------------------------------------------
(* What the store guarantees *)

\* Under its digest a content is found whole or not at all, whatever puts were
\* killed, failed or cut off by a power failure, unless it was damaged outside.
NeverTorn ==
  /\ TypeOK
  /\ \A d \in Contents :
       target[d] # None =>
         target[d].bytes = "whole" \/ (d \in Drifting /\ target[d].bytes = "foreign")

\* Bytes are returned only if they are the content that was asked for.  A put
\* never takes the unfinished work of another one for a damaged object, and a
\* read finds what had been acknowledged before it began.
AnswersTrue ==
  \A w \in Workers :
    answer[w] # None =>
      /\ answer[w].status = "done" => answer[w].bytes = "whole"
      /\ content[w] \notin Drifting /\ (kind[w] = "put" \/ known[w]) =>
           answer[w].status # "integrity"

Intact == {d \in Contents : target[d] # None /\ target[d].bytes = "whole"}
Blobs == INSTANCE BlobSet WITH stored <- Intact

\* The file operations together behave as a set of contents to which a put adds
\* in one step, and an acknowledged content stays in it.
ImplementsBlobSet == Blobs!Spec
=============================================================================
