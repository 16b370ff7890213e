-------------------------- MODULE ObjectStoreProofs --------------------------
(* Proofs about ObjectStore, for any number of puts and reads and any contents. *)
EXTENDS ObjectStore, TLAPS

-----------------------------------------------------------------------------
(* The inductive invariant *)

Whole == [bytes |-> "whole", synced |-> TRUE]

\* A power failure can only take away an installed object, not tear it.
TargetFits(d) ==
  target[d] # None =>
    target[d].synced /\ (target[d].bytes = "whole" \/ (d \in Drifting /\ target[d].bytes = "foreign"))

\* The object of d is there, unless something outside has taken it.
Located(d) == d \notin Drifting => target[d] # None

\* What a request has done when it reaches a statement, and its outcome.
ProgressFits(w) ==
  /\ pc[w] \in {"open", "write", "sync", "link", "sync_dir", "unlink"} => kind[w] = "put"
  /\ pc[w] = "write" => temp[w] \in [bytes: {"empty", "part"}, synced: {FALSE}]
  /\ pc[w] = "sync" => temp[w] \in [bytes: {"whole"}, synced: BOOLEAN]
  /\ pc[w] = "link" => temp[w] = Whole
  /\ pc[w] = "sync_dir" => Located(content[w])
  /\ pc[w] \in {"stat", "load"} /\ kind[w] = "put" => Located(content[w])
  /\ known[w] => content[w] \in told
OutcomeFits(w) ==
  answer[w] # None =>
    /\ answer[w].status = "done" => answer[w].bytes = "whole" /\ Located(content[w])
    /\ content[w] \notin Drifting /\ (kind[w] = "put" \/ known[w]) =>
         answer[w].status # "integrity"

SInv ==
  /\ TypeOK
  /\ \A d \in Contents : TargetFits(d)
  /\ \A d \in told : Located(d)
  /\ \A w \in Workers : ProgressFits(w) /\ OutcomeFits(w)

-----------------------------------------------------------------------------
(* Types *)

RequestsOK ==
  /\ pc \in [Workers -> PCs]
  /\ kind \in [Workers -> {"put", "read"}]
  /\ content \in [Workers -> Contents \cup {None}]
  /\ answer \in [Workers -> Answer \cup {None}]
  /\ known \in [Workers -> BOOLEAN]
  /\ \A w \in Workers :
       /\ pc[w] = "idle" <=> content[w] = None
       /\ pc[w] \in {"reply", "unlink"} <=> answer[w] # None
FilesOK ==
  /\ target \in [Contents -> File \cup {None}]
  /\ temp \in [Workers -> File \cup {None}]
  /\ told \subseteq Contents

LEMMA TypeParts ==
  /\ TypeOK <=> RequestsOK /\ FilesOK
  /\ TypeOK' <=> RequestsOK' /\ FilesOK'
BY DEF TypeOK, RequestsOK, FilesOK

LEMMA NoneApart ==
  /\ None \notin Contents /\ None \notin File /\ None \notin Answer
  /\ None # "whole" /\ None # "foreign"
BY ObjectStoreAssumption DEF Extents

LEMMA StepType ==
  ASSUME RequestsOK, NEW w \in Workers, NEW from \in PCs, NEW to \in PCs, Step(w, from, to),
         from # "idle", to # "idle", from \in {"reply", "unlink"} <=> to \in {"reply", "unlink"}
  PROVE  RequestsOK'
BY DEF RequestsOK, Step, Goto

LEMMA DecideType ==
  ASSUME RequestsOK, NEW w \in Workers, pc[w] # "idle",
         NEW status \in {"done", "integrity", "dependency"}, NEW bytes \in Extents \cup {None},
         Decide(w, status, bytes)
  PROVE  RequestsOK'
<1>1. PICK a : a = [status |-> status, bytes |-> bytes]
  OBVIOUS
<1>2. a \in Answer /\ a # None
  BY <1>1, NoneApart DEF Answer
<1>3. PICK to : to = IF kind[w] = "put" THEN "unlink" ELSE "reply"
  OBVIOUS
<1>4. to \in {"unlink", "reply"} /\ to \in PCs
  BY <1>3 DEF PCs
<1>5. answer' = [answer EXCEPT ![w] = a] /\ pc' = [pc EXCEPT ![w] = to] /\ UNCHANGED <<kind, content, known>>
  BY <1>1, <1>3 DEF Decide, Goto
<1> QED BY <1>2, <1>4, <1>5 DEF RequestsOK

LEMMA IdleType ==
  ASSUME RequestsOK, NEW w \in Workers, Idle(w)
  PROVE  RequestsOK'
BY DEF RequestsOK, Idle, Goto, PCs

\* The outcomes that a statement may decide on.
Decides(w) ==
  \E status \in {"done", "integrity", "dependency"}, bytes \in {None, "whole"} :
    Decide(w, status, bytes)

LEMMA Deciding ==
  ASSUME NEW w \in Workers, SyncDirectory(w) \/ FailStep(w) \/ RefuseStat(w) \/ Load(w)
  PROVE  Decides(w) /\ pc[w] # "idle" /\ UNCHANGED <<target, temp>>
BY DEF SyncDirectory, FailStep, RefuseStat, Load, Decides

LEMMA TypeStep ==
  ASSUME SInv, [Next]_vars
  PROVE  TypeOK'
<1>0. RequestsOK /\ FilesOK
  BY TypeParts DEF SInv
<1> USE DEF PCs
<1>1. ASSUME NEW w \in Workers, SyncDirectory(w) \/ FailStep(w) \/ RefuseStat(w) \/ Load(w)
      PROVE  TypeOK'
  <2>1. RequestsOK'
    BY <1>0, <1>1, Deciding, DecideType DEF Decides, Extents
  <2>2. FilesOK'
    BY <1>0, <1>1, Deciding DEF FilesOK, Decides, Decide
  <2> QED BY <2>1, <2>2, TypeParts
<1>2. ASSUME NEW w \in Workers, \/ OpenTemp(w) \/ WritePart(w) \/ WriteRest(w) \/ SyncTemp(w)
                                \/ Link(w) \/ FindExisting(w) \/ RemoveTemp(w) \/ Stat(w)
      PROVE  RequestsOK'
  BY <1>0, <1>2, StepType
  DEF OpenTemp, WritePart, WriteRest, SyncTemp, Link, FindExisting, RemoveTemp, Stat
<1>3. ASSUME NEW w \in Workers, OpenTemp(w) \/ WritePart(w) \/ WriteRest(w) \/ SyncTemp(w)
      PROVE  TypeOK'
  <2>1. ASSUME ~OpenTemp(w)
        PROVE  temp[w] \in File
    BY <1>3, <2>1 DEF SInv, ProgressFits, Step, WritePart, WriteRest, SyncTemp, File, Extents
  <2>2. temp' \in [Workers -> File \cup {None}] /\ UNCHANGED <<target, told>>
    <3>1. CASE OpenTemp(w)
      BY <1>0, <3>1 DEF FilesOK, OpenTemp, Step, File, Extents
    <3>2. CASE ~OpenTemp(w)
      <4>1. temp[w] = [bytes |-> temp[w].bytes, synced |-> temp[w].synced]
            /\ temp[w].bytes \in Extents /\ temp[w].synced \in BOOLEAN
        BY <2>1, <3>2 DEF File
      <4>2. \A e \in {"part", "whole"} : [temp[w] EXCEPT !.bytes = e] \in File
        BY <4>1 DEF File, Extents
      <4>3. [temp[w] EXCEPT !.synced = TRUE] \in File
        BY <4>1 DEF File
      <4>4. \E f \in File : temp' = [temp EXCEPT ![w] = f]
        BY <1>3, <3>2, <4>2, <4>3 DEF WritePart, WriteRest, SyncTemp
      <4>5. UNCHANGED <<target, told>>
        BY <1>3 DEF OpenTemp, WritePart, WriteRest, SyncTemp, Step
      <4> QED BY <1>0, <4>4, <4>5 DEF FilesOK
    <3> QED BY <3>1, <3>2
  <2> QED BY <1>0, <1>2, <1>3, <2>2, TypeParts DEF FilesOK
<1>4. ASSUME NEW w \in Workers, Link(w) \/ FindExisting(w) \/ RemoveTemp(w) \/ Stat(w)
      PROVE  TypeOK'
  <2>1. FilesOK'
    BY <1>0, <1>4 DEF FilesOK, Link, FindExisting, RemoveTemp, Stat, Step
  <2> QED BY <1>2, <1>4, <2>1, TypeParts
<1>5. ASSUME NEW w \in Workers, NEW k \in {"put", "read"}, NEW d \in Contents, Start(w, k, d)
      PROVE  TypeOK'
  <2>1. PICK to : to = IF k = "put" THEN "open" ELSE "stat"
    OBVIOUS
  <2>2. to \in {"open", "stat"} /\ pc' = [pc EXCEPT ![w] = to] /\ d # None
    BY <1>5, <2>1, NoneApart DEF Start, Goto
  <2>3. RequestsOK'
    BY <1>0, <1>5, <2>2 DEF RequestsOK, Start
  <2> QED BY <1>0, <1>5, <2>3, TypeParts DEF FilesOK, Start
<1>6. ASSUME NEW w \in Workers, Reply(w) \/ Kill(w)
      PROVE  TypeOK'
  <2>1. RequestsOK'
    BY <1>0, <1>6, IdleType DEF Reply, Kill
  <2>2. pc[w] # "idle" /\ content[w] \in Contents
    BY <1>0, <1>6 DEF RequestsOK, Reply, Kill
  <2> QED BY <1>0, <1>6, <2>1, <2>2, TypeParts DEF FilesOK, Reply, Kill
<1>7. CASE PowerLoss
  BY <1>0, <1>7, TypeParts DEF PowerLoss, RequestsOK, FilesOK
<1>8. ASSUME NEW d \in Drifting, Drift(d)
      PROVE  TypeOK'
  <2>1. PICK file \in {None, [bytes |-> "foreign", synced |-> TRUE]} :
          target' = [target EXCEPT ![d] = file]
    BY <1>8 DEF Drift
  <2>2. [bytes |-> "foreign", synced |-> TRUE] \in File
    BY DEF File, Extents
  <2> QED BY <1>0, <1>8, <2>1, <2>2, TypeParts DEF Drift, RequestsOK, FilesOK, requests
<1>9. CASE UNCHANGED vars
  BY <1>0, <1>9, TypeParts DEF vars, requests, RequestsOK, FilesOK
<1> QED BY <1>1, <1>3, <1>4, <1>5, <1>6, <1>7, <1>8, <1>9 DEF Next, Operation

-----------------------------------------------------------------------------
(* Objects are installed whole, and stay *)

LEMMA TargetsStep ==
  ASSUME SInv, [Next]_vars
  PROVE  /\ \A d \in Contents : TargetFits(d)'
         /\ PowerLoss \/ \A d \in Contents : Located(d) => Located(d)'
<1>1. CASE UNCHANGED target
  BY <1>1 DEF SInv, TargetFits, Located
<1>2. ASSUME NEW w \in Workers, Link(w)
      PROVE  \A d \in Contents : TargetFits(d)' /\ (Located(d) => Located(d)')
  <2>1. temp[w] = Whole /\ target' = [target EXCEPT ![content[w]] = temp[w]]
    BY <1>2 DEF SInv, ProgressFits, Link, Step
  <2>2. ASSUME NEW d \in Contents
        PROVE  target'[d] = target[d] \/ target'[d] = Whole
    BY <2>1 DEF SInv, TypeOK
  <2>3. Whole # None /\ Whole.synced /\ Whole.bytes = "whole"
    <3>1. Whole \in File
      BY DEF Whole, File, Extents
    <3> QED BY <3>1, NoneApart DEF Whole
  <2> QED BY <2>2, <2>3 DEF SInv, TargetFits, Located
<1>3. ASSUME NEW x \in Drifting, Drift(x)
      PROVE  \A d \in Contents : TargetFits(d)' /\ (Located(d) => Located(d)')
  <2>1. PICK file \in {None, [bytes |-> "foreign", synced |-> TRUE]} :
          target' = [target EXCEPT ![x] = file]
    BY <1>3 DEF Drift
  <2>2. ASSUME NEW d \in Contents
        PROVE  target'[d] = target[d] \/ (d \in Drifting /\ target'[d] = file)
    BY <2>1 DEF SInv, TypeOK
  <2> QED BY <2>2 DEF SInv, TargetFits, Located
<1>4. CASE PowerLoss
  <2>1. ASSUME NEW d \in Contents
        PROVE  target'[d] \in {None, target[d]}
    BY <1>4 DEF PowerLoss, Remains, SInv, TargetFits
  <2> QED BY <1>4, <2>1 DEF SInv, TargetFits
<1>5. UNCHANGED target \/ (\E w \in Workers : Link(w)) \/ (\E d \in Drifting : Drift(d)) \/ PowerLoss
  BY Deciding
  DEF Next, Operation, Start, OpenTemp, WritePart, WriteRest, SyncTemp, FindExisting,
      RemoveTemp, Stat, Reply, Kill, vars
<1> QED BY <1>1, <1>2, <1>3, <1>4, <1>5

-----------------------------------------------------------------------------
(* What a request has done, and its outcome *)

StepOf(w) ==
  \/ \E k \in {"put", "read"}, d \in Contents : Start(w, k, d)
  \/ Operation(w) \/ WritePart(w) \/ FailStep(w) \/ Kill(w)
Alone(v) ==
  /\ pc'[v] = pc[v] /\ kind'[v] = kind[v] /\ content'[v] = content[v]
  /\ answer'[v] = answer[v] /\ known'[v] = known[v] /\ temp'[v] = temp[v]

LEMMA OthersAlone ==
  ASSUME SInv, NEW w \in Workers, StepOf(w), NEW v \in Workers, v # w
  PROVE  Alone(v)
<1> USE DEF SInv, TypeOK, Alone
<1>1. CASE SyncDirectory(w) \/ FailStep(w) \/ RefuseStat(w) \/ Load(w)
  BY <1>1, Deciding DEF Decides, Decide, Goto
<1>2. CASE \E k \in {"put", "read"}, d \in Contents : Start(w, k, d)
  BY <1>2 DEF Start, Goto
<1>3. CASE OpenTemp(w) \/ WritePart(w) \/ WriteRest(w) \/ SyncTemp(w) \/ Link(w)
           \/ FindExisting(w) \/ RemoveTemp(w) \/ Stat(w)
  BY <1>3 DEF Step, Goto, OpenTemp, WritePart, WriteRest, SyncTemp, Link, FindExisting,
              RemoveTemp, Stat
<1>4. CASE Reply(w) \/ Kill(w)
  BY <1>4 DEF Reply, Kill, Idle, Goto
<1> QED BY <1>1, <1>2, <1>3, <1>4 DEF StepOf, Operation

\* Contents are only added to told, except by a power failure.
LEMMA ToldGrows ==
  ASSUME SInv, [Next]_vars
  PROVE  PowerLoss \/ told \subseteq told'
<1>1. ASSUME NEW w \in Workers, StepOf(w)
      PROVE  told \subseteq told'
  BY <1>1, Deciding
  DEF StepOf, Operation, Decides, Decide, Start, Step, OpenTemp, WritePart, WriteRest, SyncTemp,
      Link, FindExisting, RemoveTemp, Stat, Reply, Kill
<1> QED BY <1>1 DEF Next, StepOf, Drift, vars

LEMMA StayFits ==
  ASSUME SInv, NEW v \in Workers, Alone(v), told \subseteq told',
         \A d \in Contents : Located(d) => Located(d)'
  PROVE  ProgressFits(v)' /\ OutcomeFits(v)'
<1>1. pc[v] # "idle" => content[v] \in Contents
  BY DEF SInv, TypeOK
<1>2. /\ pc[v] = "sync_dir" => Located(content[v])'
      /\ pc[v] \in {"stat", "load"} /\ kind[v] = "put" => Located(content[v])'
      /\ answer[v] # None /\ answer[v].status = "done" => Located(content[v])'
  <2>1. ASSUME content[v] \in Contents, Located(content[v])
        PROVE  Located(content[v])'
    BY <2>1 DEF Alone, Located
  <2>2. answer[v] # None => pc[v] # "idle"
    BY DEF SInv, TypeOK
  <2> QED BY <1>1, <2>1, <2>2 DEF SInv, ProgressFits, OutcomeFits
<1> QED BY <1>2, ZenonT(30) DEF SInv, Alone, ProgressFits, OutcomeFits

LEMMA DecideFits ==
  ASSUME SInv, [Next]_vars, NEW w \in Workers,
         SyncDirectory(w) \/ FailStep(w) \/ RefuseStat(w) \/ Load(w)
  PROVE  ProgressFits(w)' /\ OutcomeFits(w)'
<1> USE DEF SInv
<1>1. PICK status \in {"done", "integrity", "dependency"}, bytes \in {None, "whole"} :
        Decide(w, status, bytes)
  BY Deciding DEF Decides
<1>2. PICK a : a = [status |-> status, bytes |-> bytes]
  OBVIOUS
<1>3. /\ answer'[w] = a /\ a.status = status /\ a.bytes = bytes
      /\ pc'[w] = IF kind[w] = "put" THEN "unlink" ELSE "reply"
      /\ UNCHANGED <<kind, content, known, told, target, temp>>
  BY <1>1, <1>2, Deciding DEF Decide, Goto, TypeOK
<1>4. content[w] \in Contents
  BY Deciding DEF TypeOK
<1>5. ProgressFits(w)'
  BY <1>3 DEF ProgressFits
<1>6. ASSUME status = "done"
      PROVE  bytes = "whole" /\ Located(content[w])
  <2>1. answer'[w].status = "done"
    BY <1>3, <1>6
  <2>2. CASE SyncDirectory(w)
    BY <1>3, <2>2, NoneApart DEF SyncDirectory, Decide, ProgressFits, TypeOK
  <2>3. ~FailStep(w) /\ ~RefuseStat(w)
    BY <2>1 DEF FailStep, RefuseStat, Decide, TypeOK
  <2>4. CASE Load(w)
    <3>1. target[content[w]] # None /\ Decide(w, "done", "whole")
      BY <2>1, <2>4 DEF Load, Decide, TypeOK
    <3>2. bytes = "whole"
      BY <1>3, <3>1 DEF Decide, TypeOK
    <3> QED BY <3>1, <3>2 DEF Located
  <2> QED BY <2>2, <2>3, <2>4
<1>7. ASSUME content[w] \notin Drifting, kind[w] = "put" \/ known[w], status = "integrity"
      PROVE  FALSE
  <2>1. answer'[w].status = "integrity"
    BY <1>3, <1>7
  <2>2. ~SyncDirectory(w) /\ ~FailStep(w)
    BY <2>1 DEF SyncDirectory, FailStep, Decide, TypeOK
  <2>3. target[content[w]] # None => target[content[w]].bytes = "whole"
    BY <1>4, <1>7 DEF TargetFits
  <2>4. ~Load(w)
    BY <2>1, <2>3 DEF Load, Decide, TypeOK
  <2>5. ~RefuseStat(w)
    <3>1. SUFFICES ASSUME RefuseStat(w)
                   PROVE  FALSE
      OBVIOUS
    <3>2. Located(content[w])
      BY <1>7, <3>1 DEF RefuseStat, ProgressFits
    <3>3. target[content[w]] # None /\ target[content[w]].bytes = "whole"
      BY <1>7, <2>3, <3>2 DEF Located
    <3> QED BY <3>1, <3>3 DEF RefuseStat
  <2> QED BY <2>2, <2>4, <2>5
<1>8. OutcomeFits(w)'
  <2>1. status = "done" => bytes = "whole" /\ Located(content[w])'
    BY <1>3, <1>6 DEF Located
  <2> QED BY <1>3, <1>7, <2>1 DEF OutcomeFits
<1> QED BY <1>5, <1>8

LEMMA OwnFits ==
  ASSUME SInv, [Next]_vars, NEW w \in Workers, StepOf(w)
  PROVE  ProgressFits(w)' /\ OutcomeFits(w)'
<1> USE DEF SInv
<1>1. CASE SyncDirectory(w) \/ FailStep(w) \/ RefuseStat(w) \/ Load(w)
  BY <1>1, DecideFits
<1>2. ASSUME NEW k \in {"put", "read"}, NEW d \in Contents, Start(w, k, d)
      PROVE  ProgressFits(w)' /\ OutcomeFits(w)'
  <2>1. /\ kind'[w] = k /\ content'[w] = d /\ known'[w] = (d \in told) /\ told' = told
        /\ pc'[w] = IF k = "put" THEN "open" ELSE "stat"
        /\ answer'[w] = answer[w] /\ answer[w] = None
    BY <1>2 DEF Start, Goto, TypeOK
  <2> QED BY <2>1 DEF ProgressFits, OutcomeFits
<1>3. ASSUME NEW from, NEW to, Step(w, from, to), from \notin {"reply", "unlink"}
      PROVE  /\ pc'[w] = to /\ kind'[w] = kind[w] /\ content'[w] = content[w] /\ known'[w] = known[w]
             /\ answer'[w] = None /\ answer[w] = None /\ told' = told
             /\ known[w] => content[w] \in told
  BY <1>3 DEF Step, Goto, TypeOK, ProgressFits
<1>4. CASE OpenTemp(w)
  <2>1. pc[w] = "open" /\ temp'[w] = [bytes |-> "empty", synced |-> FALSE] /\ Step(w, "open", "write")
    BY <1>4 DEF OpenTemp, TypeOK, Step
  <2>2. kind[w] = "put"
    BY <2>1 DEF ProgressFits
  <2>3. /\ pc'[w] = "write" /\ kind'[w] = kind[w] /\ content'[w] = content[w]
        /\ known'[w] = known[w] /\ answer'[w] = None /\ told' = told
        /\ known[w] => content[w] \in told
    BY <1>3, <2>1
  <2> QED BY <2>1, <2>2, <2>3 DEF ProgressFits, OutcomeFits
<1>5. ASSUME NEW f \in File, temp[w] = f
      PROVE  f = [bytes |-> f.bytes, synced |-> f.synced]
  BY DEF File
<1>6. CASE WritePart(w) \/ WriteRest(w) \/ SyncTemp(w)
  <2>1. kind[w] = "put" /\ temp[w] \in File
    BY <1>6 DEF ProgressFits, WritePart, WriteRest, SyncTemp, Step, File, Extents
  <2>2. CASE WritePart(w)
    <3>1. Step(w, "write", "write") /\ temp[w].synced = FALSE /\ temp' = [temp EXCEPT ![w].bytes = "part"]
      BY <2>2 DEF ProgressFits, WritePart, Step
    <3>2. temp'[w] = [temp[w] EXCEPT !.bytes = "part"]
      BY <3>1 DEF TypeOK
    <3>3. temp'[w] = [bytes |-> "part", synced |-> FALSE]
      BY <1>5, <2>1, <3>1, <3>2
    <3>4. /\ pc'[w] = "write" /\ kind'[w] = kind[w] /\ content'[w] = content[w]
          /\ known'[w] = known[w] /\ answer'[w] = None /\ told' = told
          /\ known[w] => content[w] \in told
      BY <1>3, <3>1
    <3> QED BY <2>1, <3>3, <3>4 DEF ProgressFits, OutcomeFits
  <2>3. CASE WriteRest(w)
    <3>1. Step(w, "write", "sync") /\ temp[w].synced = FALSE /\ temp' = [temp EXCEPT ![w].bytes = "whole"]
      BY <2>3 DEF ProgressFits, WriteRest, Step
    <3>2. temp'[w] = [temp[w] EXCEPT !.bytes = "whole"]
      BY <3>1 DEF TypeOK
    <3>3. temp'[w] = [bytes |-> "whole", synced |-> FALSE]
      BY <1>5, <2>1, <3>1, <3>2
    <3>4. /\ pc'[w] = "sync" /\ kind'[w] = kind[w] /\ content'[w] = content[w]
          /\ known'[w] = known[w] /\ answer'[w] = None /\ told' = told
          /\ known[w] => content[w] \in told
      BY <1>3, <3>1
    <3> QED BY <2>1, <3>3, <3>4 DEF ProgressFits, OutcomeFits
  <2>4. CASE SyncTemp(w)
    <3>1. Step(w, "sync", "link") /\ temp[w].bytes = "whole" /\ temp' = [temp EXCEPT ![w].synced = TRUE]
      BY <2>4 DEF ProgressFits, SyncTemp, Step
    <3>2. temp'[w] = [temp[w] EXCEPT !.synced = TRUE]
      BY <3>1 DEF TypeOK
    <3>3. temp'[w] = Whole
      BY <1>5, <2>1, <3>1, <3>2 DEF Whole
    <3>4. /\ pc'[w] = "link" /\ kind'[w] = kind[w] /\ content'[w] = content[w]
          /\ known'[w] = known[w] /\ answer'[w] = None /\ told' = told
          /\ known[w] => content[w] \in told
      BY <1>3, <3>1
    <3> QED BY <2>1, <3>3, <3>4 DEF ProgressFits, OutcomeFits
  <2> QED BY <1>6, <2>2, <2>3, <2>4
<1>7. CASE Link(w) \/ FindExisting(w)
  <2>1. kind[w] = "put" /\ content[w] \in Contents /\ temp[w] = Whole
    BY <1>7 DEF ProgressFits, Link, FindExisting, Step, TypeOK
  <2>2. target'[content[w]] # None
    <3>1. Whole \in File
      BY DEF Whole, File, Extents
    <3> QED BY <1>7, <2>1, <3>1, NoneApart DEF Link, FindExisting, TypeOK
  <2>3. \E to \in {"sync_dir", "stat"} : Step(w, "link", to)
    BY <1>7 DEF Link, FindExisting
  <2>4. /\ pc'[w] \in {"sync_dir", "stat"} /\ kind'[w] = kind[w] /\ content'[w] = content[w]
        /\ known'[w] = known[w] /\ answer'[w] = None /\ told' = told
    BY <1>3, <2>3
  <2> QED BY <2>1, <2>2, <2>4 DEF ProgressFits, OutcomeFits, Located
<1>8. CASE Stat(w)
  <2>1. Step(w, "stat", "load") /\ pc[w] = "stat" /\ target' = target
    BY <1>8 DEF Stat, Step
  <2>2. kind[w] = "put" => Located(content[w])
    BY <2>1 DEF ProgressFits
  <2>3. /\ pc'[w] = "load" /\ kind'[w] = kind[w] /\ content'[w] = content[w]
        /\ known'[w] = known[w] /\ answer'[w] = None /\ told' = told
        /\ known[w] => content[w] \in told
    BY <1>3, <2>1
  <2> QED BY <2>1, <2>2, <2>3 DEF ProgressFits, OutcomeFits, Located
<1>9. CASE RemoveTemp(w)
  <2>1. /\ pc'[w] = "reply" /\ kind'[w] = kind[w] /\ content'[w] = content[w] /\ known'[w] = known[w]
        /\ answer'[w] = answer[w] /\ told' = told /\ target' = target
    BY <1>9 DEF RemoveTemp, Step, Goto, TypeOK
  <2> QED BY <2>1 DEF ProgressFits, OutcomeFits, Located
<1>10. CASE Reply(w) \/ Kill(w)
  <2>1. pc'[w] = "idle" /\ known'[w] = FALSE /\ answer'[w] = None
    BY <1>10 DEF Reply, Kill, Idle, Goto, TypeOK
  <2> QED BY <2>1 DEF ProgressFits, OutcomeFits
<1> QED BY <1>1, <1>2, <1>4, <1>6, <1>7, <1>8, <1>9, <1>10 DEF StepOf, Operation

LEMMA RequestsStep ==
  ASSUME SInv, [Next]_vars
  PROVE  \A v \in Workers : ProgressFits(v)' /\ OutcomeFits(v)'
<1> SUFFICES ASSUME NEW v \in Workers
             PROVE  ProgressFits(v)' /\ OutcomeFits(v)'
  OBVIOUS
<1>1. CASE PowerLoss
  BY <1>1 DEF PowerLoss, ProgressFits, OutcomeFits
<1>2. CASE StepOf(v)
  BY <1>2, OwnFits
<1>3. CASE Alone(v) /\ ~PowerLoss
  BY <1>3, StayFits, ToldGrows, TargetsStep
<1>4. ASSUME NEW w \in Workers, StepOf(w), w # v
      PROVE  Alone(v)
  BY <1>4, OthersAlone
<1>5. CASE UNCHANGED vars \/ \E d \in Drifting : Drift(d)
  <2>1. Alone(v)
    BY <1>5 DEF Alone, vars, requests, Drift
  <2> QED BY <1>1, <1>3, <2>1
<1> QED BY <1>1, <1>2, <1>3, <1>4, <1>5 DEF Next, StepOf

\* What is acknowledged stays in its place.
LEMMA ToldStep ==
  ASSUME SInv, [Next]_vars
  PROVE  \A d \in told' : Located(d)'
<1>1. CASE PowerLoss
  BY <1>1 DEF PowerLoss
<1>2. CASE told' = told /\ ~PowerLoss
  BY <1>2, TargetsStep DEF SInv, TypeOK
<1>3. ASSUME NEW w \in Workers, Reply(w)
      PROVE  \A d \in told' : Located(d)'
  <2>1. answer[w] # None /\ target' = target
    BY <1>3 DEF Reply, SInv, TypeOK
  <2>2. \A d \in told' : d \in told \/ (d = content[w] /\ answer[w].status = "done")
    BY <1>3 DEF Reply
  <2> QED BY <2>1, <2>2 DEF SInv, OutcomeFits, Located
<1>4. ASSUME NEW w \in Workers, StepOf(w), ~Reply(w)
      PROVE  told' = told
  BY <1>4, Deciding
  DEF StepOf, Operation, Decides, Decide, Start, Step, OpenTemp, WritePart, WriteRest, SyncTemp,
      Link, FindExisting, RemoveTemp, Stat, Kill
<1>5. CASE UNCHANGED vars \/ \E d \in Drifting : Drift(d)
  BY <1>1, <1>2, <1>5 DEF vars, Drift
<1> QED BY <1>1, <1>2, <1>3, <1>4, <1>5 DEF Next, StepOf

-----------------------------------------------------------------------------
(* The invariant, and what follows from it *)

LEMMA InitSInv == Init => SInv
<1> SUFFICES ASSUME Init
             PROVE  SInv
  OBVIOUS
<1>1. TypeOK
  BY DEF Init, TypeOK, PCs
<1>2. \A w \in Workers : ProgressFits(w) /\ OutcomeFits(w)
  BY DEF Init, ProgressFits, OutcomeFits
<1> QED BY <1>1, <1>2 DEF Init, SInv, TargetFits

LEMMA StepSInv == SInv /\ [Next]_vars => SInv'
BY TypeStep, TargetsStep, ToldStep, RequestsStep DEF SInv

\* The inductive invariant holds in every reachable state, for any number of
\* puts and reads, killed or failing wherever they are, and power failures.
THEOREM StoreInvariance == Spec => []SInv
BY InitSInv, StepSInv, PTL DEF Spec

\* Under its digest a content is found whole or not at all.
THEOREM TornCorrect == Spec => []NeverTorn
<1>1. SInv => NeverTorn
  BY DEF SInv, TargetFits, NeverTorn
<1> QED BY <1>1, StoreInvariance, PTL

\* The store returns only bytes that are the content asked for, and does not
\* report a content as damaged that nothing outside has touched.
THEOREM AnswersCorrect == Spec => []AnswersTrue
<1>1. SInv => AnswersTrue
  BY DEF SInv, OutcomeFits, AnswersTrue
<1> QED BY <1>1, StoreInvariance, PTL

-----------------------------------------------------------------------------
(* The file operations implement a set of contents *)

LEMMA StoreStepImplements ==
  SInv /\ SInv' /\ [Next]_vars => [Blobs!Next]_<<Intact, told>>
<1> SUFFICES ASSUME SInv, SInv', [Next]_vars
             PROVE  Blobs!Next \/ UNCHANGED <<Intact, told>>
  OBVIOUS
<1>1. CASE UNCHANGED <<target, told>>
  BY <1>1 DEF Intact
<1>2. ASSUME NEW w \in Workers, Link(w)
      PROVE  Blobs!Next
  <2>1. PICK d : d = content[w]
    OBVIOUS
  <2>2. d \in Contents /\ target' = [target EXCEPT ![d] = Whole] /\ told' = told
    <3>1. pc[w] = "link" /\ target' = [target EXCEPT ![d] = temp[w]] /\ told' = told
      BY <1>2, <2>1 DEF Link, Step
    <3>2. temp[w] = Whole
      BY <3>1 DEF SInv, ProgressFits
    <3>3. d \in Contents
      BY <2>1, <3>1 DEF SInv, TypeOK
    <3> QED BY <3>1, <3>2, <3>3
  <2>3. Whole # None /\ Whole.bytes = "whole"
    <3>1. Whole \in File
      BY DEF Whole, File, Extents
    <3> QED BY <3>1, NoneApart DEF Whole
  <2>4. Intact' = Intact \cup {d}
    BY <2>2, <2>3 DEF Intact, SInv, TypeOK
  <2> QED BY <2>2, <2>4 DEF Blobs!Next, Blobs!Install
<1>3. ASSUME NEW w \in Workers, Reply(w), told' # told
      PROVE  Blobs!Next
  <2>1. PICK d : d = content[w]
    OBVIOUS
  <2>2. /\ d \in Contents /\ answer[w] # None /\ answer[w].status = "done"
        /\ told' = told \cup {d} /\ target' = target
    BY <1>3, <2>1 DEF Reply, SInv, TypeOK
  <2>3. d \in Intact \cup Drifting
    BY <2>1, <2>2 DEF SInv, OutcomeFits, Located, TargetFits, Intact
  <2>4. Intact' = Intact
    BY <2>2 DEF Intact
  <2> QED BY <2>2, <2>3, <2>4 DEF Blobs!Next, Blobs!Tell
<1>4. ASSUME NEW d \in Drifting, Drift(d)
      PROVE  Blobs!Next
  <2>1. PICK file \in {None, [bytes |-> "foreign", synced |-> TRUE]} :
          target' = [target EXCEPT ![d] = file] /\ told' = told
    BY <1>4 DEF Drift
  <2>2. d \in Contents
    BY ObjectStoreAssumption
  <2>3. Intact' = Intact \ {d}
    BY <2>1, <2>2 DEF Intact, SInv, TypeOK
  <2> QED BY <2>1, <2>2, <2>3 DEF Blobs!Next, Blobs!Drift
<1>5. CASE PowerLoss
  <2>1. \A d \in Contents : target'[d] \in {None, target[d]}
    BY <1>5 DEF PowerLoss, Remains, SInv, TargetFits
  <2>2. Intact' \subseteq Intact /\ told' = {}
    BY <1>5, <2>1 DEF Intact, PowerLoss
  <2> QED BY <2>2 DEF Blobs!Next, Blobs!PowerLoss
<1>6. ASSUME NEW w \in Workers, StepOf(w), ~Link(w), ~Reply(w)
      PROVE  UNCHANGED <<target, told>>
  BY <1>6, Deciding
  DEF StepOf, Operation, Decides, Decide, Start, Step, OpenTemp, WritePart, WriteRest, SyncTemp,
      FindExisting, RemoveTemp, Stat, Kill
<1>7. ASSUME NEW w \in Workers, Reply(w)
      PROVE  target' = target
  BY <1>7 DEF Reply
<1>8. CASE UNCHANGED vars
  BY <1>1, <1>8 DEF vars
<1> QED BY <1>1, <1>2, <1>3, <1>4, <1>5, <1>6, <1>7, <1>8 DEF Next, StepOf

LEMMA StoreInitImplements == Init => Blobs!Init
BY DEF Init, Intact, Blobs!Init

\* The file operations together behave as a set of contents to which a put adds
\* in one step, and of which an acknowledged content stays.
THEOREM StoreImplementation == Spec => ImplementsBlobSet
<1>1. SInv /\ SInv' /\ [Next]_vars => [Blobs!Next]_<<Intact, told>>
  BY StoreStepImplements
<1> QED BY <1>1, StoreInvariance, StoreInitImplements, PTL
        DEF Spec, ImplementsBlobSet, Blobs!Spec
=============================================================================
