--------------------------- MODULE ReadPathProofs ---------------------------
(* Proofs about ReadPath and ByteRange, for any number of reads and versions *)
(* and Range headers with any numbers.                                       *)
EXTENDS ReadPath, TLAPS

-----------------------------------------------------------------------------
(* Byte ranges *)

\* What SliceIsExact says of a read, for a header and a size.
Exact(s, h, total) ==
  /\ s.status \in {200, 206} => s.start <= s.end /\ s.start .. s.end = Selected(h, total)
  /\ s.status = 200 <=> h.form = "none"
  /\ s.status = 416 => Selected(h, total) = {} \/ ~Representable(h)

Slices == [status: {200, 206}, start: Nat, end: Nat] \cup {Unsatisfiable, Malformed}

LEMMA BetweenExact ==
  ASSUME NEW total \in Nat, total > 0, NEW first \in Nat, NEW last \in Nat
  PROVE  LET s == Between(first, last, total)
         IN /\ s \in Slices
            /\ \/ /\ s.status = 206 /\ s.start <= s.end
                  /\ s.start .. s.end = {p \in 0 .. total - 1 : p >= first /\ p <= last}
               \/ /\ s.status = 416
                  /\ {p \in 0 .. total - 1 : p >= first /\ p <= last} = {}
                       \/ ~Safe(first) \/ ~Safe(last)
<1>1. CASE ~Safe(first) \/ first >= total \/ ~Safe(last) \/ last < first
  <2>1. Between(first, last, total) = Unsatisfiable
    BY <1>1 DEF Between
  <2>2. Safe(first) /\ Safe(last) => \A p \in 0 .. total - 1 : ~(p >= first /\ p <= last)
    BY <1>1
  <2> QED BY <2>1, <2>2 DEF Unsatisfiable, Slices
<1>2. CASE ~(~Safe(first) \/ first >= total \/ ~Safe(last) \/ last < first)
  <2>1. PICK e \in Nat : e = IF last < total THEN last ELSE total - 1
    BY <1>2
  <2>2. Between(first, last, total) = [status |-> 206, start |-> first, end |-> e]
    BY <1>2, <2>1 DEF Between, Slice
  <2>3. first <= e /\ first .. e = {p \in 0 .. total - 1 : p >= first /\ p <= last}
    BY <1>2, <2>1
  <2> QED BY <2>2, <2>3 DEF Slices
<1> QED BY <1>1, <1>2

LEMMA SuffixExact ==
  ASSUME NEW total \in Nat, total > 0, NEW n \in Nat
  PROVE  LET s == Suffix(n, total)
         IN /\ s \in Slices
            /\ \/ /\ s.status = 206 /\ s.start <= s.end
                  /\ s.start .. s.end = {p \in 0 .. total - 1 : p + n >= total}
               \/ s.status = 416 /\ ({p \in 0 .. total - 1 : p + n >= total} = {} \/ ~Safe(n))
<1>1. CASE ~Safe(n) \/ n = 0
  <2>1. Suffix(n, total) = Unsatisfiable
    BY <1>1 DEF Suffix
  <2>2. n = 0 => \A p \in 0 .. total - 1 : ~(p + n >= total)
    OBVIOUS
  <2> QED BY <1>1, <2>1, <2>2 DEF Unsatisfiable, Slices
<1>2. CASE ~(~Safe(n) \/ n = 0)
  <2>1. PICK b : b = IF n < total THEN total - n ELSE 0
    OBVIOUS
  <2>2. Suffix(n, total) = [status |-> 206, start |-> b, end |-> total - 1]
    BY <1>2, <2>1 DEF Suffix, Slice
  <2>3. b \in Nat /\ b <= total - 1 /\ \A p \in 0 .. total - 1 : p >= b <=> p + n >= total
    BY <1>2, <2>1
  <2>4. b .. total - 1 = {p \in 0 .. total - 1 : p + n >= total}
    <3>1. \A p \in b .. total - 1 : p \in 0 .. total - 1 /\ p >= b
      BY <2>3
    <3>2. \A p \in 0 .. total - 1 : p >= b => p \in b .. total - 1
      BY <2>3
    <3> QED BY <2>3, <3>1, <3>2
  <2> QED BY <2>2, <2>3, <2>4 DEF Slices
<1> QED BY <1>1, <1>2

\* Whatever the header says, the parser cuts out what it selects.  A size that
\* the parser could not represent would make it refuse an open range.
LEMMA ParserExact ==
  ASSUME NEW h \in Header, NEW total \in 1 .. MaxSafe
  PROVE  /\ parseSingleByteRange(h, total) \in Slices
         /\ Exact(parseSingleByteRange(h, total), h, total)
<1> SUFFICES ASSUME NEW s, s = parseSingleByteRange(h, total)
             PROVE  s \in Slices /\ Exact(s, h, total)
  OBVIOUS
<1>0. total \in Nat /\ total > 0 /\ total <= MaxSafe
  BY ByteRangeAssumption
<1>1. CASE h.form = "none"
  <2>1. s = [status |-> 200, start |-> 0, end |-> total - 1]
    BY <1>1 DEF parseSingleByteRange, Slice
  <2>2. Selected(h, total) = 0 .. total - 1
    BY <1>1 DEF Selected
  <2> QED BY <1>0, <1>1, <2>1, <2>2 DEF Slices, Exact
<1>2. CASE h.form = "malformed"
  <2>1. s = [status |-> 400]
    BY <1>2 DEF parseSingleByteRange, Malformed
  <2> QED BY <1>2, <2>1 DEF Slices, Exact, Malformed
<1>3. CASE h.form = "suffix"
  <2>1. h.last \in Nat
    BY <1>3 DEF Header
  <2>2. s = Suffix(h.last, total)
    BY <1>3 DEF parseSingleByteRange
  <2>3. Selected(h, total) = {p \in 0 .. total - 1 : p + h.last >= total}
    BY <1>3 DEF Selected
  <2>4. Representable(h) <=> Safe(h.last)
    BY <1>3 DEF Representable
  <2> QED BY <1>0, <1>3, <2>1, <2>2, <2>3, <2>4, SuffixExact DEF Exact
<1>4. CASE h.form = "from"
  <2>1. h.first \in Nat /\ total - 1 \in Nat /\ Safe(total - 1)
    <3>1. h.first \in Nat
      BY <1>4 DEF Header
    <3> QED BY <1>0, <3>1, ByteRangeAssumption DEF Safe
  <2>2. s = Between(h.first, total - 1, total)
    BY <1>4 DEF parseSingleByteRange
  <2>3. Selected(h, total) = {p \in 0 .. total - 1 : p >= h.first /\ p <= total - 1}
    <3>1. Selected(h, total) = {p \in 0 .. total - 1 : p >= h.first}
      BY <1>4 DEF Selected
    <3>2. \A p \in 0 .. total - 1 : p <= total - 1
      BY <1>0
    <3> QED BY <3>1, <3>2
  <2>4. Representable(h) <=> Safe(h.first)
    BY <1>4 DEF Representable
  <2> QED BY <1>0, <1>4, <2>1, <2>2, <2>3, <2>4, BetweenExact DEF Exact
<1>5. CASE h.form = "between"
  <2>1. h.first \in Nat /\ h.last \in Nat
    BY <1>5 DEF Header
  <2>2. s = Between(h.first, h.last, total)
    BY <1>5 DEF parseSingleByteRange
  <2>3. Selected(h, total) = {p \in 0 .. total - 1 : p >= h.first /\ p <= h.last}
    BY <1>5 DEF Selected
  <2>4. Representable(h) <=> Safe(h.first) /\ Safe(h.last)
    BY <1>5 DEF Representable
  <2> QED BY <1>0, <1>5, <2>1, <2>2, <2>3, <2>4, BetweenExact, SMTT(30) DEF Exact
<1> QED BY <1>1, <1>2, <1>3, <1>4, <1>5 DEF Header

-----------------------------------------------------------------------------
(* The inductive invariant *)

\* A file names a version that is there, in a table nothing is removed from.
FilesFit == \A f \in DOMAIN files : files[f].version \in DOMAIN versions
ObjectsFit == \A v \in DOMAIN versions : versions[v].content \in stored \cup Drifting

\* What the caller would find now belongs to what the file has been.
WindowFits(w) ==
  /\ pc[w] = "idle" <=> task[w] = None
  /\ task[w] # None => Observation(task[w].owner, task[w].file, files) \in window[w]

\* The row that was looked up is a version the file has had meanwhile.
RowFits(w) ==
  row[w] # None =>
    /\ row[w].version \in window[w] \cap DOMAIN versions
    /\ row[w].content = versions[row[w].version].content

ContentFits(w) ==
  answer[w].status = "content" =>
    /\ answer[w].version \in DOMAIN versions
    /\ answer[w].content = versions[answer[w].version].content
    /\ answer[w].slice = parseSingleByteRange(task[w].range, Size[answer[w].content])
DriftFits(w) ==
  answer[w].status \in {"integrity", "dependency"} =>
    \E v \in window[w] \cap DOMAIN versions : versions[v].content \in Drifting
AnswerFits(w) == answer[w] # None => Seen(w) /\ ContentFits(w) /\ DriftFits(w)

RInv ==
  /\ TypeOK /\ FilesFit /\ ObjectsFit
  /\ \A w \in Workers : WindowFits(w) /\ RowFits(w) /\ AnswerFits(w)

-----------------------------------------------------------------------------
(* Types *)

TablesOK ==
  /\ DOMAIN files \subseteq FileIds /\ files \in [DOMAIN files -> FileRow]
  /\ DOMAIN versions \subseteq VersionIds /\ versions \in [DOMAIN versions -> VersionRow]
  /\ stored \subseteq Contents
ReadsOK ==
  /\ pc \in [Workers -> {"idle", "lookup", "load", "reply"}]
  /\ task \in [Workers -> Task \cup {None}]
  /\ row \in [Workers -> Row \cup {None}]
  /\ answer \in [Workers -> Answer \cup {None}]
  /\ \A w \in Workers :
       /\ pc[w] = "load" <=> row[w] # None
       /\ pc[w] = "reply" <=> answer[w] # None
WindowsOK == window \in [Workers -> SUBSET (VersionIds \cup {"not_found", "gone"})]

LEMMA TypeParts ==
  /\ TypeOK <=> TablesOK /\ ReadsOK /\ WindowsOK
  /\ TypeOK' <=> TablesOK' /\ ReadsOK' /\ WindowsOK'
BY DEF TypeOK, TablesOK, ReadsOK, WindowsOK

LEMMA NoneApart == None \notin Row /\ None \notin Task /\ None \notin Answer
BY ReadPathAssumption

LEMMA ObservationType ==
  ASSUME NEW o, NEW f, NEW table, table \in [DOMAIN table -> FileRow]
  PROVE  Observation(o, f, table) \in VersionIds \cup {"not_found", "gone"}
BY DEF Observation, FileRow

-----------------------------------------------------------------------------
(* What uploads and mutations do to the tables and to the reads *)

\* No version is taken away, and a read's window only grows.
Grows(w) ==
  /\ DOMAIN versions \subseteq DOMAIN versions'
  /\ \A v \in DOMAIN versions : versions'[v] = versions[v]
  /\ task[w] # None => window[w] \subseteq window'[w]

LEMMA CommitStep ==
  ASSUME RInv, NEW table, table \in [DOMAIN table -> FileRow], DOMAIN table \subseteq FileIds,
         \A f \in DOMAIN table : table[f].version \in DOMAIN versions',
         DOMAIN versions' \subseteq VersionIds, versions' \in [DOMAIN versions' -> VersionRow],
         DOMAIN versions \subseteq DOMAIN versions',
         \A v \in DOMAIN versions : versions'[v] = versions[v],
         \A v \in DOMAIN versions' : versions'[v].content \in stored \cup Drifting,
         CommitFiles(table)
  PROVE  /\ TypeOK' /\ FilesFit' /\ ObjectsFit' /\ UNCHANGED requests
         /\ \A w \in Workers : WindowFits(w)' /\ Grows(w)
<1>0. files' = table /\ stored' = stored /\ UNCHANGED requests
  BY DEF CommitFiles
<1>1. \A w \in Workers :
        window'[w] = IF task[w] = None THEN {}
                     ELSE window[w] \cup {Observation(task[w].owner, task[w].file, table)}
  BY DEF CommitFiles
<1>2. WindowsOK'
  <2>1. \A o, f : Observation(o, f, table) \in VersionIds \cup {"not_found", "gone"}
    BY ObservationType
  <2> QED BY <2>1 DEF CommitFiles, WindowsOK, RInv, TypeOK
<1>3. TablesOK' /\ ReadsOK'
  BY <1>0 DEF TablesOK, ReadsOK, RInv, TypeOK, requests
<1>4. FilesFit' /\ ObjectsFit'
  BY <1>0 DEF FilesFit, ObjectsFit
<1>5. \A w \in Workers : WindowFits(w)'
  BY <1>0, <1>1 DEF WindowFits, RInv, requests
<1>6. \A w \in Workers : Grows(w)
  BY <1>1 DEF Grows
<1> QED BY <1>0, <1>2, <1>3, <1>4, <1>5, <1>6, TypeParts

Changes ==
  \/ \E c \in Contents : Install(c)
  \/ \E c \in Drifting : ObjectLost(c)
  \/ \E o \in Owners, f \in FileIds :
       \/ \E v \in VersionIds, c \in Contents : CreateFile(o, f, v, c) \/ UpdateFile(o, f, v, c)
       \/ DeleteFile(o, f)

LEMMA ChangesStep ==
  ASSUME RInv, Changes
  PROVE  /\ TypeOK' /\ FilesFit' /\ ObjectsFit' /\ UNCHANGED requests
         /\ \A w \in Workers : WindowFits(w)' /\ Grows(w)
<1> USE DEF RInv
<1>1. ASSUME NEW c \in Contents, Install(c) \/ (c \in Drifting /\ ObjectLost(c))
      PROVE  /\ TypeOK' /\ FilesFit' /\ ObjectsFit' /\ UNCHANGED requests
             /\ \A w \in Workers : WindowFits(w)' /\ Grows(w)
  <2>1. UNCHANGED <<files, versions, requests, window>> /\ stored' \subseteq Contents
    BY <1>1 DEF Install, ObjectLost, TypeOK
  <2>2. TypeOK'
    BY <2>1 DEF TypeOK, requests
  <2>3. \A d \in stored : d \in stored' \cup Drifting
    BY <1>1 DEF Install, ObjectLost
  <2>4. FilesFit' /\ ObjectsFit'
    BY <2>1, <2>3 DEF FilesFit, ObjectsFit
  <2>5. \A w \in Workers : WindowFits(w)' /\ Grows(w)
    BY <2>1 DEF Grows, WindowFits, requests
  <2> QED BY <2>1, <2>2, <2>4, <2>5
<1>2. ASSUME NEW o \in Owners, NEW f \in FileIds, NEW v \in VersionIds, NEW c \in Contents,
             NewVersion(o, f, v, c)
      PROVE  /\ TypeOK' /\ FilesFit' /\ ObjectsFit' /\ UNCHANGED requests
             /\ \A w \in Workers : WindowFits(w)' /\ Grows(w)
  <2>1. PICK entry : entry = [owner |-> o, state |-> "active", version |-> v]
    OBVIOUS
  <2>2. PICK table : table = Put(files, f, entry)
    OBVIOUS
  <2>3. PICK new : new = [file |-> f, content |-> c]
    OBVIOUS
  <2>4. /\ v \notin DOMAIN versions /\ c \in stored \cup Drifting
        /\ versions' = Put(versions, v, new) /\ CommitFiles(table)
    BY <1>2, <2>1, <2>2, <2>3 DEF NewVersion
  <2>5. entry \in FileRow /\ entry.version = v /\ new \in VersionRow /\ new.content = c
    BY <2>1, <2>3 DEF FileRow, VersionRow
  <2>6. /\ table \in [DOMAIN table -> FileRow] /\ DOMAIN table = DOMAIN files \cup {f}
        /\ table[f] = entry /\ \A g \in DOMAIN files : g # f => table[g] = files[g]
    <3>1. files \in [DOMAIN files -> FileRow]
      BY DEF TypeOK
    <3> QED BY <2>2, <2>5, <3>1 DEF Put
  <2>7. /\ versions' \in [DOMAIN versions' -> VersionRow]
        /\ DOMAIN versions' = DOMAIN versions \cup {v}
        /\ versions'[v] = new /\ \A u \in DOMAIN versions : versions'[u] = versions[u]
    <3>1. versions \in [DOMAIN versions -> VersionRow]
      BY DEF TypeOK
    <3> QED BY <2>4, <2>5, <3>1 DEF Put
  <2>8. \A g \in DOMAIN table : table[g].version \in DOMAIN versions'
    BY <2>5, <2>6, <2>7 DEF FilesFit
  <2>9. \A u \in DOMAIN versions' : versions'[u].content \in stored \cup Drifting
    BY <2>4, <2>5, <2>7 DEF ObjectsFit
  <2>10. DOMAIN table \subseteq FileIds /\ DOMAIN versions' \subseteq VersionIds
    BY <2>6, <2>7 DEF TypeOK
  <2> QED BY <2>4, <2>6, <2>7, <2>8, <2>9, <2>10, CommitStep
<1>3. ASSUME NEW o \in Owners, NEW f \in FileIds, DeleteFile(o, f)
      PROVE  /\ TypeOK' /\ FilesFit' /\ ObjectsFit' /\ UNCHANGED requests
             /\ \A w \in Workers : WindowFits(w)' /\ Grows(w)
  <2>1. PICK table : table = [files EXCEPT ![f].state = "tombstoned"]
    OBVIOUS
  <2>2. f \in DOMAIN files /\ versions' = versions /\ CommitFiles(table)
    BY <1>3, <2>1 DEF DeleteFile
  <2>3. PICK entry \in FileRow : entry = files[f]
    BY <2>2 DEF TypeOK
  <2>4. PICK new : new = [owner |-> entry.owner, state |-> "tombstoned", version |-> entry.version]
    OBVIOUS
  <2>5. new \in FileRow /\ new.version = entry.version
    BY <2>3, <2>4 DEF FileRow
  <2>6. table = [files EXCEPT ![f] = [entry EXCEPT !.state = "tombstoned"]]
    BY <2>1, <2>2, <2>3 DEF TypeOK
  <2>7. [entry EXCEPT !.state = "tombstoned"] = new
    BY <2>3, <2>4 DEF FileRow
  <2>8. /\ table \in [DOMAIN table -> FileRow] /\ DOMAIN table = DOMAIN files
        /\ table[f] = new /\ \A g \in DOMAIN files : g # f => table[g] = files[g]
    BY <2>2, <2>5, <2>6, <2>7 DEF TypeOK
  <2>9. \A g \in DOMAIN table : table[g].version \in DOMAIN versions'
    BY <2>2, <2>3, <2>5, <2>8 DEF FilesFit
  <2>10. /\ DOMAIN table \subseteq FileIds /\ DOMAIN versions' \subseteq VersionIds
         /\ versions' \in [DOMAIN versions' -> VersionRow]
         /\ \A u \in DOMAIN versions' : versions'[u].content \in stored \cup Drifting
    BY <2>2, <2>8 DEF TypeOK, ObjectsFit
  <2> QED BY <2>2, <2>8, <2>9, <2>10, CommitStep
<1> QED BY <1>1, <1>2, <1>3, ReadPathAssumption DEF Changes, CreateFile, UpdateFile

\* What has been found, and an outcome, stay true whatever is committed.
LEMMA ReadKept ==
  ASSUME RInv, NEW w \in Workers, Grows(w),
         pc'[w] = pc[w], task'[w] = task[w], row'[w] = row[w], answer'[w] = answer[w]
  PROVE  RowFits(w)' /\ AnswerFits(w)'
<1> USE DEF RInv
<1>1. row[w] # None \/ answer[w] # None => task[w] # None
  BY DEF TypeOK, WindowFits
<1>2. row[w] # None \/ answer[w] # None => window[w] \subseteq window'[w]
  BY <1>1 DEF Grows
<1>3. RowFits(w)'
  <2>1. SUFFICES ASSUME row[w] # None
                 PROVE  /\ row[w].version \in window'[w] \cap DOMAIN versions'
                        /\ row[w].content = versions'[row[w].version].content
    BY DEF RowFits
  <2>2. row[w].version \in window[w] \cap DOMAIN versions /\
        row[w].content = versions[row[w].version].content
    BY <2>1 DEF RowFits
  <2> QED BY <1>2, <2>1, <2>2 DEF Grows
<1>4. AnswerFits(w)'
  <2>1. SUFFICES ASSUME answer[w] # None
                 PROVE  Seen(w)' /\ ContentFits(w)' /\ DriftFits(w)'
    BY DEF AnswerFits
  <2>2. Seen(w) /\ ContentFits(w) /\ DriftFits(w) /\ window[w] \subseteq window'[w]
    BY <1>2, <2>1 DEF AnswerFits
  <2>3. Seen(w)'
    BY <2>2 DEF Seen
  <2>4. ContentFits(w)'
    BY <2>2 DEF ContentFits, Grows
  <2>5. DriftFits(w)'
    BY <2>2 DEF DriftFits, Grows
  <2> QED BY <2>3, <2>4, <2>5
<1> QED BY <1>3, <1>4

-----------------------------------------------------------------------------
(* What a read does *)

StepOf(w) ==
  \/ \E t \in Task : Start(w, t)
  \/ RefuseLookup(w) \/ Lookup(w) \/ RefuseObject(w) \/ Load(w)
  \/ Answered(w) \/ Fail(w)

\* A read leaves the tables and the other reads alone.
LEMMA Alone ==
  ASSUME NEW w \in Workers, StepOf(w), TypeOK
  PROVE  /\ UNCHANGED <<files, versions, stored>>
         /\ \A v \in Workers \ {w} :
              /\ pc'[v] = pc[v] /\ task'[v] = task[v] /\ row'[v] = row[v]
              /\ answer'[v] = answer[v] /\ window'[v] = window[v]
<1>1. ASSUME NEW t \in Task, Start(w, t)
      PROVE  /\ UNCHANGED <<files, versions, stored>>
             /\ \A v \in Workers \ {w} :
                  /\ pc'[v] = pc[v] /\ task'[v] = task[v] /\ row'[v] = row[v]
                  /\ answer'[v] = answer[v] /\ window'[v] = window[v]
  BY <1>1 DEF Start, Goto, TypeOK
<1>2. ASSUME NEW a, Reply(w, a)
      PROVE  /\ UNCHANGED <<files, versions, stored>>
             /\ \A v \in Workers \ {w} :
                  /\ pc'[v] = pc[v] /\ task'[v] = task[v] /\ row'[v] = row[v]
                  /\ answer'[v] = answer[v] /\ window'[v] = window[v]
  BY <1>2 DEF Reply, Goto, TypeOK
<1>3. CASE Lookup(w) /\ ~\E a : Reply(w, a)
  BY <1>3 DEF Lookup, Refuse, Goto, TypeOK
<1>4. CASE Done(w)
  BY <1>4 DEF Done, Goto, TypeOK
<1>5. RefuseLookup(w) \/ RefuseObject(w) \/ Load(w) => \E a : Reply(w, a)
  BY DEF RefuseLookup, RefuseObject, Load, Refuse
<1> QED BY <1>1, <1>2, <1>3, <1>4, <1>5 DEF StepOf, Answered, Fail

\* A read is answered: what it has looked up is forgotten.
LEMMA ReplyStep ==
  ASSUME RInv, NEW w \in Workers, pc[w] \in {"lookup", "load"}, NEW a \in Answer, Reply(w, a)
  PROVE  /\ TypeOK' /\ WindowFits(w)' /\ RowFits(w)'
         /\ pc'[w] = "reply" /\ answer'[w] = a /\ task'[w] = task[w] /\ window'[w] = window[w]
         /\ task[w] \in Task /\ UNCHANGED <<files, versions>>
<1> USE DEF RInv
<1>1. /\ pc'[w] = "reply" /\ answer'[w] = a /\ row'[w] = None
      /\ UNCHANGED <<files, versions, stored, task, window>>
  BY DEF Reply, Goto, TypeOK
<1>2. ReadsOK'
  BY <1>1, NoneApart DEF Reply, Goto, TypeOK, ReadsOK
<1>3. TypeOK'
  BY <1>1, <1>2, TypeParts DEF TablesOK, WindowsOK
<1>4. task[w] \in Task
  BY DEF WindowFits, TypeOK
<1>5. WindowFits(w)' /\ RowFits(w)'
  BY <1>1, <1>4, NoneApart DEF WindowFits, RowFits
<1> QED BY <1>1, <1>3, <1>4, <1>5

\* What the lookup finds is what the window says of this moment.
LEMMA LookupFinds ==
  ASSUME RInv, NEW w \in Workers, pc[w] = "lookup"
  PROVE  /\ task[w] \in Task
         /\ ~Found(w) => "not_found" \in window[w]
         /\ Found(w) => task[w].file \in DOMAIN files
         /\ Found(w) /\ ~Active(task[w].file) => "gone" \in window[w]
         /\ Found(w) /\ Active(task[w].file) =>
              files[task[w].file].version \in window[w] \cap DOMAIN versions
<1> USE DEF RInv
<1>1. task[w] # None /\ task[w] \in Task
  BY DEF WindowFits, TypeOK
<1>2. Observation(task[w].owner, task[w].file, files) \in window[w]
  BY <1>1 DEF WindowFits
<1>3. task[w].file \in DOMAIN files => files[task[w].file].state \in {"active", "tombstoned"}
  BY DEF TypeOK, FileRow
<1> QED BY <1>1, <1>2, <1>3 DEF Observation, Found, Active, FilesFit

LEMMA OwnStep ==
  ASSUME RInv, NEW w \in Workers, StepOf(w)
  PROVE  TypeOK' /\ WindowFits(w)' /\ RowFits(w)' /\ AnswerFits(w)'
<1> USE DEF RInv
<1>1. UNCHANGED <<files, versions, stored>>
  BY Alone
<1>2. ASSUME NEW t \in Task, Start(w, t)
      PROVE  TypeOK' /\ WindowFits(w)' /\ RowFits(w)' /\ AnswerFits(w)'
  <2>1. /\ pc[w] = "idle" /\ pc'[w] = "lookup" /\ task'[w] = t /\ row'[w] = row[w]
        /\ answer'[w] = answer[w] /\ window'[w] = {Observation(t.owner, t.file, files)}
    BY <1>2 DEF Start, Goto, TypeOK
  <2>2. ReadsOK'
    BY <1>2 DEF Start, Goto, TypeOK, ReadsOK
  <2>3. WindowsOK'
    <3>1. Observation(t.owner, t.file, files) \in VersionIds \cup {"not_found", "gone"}
      BY ObservationType DEF TypeOK
    <3> QED BY <1>2, <3>1 DEF Start, TypeOK, WindowsOK
  <2>4. TypeOK'
    BY <1>1, <2>2, <2>3, TypeParts DEF TablesOK
  <2>5. row[w] = None /\ answer[w] = None
    BY <2>1 DEF TypeOK
  <2> QED BY <1>1, <2>1, <2>4, <2>5, NoneApart DEF WindowFits, RowFits, AnswerFits
<1>3. CASE RefuseLookup(w)
  <2>1. PICK status \in {"not_found", "gone"} :
          Reply(w, [status |-> status]) /\ pc[w] = "lookup" /\ status \in window[w]
    BY <1>3, LookupFinds DEF RefuseLookup, Refuse
  <2>2. PICK a : a = [status |-> status]
    OBVIOUS
  <2>3. a \in Answer /\ Reply(w, a) /\ a.status = status
    BY <2>1, <2>2 DEF Answer, Errors
  <2>4. /\ TypeOK' /\ WindowFits(w)' /\ RowFits(w)'
        /\ answer'[w] = a /\ window'[w] = window[w]
    BY <2>1, <2>3, ReplyStep
  <2>5. AnswerFits(w)'
    BY <2>1, <2>3, <2>4 DEF AnswerFits, Seen, ContentFits, DriftFits
  <2> QED BY <2>4, <2>5
<1>4. CASE Lookup(w)
  <2>1. PICK u : u = files[task[w].file].version
    OBVIOUS
  <2>2. u \in window[w] \cap DOMAIN versions /\ task[w] \in Task /\ pc[w] = "lookup"
    BY <1>4, <2>1, LookupFinds DEF Lookup
  <2>3. CASE task[w].kind = "metadata"
    <3>1. PICK a : a = [status |-> "metadata", version |-> u]
      OBVIOUS
    <3>2. Reply(w, a) /\ a \in Answer /\ a.status = "metadata" /\ a.version = u
      <4>1. u \in VersionIds
        BY <2>2 DEF TypeOK
      <4> QED BY <1>4, <2>1, <2>2, <2>3, <3>1, <4>1 DEF Lookup, Answer
    <3>3. /\ TypeOK' /\ WindowFits(w)' /\ RowFits(w)'
          /\ answer'[w] = a /\ window'[w] = window[w]
      BY <2>2, <3>2, ReplyStep
    <3>4. AnswerFits(w)'
      BY <2>2, <3>2, <3>3 DEF AnswerFits, Seen, ContentFits, DriftFits
    <3> QED BY <3>3, <3>4
  <2>4. CASE task[w].kind # "metadata"
    <3>1. PICK r : r = [version |-> u, content |-> versions[u].content]
      OBVIOUS
    <3>2. /\ row' = [row EXCEPT ![w] = r] /\ pc' = [pc EXCEPT ![w] = "load"]
          /\ UNCHANGED <<task, answer, window>>
      BY <1>4, <2>1, <2>2, <2>4, <3>1 DEF Lookup, Goto
    <3>3. r \in Row /\ r.version = u /\ r.content = versions[u].content
      BY <2>2, <3>1 DEF Row, TypeOK, VersionRow
    <3>4. ReadsOK'
      BY <2>2, <3>2, <3>3, NoneApart DEF TypeOK, ReadsOK
    <3>5. TypeOK'
      BY <1>1, <3>2, <3>4, TypeParts DEF TablesOK, WindowsOK
    <3>6. /\ pc'[w] = "load" /\ row'[w] = r /\ answer'[w] = None /\ task'[w] = task[w]
          /\ window'[w] = window[w]
      BY <2>2, <3>2 DEF TypeOK
    <3>7. WindowFits(w)'
      BY <1>1, <2>2, <3>6 DEF WindowFits
    <3>8. RowFits(w)' /\ AnswerFits(w)'
      BY <1>1, <2>2, <3>3, <3>6 DEF RowFits, AnswerFits
    <3> QED BY <3>5, <3>7, <3>8
  <2> QED BY <2>3, <2>4
<1>5. ASSUME pc[w] = "load"
      PROVE  /\ row[w].version \in window[w] \cap DOMAIN versions
             /\ Named(w) = versions[row[w].version].content
             /\ row[w].version \in VersionIds /\ Named(w) \in Contents
  BY <1>5 DEF RowFits, TypeOK, Row, Named
<1>6. CASE RefuseObject(w)
  <2>1. PICK status \in {"integrity", "dependency"} :
          Reply(w, [status |-> status]) /\ pc[w] = "load" /\ Named(w) \notin stored
    BY <1>6 DEF RefuseObject, Refuse
  <2>2. PICK a : a = [status |-> status]
    OBVIOUS
  <2>3. a \in Answer /\ Reply(w, a) /\ a.status = status
    BY <2>1, <2>2 DEF Answer, Errors
  <2>4. /\ TypeOK' /\ WindowFits(w)' /\ RowFits(w)'
        /\ answer'[w] = a /\ window'[w] = window[w]
    BY <2>1, <2>3, ReplyStep
  <2>5. Named(w) \in Drifting
    BY <1>5, <2>1 DEF ObjectsFit
  <2>6. DriftFits(w)'
    <3>1. PICK v \in window[w] \cap DOMAIN versions : versions[v].content \in Drifting
      BY <1>5, <2>1, <2>5
    <3> QED BY <1>1, <2>4, <3>1 DEF DriftFits
  <2>7. AnswerFits(w)'
    BY <2>1, <2>3, <2>4, <2>6 DEF AnswerFits, Seen, ContentFits
  <2> QED BY <2>4, <2>7
<1>7. CASE Load(w)
  <2>1. PICK s : s = parseSingleByteRange(task[w].range, Size[Named(w)])
    OBVIOUS
  <2>2. PICK a : a = [status |-> "content", version |-> row[w].version, content |-> Named(w),
                      slice |-> s]
    OBVIOUS
  <2>3. Reply(w, a) /\ pc[w] = "load"
    BY <1>7, <2>1, <2>2 DEF Load
  <2>4. s \in Slices
    <3>1. task[w].range \in Header
      BY <2>3, ReadPathAssumption DEF WindowFits, TypeOK, Task
    <3>2. Size[Named(w)] \in 1 .. MaxSafe
      BY <1>5, <2>3, ReadPathAssumption
    <3> QED BY <2>1, <3>1, <3>2, ParserExact
  <2>5. a \in Answer
    <3>1. a \in [status: {"content"}, version: VersionIds, content: Contents, slice: Slices]
      BY <1>5, <2>2, <2>3, <2>4
    <3> QED BY <3>1 DEF Answer, Slices
  <2>6. /\ a.status = "content" /\ a.version = row[w].version /\ a.content = Named(w)
        /\ a.slice = s
    BY <2>2
  <2>7. /\ TypeOK' /\ WindowFits(w)' /\ RowFits(w)'
        /\ answer'[w] = a /\ window'[w] = window[w] /\ task'[w] = task[w]
    BY <2>3, <2>5, ReplyStep
  <2>8. Seen(w)' /\ DriftFits(w)'
    BY <1>5, <2>3, <2>6, <2>7 DEF Seen, DriftFits
  <2>9. ContentFits(w)'
    BY <1>1, <1>5, <2>1, <2>3, <2>6, <2>7 DEF ContentFits
  <2> QED BY <2>7, <2>8, <2>9 DEF AnswerFits
<1>8. CASE Done(w)
  <2>1. /\ pc'[w] = "idle" /\ task'[w] = None /\ row'[w] = None /\ answer'[w] = None
    BY <1>8 DEF Done, Goto, TypeOK
  <2>2. ReadsOK'
    BY <1>8 DEF Done, Goto, TypeOK, ReadsOK
  <2>3. WindowsOK'
    BY <1>8 DEF Done, TypeOK, WindowsOK
  <2>4. TypeOK'
    BY <1>1, <2>2, <2>3, TypeParts DEF TablesOK
  <2> QED BY <2>1, <2>4 DEF WindowFits, RowFits, AnswerFits
<1> QED BY <1>2, <1>3, <1>4, <1>6, <1>7, <1>8 DEF StepOf, Answered, Fail

-----------------------------------------------------------------------------
(* The invariant, and what follows from it *)

LEMMA InitRInv == Init => RInv
<1> SUFFICES ASSUME Init
             PROVE  RInv
  OBVIOUS
<1>1. TypeOK
  BY DEF Init, TypeOK
<1> QED BY <1>1 DEF Init, RInv, FilesFit, ObjectsFit, WindowFits, RowFits, AnswerFits

LEMMA StepRInv == RInv /\ [Next]_vars => RInv'
<1> SUFFICES ASSUME RInv, [Next]_vars
             PROVE  RInv'
  OBVIOUS
<1>1. CASE Changes
  <2>1. /\ TypeOK' /\ FilesFit' /\ ObjectsFit' /\ UNCHANGED requests
        /\ \A w \in Workers : WindowFits(w)' /\ Grows(w)
    BY <1>1, ChangesStep
  <2>2. ASSUME NEW w \in Workers
        PROVE  RowFits(w)' /\ AnswerFits(w)'
    <3>1. pc'[w] = pc[w] /\ task'[w] = task[w] /\ row'[w] = row[w] /\ answer'[w] = answer[w]
      BY <2>1 DEF requests
    <3> QED BY <2>1, <3>1, ReadKept
  <2> QED BY <2>1, <2>2 DEF RInv
<1>2. ASSUME NEW w \in Workers, StepOf(w)
      PROVE  RInv'
  <2>1. TypeOK' /\ WindowFits(w)' /\ RowFits(w)' /\ AnswerFits(w)'
    BY <1>2, OwnStep
  <2>2. /\ UNCHANGED <<files, versions, stored>>
        /\ \A v \in Workers \ {w} :
             /\ pc'[v] = pc[v] /\ task'[v] = task[v] /\ row'[v] = row[v]
             /\ answer'[v] = answer[v] /\ window'[v] = window[v]
    BY <1>2, Alone DEF RInv
  <2>3. FilesFit' /\ ObjectsFit'
    BY <2>2 DEF RInv, FilesFit, ObjectsFit
  <2>4. ASSUME NEW v \in Workers \ {w}
        PROVE  WindowFits(v)' /\ RowFits(v)' /\ AnswerFits(v)'
    <3>1. WindowFits(v)'
      BY <2>2 DEF RInv, WindowFits
    <3>2. Grows(v)
      BY <2>2 DEF Grows
    <3> QED BY <2>2, <3>1, <3>2, ReadKept
  <2> QED BY <2>1, <2>3, <2>4 DEF RInv
<1>3. CASE UNCHANGED vars
  <2>1. TypeOK' /\ FilesFit' /\ ObjectsFit'
    BY <1>3, TypeParts DEF vars, requests, RInv, TablesOK, ReadsOK, WindowsOK, FilesFit, ObjectsFit
  <2>2. ASSUME NEW v \in Workers
        PROVE  WindowFits(v)' /\ RowFits(v)' /\ AnswerFits(v)'
    <3>1. WindowFits(v)' /\ Grows(v)
      BY <1>3 DEF vars, requests, RInv, WindowFits, Grows
    <3> QED BY <1>3, <3>1, ReadKept DEF vars, requests
  <2> QED BY <2>1, <2>2 DEF RInv
<1> QED BY <1>1, <1>2, <1>3 DEF Next, Changes, StepOf

\* The inductive invariant of the tables, of what reads have found in them and
\* of the versions that were current meanwhile, for any number of reads.
THEOREM ReadInvariance == Spec => []RInv
BY InitRInv, StepRInv, PTL DEF Spec

\* readFile and readContent answer as if they had happened in one instant, with
\* the bytes of the version they name, whatever mutations commit between the
\* lookup and the read of the object.
THEOREM CurrentCorrect == Spec => []ReadIsCurrent
<1>1. RInv => ReadIsCurrent
  BY DEF RInv, TypeOK, AnswerFits, ContentFits, ReadIsCurrent
<1> QED BY <1>1, ReadInvariance, PTL

\* readContent reports a lost or damaged object only where something outside
\* the program touched it.
THEOREM FailureCorrect == Spec => []FailsOnlyOnDrift
<1>1. RInv => FailsOnlyOnDrift
  BY DEF RInv, TypeOK, AnswerFits, DriftFits, FailsOnlyOnDrift
<1> QED BY <1>1, ReadInvariance, PTL

\* parseSingleByteRange selects exactly the bytes the header asks for, for any
\* numbers in the header and any size up to the largest that it accepts.
THEOREM SliceCorrect == Spec => []SliceIsExact
<1>1. RInv => SliceIsExact
  <2>1. SUFFICES ASSUME RInv, NEW w \in Workers, pc[w] = "reply", answer[w].status = "content"
                 PROVE  Exact(answer[w].slice, task[w].range, Size[answer[w].content])
    BY DEF Exact, SliceIsExact
  <2>2. task[w].range \in Header
    BY <2>1, ReadPathAssumption DEF RInv, WindowFits, TypeOK, Task
  <2>3. ContentFits(w)
    BY <2>1 DEF RInv, TypeOK, AnswerFits
  <2>4. answer[w].content \in Contents
    BY <2>1, <2>3 DEF RInv, TypeOK, ContentFits, VersionRow
  <2>5. Size[answer[w].content] \in 1 .. MaxSafe
    BY <2>4, ReadPathAssumption
  <2> QED BY <2>1, <2>2, <2>3, <2>5, ParserExact DEF ContentFits
<1> QED BY <1>1, ReadInvariance, PTL
=============================================================================
