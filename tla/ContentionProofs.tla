-------------------------- MODULE ContentionProofs --------------------------
(* Proofs about Contention: the order of locks admits no deadlock, for any    *)
(* number of operations on any accounts, files and uploads.                  *)
EXTENDS Contention, SequenceTheorems, FiniteSetTheorems, TLAPS

-----------------------------------------------------------------------------
(* The inductive invariant *)

\* Two operations have a lock on the same row only if they share it.
Exclusive ==
  \A l, m \in locks : l.by # m.by /\ l.row = m.row => l.mode = "share" /\ m.mode = "share"

\* What an operation that still needs a lock can hold: the locks it has come
\* before that one in the order of the tables, but for the account that a new
\* upload shares after its key; and an account it is registering is unknown to
\* everybody else.
LocksFit(w) ==
  pc[w] = "run" /\ plan[w] # << >> =>
    \A l \in locks : l.by = w =>
      /\ Need(w).mode # "register" /\ l.mode = "update" /\ l.row \notin UploadIds
      /\ l.row \in Files => Need(w).row \in UploadIds
      /\ l.row \in Owners \X Keys => Need(w).mode = "share" /\ l.row[1] = Need(w).row
      /\ l.row \in Owners =>
           /\ Need(w).row \in {l.row} \cup ({l.row} \X Keys) \cup Files \cup UploadIds
           /\ Need(w).mode = "insert" => l.row \notin committed

\* The account is there when its upload is inserted.
Registered(w, o) == o \in committed \/ [by |-> w, row |-> o, mode |-> "update"] \in locks
KeysFit(w) ==
  pc[w] = "run" =>
    /\ plan[w] # << >> /\ Need(w).mode = "insert" => Registered(w, Need(w).row[1])
    /\ \A l \in locks : l.by = w /\ l.row \in Owners \X Keys => Registered(w, l.row[1])

\* Whoever has no connection has not taken a lock yet.
PlansFit == \A w \in Workers : pc[w] = "connect" => plan[w] \in Operations

CInv ==
  /\ TypeOK /\ IsFiniteSet(connected)
  /\ Exclusive /\ PlansFit
  /\ \A w \in Workers : LocksFit(w) /\ KeysFit(w)

-----------------------------------------------------------------------------
(* The plans of operations *)

\* The lock at i of plan p, and the one after it, follow the order of the code:
\* account, then file, then upload; or account, key, and the account shared.
OrderedAt(p, i) ==
  \/ /\ p[i].mode = "register" /\ p[i].row \in Owners
     /\ i < Len(p) => \/ p[i + 1].mode = "update" /\ p[i + 1].row = p[i].row
                      \/ p[i + 1].mode = "insert" /\ p[i + 1].row \in {p[i].row} \X Keys
  \/ /\ p[i].mode = "update" /\ p[i].row \in Owners
     /\ i < Len(p) => p[i + 1].mode = "update" /\ p[i + 1].row \in Files \cup UploadIds
  \/ /\ p[i].mode = "update" /\ p[i].row \in Files
     /\ i < Len(p) => p[i + 1].mode = "update" /\ p[i + 1].row \in UploadIds
  \/ p[i].mode = "update" /\ p[i].row \in UploadIds /\ i = Len(p)
  \/ /\ p[i].mode = "insert" /\ p[i].row \in Owners \X Keys
     /\ i < Len(p) => p[i + 1].mode = "share" /\ p[i + 1].row = p[i].row[1]
  \/ p[i].mode = "share" /\ p[i].row \in Owners /\ i = Len(p)

\* An operation begins with its account, its upload, or nothing at all.
Opens(p) ==
  p # << >> => p[1].mode = "register" \/ (p[1].mode = "update" /\ p[1].row \in UploadIds)

Ordered(p) == p \in Seq(Takes) /\ Opens(p) /\ \A i \in 1 .. Len(p) : OrderedAt(p, i)

LEMMA OperationsOrdered ==
  ASSUME NEW p \in Operations
  PROVE  Ordered(p)
<1> USE ContentionAssumption
<1> DEFINE Is(x, mode, row) == x \in Takes /\ x.mode = mode /\ x.row = row
<1>1. ASSUME NEW o \in Owners
      PROVE  Is(Register(o), "register", o) /\ Is(LockAccount(o), "update", o)
  BY DEF Register, LockAccount, Take, Takes, Rows
<1>2. ASSUME NEW x \in Files \cup UploadIds
      PROVE  Is(LockFound(x), "update", x) /\ Is(Take("update", x, FALSE), "update", x)
  BY DEF LockFound, Take, Takes, Rows
<1>3. ASSUME NEW o \in Owners, NEW f \in Files \cup UploadIds, NEW r, NEW a, NEW x,
             Is(r, "register", o), Is(a, "update", o), Is(x, "update", f), p = <<r, a, x>>
      PROVE  Ordered(p)
  <2>1. p \in Seq(Takes) /\ Len(p) = 3 /\ p[1] = r /\ p[2] = a /\ p[3] = x
    BY <1>3
  <2>2. 1 .. Len(p) = {1, 2, 3}
    BY <2>1
  <2> QED BY <1>3, <2>1, <2>2 DEF Ordered, Opens, OrderedAt
<1>4. ASSUME NEW u \in UploadIds, p = createFile(u)
      PROVE  Ordered(p)
  <2>1. PICK o \in Owners : o = OwnerOf[u]
    OBVIOUS
  <2>2. PICK r, a, x : r = Register(o) /\ a = LockAccount(o) /\ x = LockFound(u)
    OBVIOUS
  <2>3. Is(r, "register", o) /\ Is(a, "update", o) /\ Is(x, "update", u)
    BY <1>1, <1>2, <2>2
  <2>4. p = <<r, a, x>>
    BY <1>4, <2>1, <2>2 DEF createFile
  <2> QED BY <1>3, <2>3, <2>4
<1>5. ASSUME NEW f \in Files, NEW u \in UploadIds, p = updateFile(f, u)
      PROVE  Ordered(p)
  <2>1. PICK o \in Owners : o = OwnerOf[f]
    OBVIOUS
  <2>2. PICK r, a, x, y : r = Register(o) /\ a = LockAccount(o) /\ x = LockFound(f) /\ y = LockFound(u)
    OBVIOUS
  <2>3. Is(r, "register", o) /\ Is(a, "update", o) /\ Is(x, "update", f) /\ Is(y, "update", u)
    BY <1>1, <1>2, <2>2
  <2>4. p = <<r, a, x, y>>
    BY <1>5, <2>1, <2>2 DEF updateFile
  <2>5. p \in Seq(Takes) /\ Len(p) = 4 /\ p[1] = r /\ p[2] = a /\ p[3] = x /\ p[4] = y
    BY <2>3, <2>4
  <2>6. 1 .. Len(p) = {1, 2, 3, 4}
    BY <2>5
  <2> QED BY <2>3, <2>5, <2>6 DEF Ordered, Opens, OrderedAt
<1>6. ASSUME NEW f \in Files, p = deleteFile(f)
      PROVE  Ordered(p)
  <2>1. PICK o \in Owners : o = OwnerOf[f]
    OBVIOUS
  <2>2. PICK r, a, x : r = Register(o) /\ a = LockAccount(o) /\ x = LockFound(f)
    OBVIOUS
  <2>3. Is(r, "register", o) /\ Is(a, "update", o) /\ Is(x, "update", f)
    BY <1>1, <1>2, <2>2
  <2>4. p = <<r, a, x>>
    BY <1>6, <2>1, <2>2 DEF deleteFile
  <2> QED BY <1>3, <2>3, <2>4
<1>7. ASSUME NEW o \in Owners, NEW k \in Keys, p = openUpload(o, k)
      PROVE  Ordered(p)
  <2>1. PICK x, z : x = Register(o) /\ z = Take("share", o, FALSE)
    OBVIOUS
  <2>2. PICK y : y = Take("insert", <<o, k>>, TRUE)
    OBVIOUS
  <2>3. Is(x, "register", o) /\ Is(z, "share", o)
    BY <2>1 DEF Register, Take, Takes, Rows
  <2>4. Is(y, "insert", <<o, k>>)
    BY <2>2 DEF Take, Takes, Rows
  <2>5. p = <<x, y, z>>
    BY <1>7, <2>2, <2>1 DEF openUpload
  <2>6. p \in Seq(Takes) /\ Len(p) = 3 /\ p[1] = x /\ p[2] = y /\ p[3] = z
    BY <2>3, <2>5, <2>4
  <2>7. 1 .. Len(p) = {1, 2, 3}
    BY <2>6
  <2>8. y.row \in {x.row} \X Keys /\ y.row \in Owners \X Keys /\ z.row = y.row[1]
    BY <2>3, <2>4
  <2> QED BY <2>3, <2>4, <2>6, <2>7, <2>8 DEF Ordered, Opens, OrderedAt
<1>8. ASSUME NEW u \in UploadIds, p = lockUpload(u)
      PROVE  Ordered(p)
  <2>1. PICK x : x = Take("update", u, FALSE)
    OBVIOUS
  <2>2. Is(x, "update", u) /\ p = <<x>>
    BY <1>2, <1>8, <2>1 DEF lockUpload
  <2>3. p \in Seq(Takes) /\ Len(p) = 1 /\ p[1] = x /\ 1 .. Len(p) = {1}
    BY <2>2
  <2> QED BY <2>2, <2>3 DEF Ordered, Opens, OrderedAt
<1>9. ASSUME NEW o \in Owners, p = readFeed(o)
       PROVE  Ordered(p)
  <2>1. PICK x : x = Register(o)
    OBVIOUS
  <2>2. Is(x, "register", o) /\ p = <<x>>
    BY <1>1, <1>9, <2>1 DEF readFeed
  <2>3. p \in Seq(Takes) /\ Len(p) = 1 /\ p[1] = x /\ 1 .. Len(p) = {1}
    BY <2>2
  <2> QED BY <2>2, <2>3 DEF Ordered, Opens, OrderedAt
<1>10. CASE p = Query
  BY <1>10 DEF Query, Ordered, Opens
<1> QED BY <1>4, <1>5, <1>6, <1>7, <1>8, <1>9, <1>10 DEF Operations

\* What comes after the lock x in a plan whose rest is t.
Follows(x, t) ==
  \/ /\ x.mode = "register" /\ x.row \in Owners
     /\ t # << >> => \/ Head(t).mode = "update" /\ Head(t).row = x.row
                     \/ Head(t).mode = "insert" /\ Head(t).row \in {x.row} \X Keys
  \/ /\ x.mode = "update" /\ x.row \in Owners
     /\ t # << >> => Head(t).mode = "update" /\ Head(t).row \in Files \cup UploadIds
  \/ /\ x.mode = "update" /\ x.row \in Files
     /\ t # << >> => Head(t).mode = "update" /\ Head(t).row \in UploadIds
  \/ x.mode = "update" /\ x.row \in UploadIds /\ t = << >>
  \/ /\ x.mode = "insert" /\ x.row \in Owners \X Keys
     /\ t # << >> => Head(t).mode = "share" /\ Head(t).row = x.row[1]
  \/ x.mode = "share" /\ x.row \in Owners /\ t = << >>

LEMMA RestFacts ==
  ASSUME NEW q \in Rests
  PROVE  /\ q # None /\ q \in Seq(Takes)
         /\ q # << >> => Tail(q) \in Rests /\ Head(q) \in Takes /\ Follows(Head(q), Tail(q))
<1>1. PICK p \in Operations : \E i \in 1 .. Len(p) + 1 : q = SubSeq(p, i, Len(p))
  BY DEF Rests
<1>2. p \in Seq(Takes) /\ \A i \in 1 .. Len(p) : OrderedAt(p, i)
  BY OperationsOrdered DEF Ordered
<1>3. PICK i \in 1 .. Len(p) + 1 : q = SubSeq(p, i, Len(p))
  BY <1>1
<1>4. PICK n \in Nat : n = Len(p)
  BY <1>2
<1>5. q \in Seq(Takes)
  BY <1>2, <1>3, <1>4
<1>6. q # None
  BY <1>5, PlanAssumption
<1>7. ASSUME NEW j \in 1 .. n + 1
      PROVE  /\ j = n + 1 => SubSeq(p, j, n) = << >>
             /\ j <= n => SubSeq(p, j, n) # << >> /\ Head(SubSeq(p, j, n)) = p[j]
  BY <1>2, <1>4
<1>8. ASSUME q # << >>
      PROVE  Tail(q) \in Rests /\ Head(q) \in Takes /\ Follows(Head(q), Tail(q))
  <2>1. i \in 1 .. n
    BY <1>3, <1>4, <1>7, <1>8
  <2>2. Head(q) = p[i] /\ p[i] \in Takes
    BY <1>2, <1>3, <1>4, <1>7, <2>1
  <2>3. Tail(q) = SubSeq(p, i + 1, n)
    BY <1>2, <1>3, <1>4, <2>1, HeadTailOfSubSeq
  <2>4. Tail(q) \in Rests
    <3>1. i + 1 \in 1 .. Len(p) + 1 /\ Tail(q) = SubSeq(p, i + 1, Len(p))
      BY <1>4, <2>1, <2>3
    <3>2. Tail(q) \in {SubSeq(p, j, Len(p)) : j \in 1 .. Len(p) + 1}
      BY <3>1
    <3> QED BY <3>2 DEF Rests
  <2>5. i + 1 \in 1 .. n + 1
    BY <2>1
  <2>6. i = n => Tail(q) = << >>
    BY <1>7, <2>3, <2>5
  <2>7. i < n => Tail(q) # << >> /\ Head(Tail(q)) = p[i + 1]
    <3>1. PICK j \in 1 .. n + 1 : j = i + 1
      BY <2>5
    <3>2. j <= n => SubSeq(p, j, n) # << >> /\ Head(SubSeq(p, j, n)) = p[j]
      BY <1>7
    <3>3. Tail(q) = SubSeq(p, j, n) /\ p[j] = p[i + 1]
      BY <2>3, <3>1
    <3>4. i < n => j <= n
      BY <3>1
    <3> QED BY <3>2, <3>3, <3>4
  <2>8. OrderedAt(p, i)
    BY <1>2, <1>4, <2>1
  <2>9. Follows(p[i], Tail(q))
    BY <1>4, <2>1, <2>6, <2>7, <2>8, SMTT(30) DEF OrderedAt, Follows
  <2> QED BY <2>2, <2>4, <2>9
<1> QED BY <1>5, <1>6, <1>8

LEMMA OperationFacts ==
  ASSUME NEW p \in Operations
  PROVE  /\ p \in Rests
         /\ p # << >> => \/ Head(p).mode = "register"
                         \/ Head(p).mode = "update" /\ Head(p).row \in UploadIds
<1>1. p \in Seq(Takes) /\ Opens(p)
  BY OperationsOrdered DEF Ordered
<1>2. SubSeq(p, 1, Len(p)) = p /\ 1 \in 1 .. Len(p) + 1
  BY <1>1
<1>3. p \in Rests
  BY <1>2 DEF Rests
<1>4. p # << >> => Head(p) = p[1]
  BY <1>1
<1> QED BY <1>1, <1>3, <1>4 DEF Opens

LEMMA QueryFacts == Query \in Operations /\ Query = << >>
BY DEF Operations, Query

-----------------------------------------------------------------------------
(* The steps *)

\* The statement of w takes the lock that w needs,
Took(w, mode) ==
  /\ Waiting(w) /\ Acquire(w, mode)
  /\ mode = IF Need(w).mode = "share" THEN "share" ELSE "update"
  /\ Need(w).mode \in {"register", "insert"} => ~There(w)
\* or finds the account there,
Skipped(w) ==
  /\ Waiting(w) /\ Need(w).mode = "register" /\ There(w)
  /\ Goto(w, "run", Tail(plan[w]))
  /\ UNCHANGED <<committed, connected, locks>>
\* or w ends its transaction, with a row of its own committed or none.
Left(w) ==
  /\ Running(w) /\ Release(w)
  /\ Goto(w, "idle", None) \/ Goto(w, "connect", Query)
  /\ committed' = committed
       \/ committed' = committed \cup
            {l.row : l \in {k \in LocksOf(w) : k.row \in Owners \cup (Owners \X Keys)}}

LEMMA Classified ==
  ASSUME Next
  PROVE  \E w \in Workers :
           \/ \E p \in Operations : Begin(w, p)
           \/ Connect(w) \/ Skipped(w) \/ Left(w)
           \/ \E mode \in {"share", "update"} : Took(w, mode)
<1>1. PICK w \in Workers :
        \/ \E p \in Operations : Begin(w, p)
        \/ Connect(w) \/ Statement(w) \/ Commit(w) \/ End(w) \/ Fail(w)
  BY DEF Next
<1>2. ASSUME Commit(w) \/ LoseRace(w) \/ NotFound(w) \/ Fail(w)
      PROVE  Left(w)
  BY <1>2 DEF Commit, LoseRace, NotFound, Fail, Left, Waiting
<1>3. EnsureAccount(w) => Skipped(w) \/ Took(w, "update")
  BY DEF EnsureAccount, Skipped, Took
<1>4. LockRow(w) \/ ClaimKey(w) => Took(w, "update")
  BY DEF LockRow, ClaimKey, Took
<1>5. ShareAccount(w) => Took(w, "share")
  BY DEF ShareAccount, Took
<1> QED BY <1>1, <1>2, <1>3, <1>4, <1>5 DEF Statement, End

LEMMA NeedFacts ==
  ASSUME TypeOK, NEW w \in Workers, Waiting(w)
  PROVE  /\ plan[w] \in Rests /\ Tail(plan[w]) \in Rests
         /\ Need(w) \in Takes /\ Follows(Need(w), Tail(plan[w]))
<1>1. plan[w] \in Rests /\ plan[w] # << >>
  BY DEF TypeOK, Waiting, Running
<1> QED BY <1>1, RestFacts DEF Need

\* A lock that w takes is the only one on its row, unless it is shared.
LEMMA TookFacts ==
  ASSUME CInv, NEW w \in Workers, NEW mode \in {"share", "update"}, Took(w, mode)
  PROVE  /\ pc'[w] = "run" /\ plan'[w] = Tail(plan[w])
         /\ locks' = locks \cup {[by |-> w, row |-> Need(w).row, mode |-> mode]}
         /\ UNCHANGED <<committed, connected>>
         /\ \A l \in locks : l.by # w /\ l.row = Need(w).row => l.mode = "share" /\ mode = "share"
<1>1. /\ pc'[w] = "run" /\ plan'[w] = Tail(plan[w])
      /\ locks' = locks \cup {[by |-> w, row |-> Need(w).row, mode |-> mode]}
      /\ UNCHANGED <<committed, connected>>
  BY DEF Took, Acquire, Goto, CInv, TypeOK
<1>2. ASSUME NEW l \in locks, l.by # w, l.row = Need(w).row
      PROVE  l.mode = "share" /\ mode = "share"
  <2>1. l.by \in Workers /\ l.mode \in {"share", "update"}
    BY DEF CInv, TypeOK, Lock
  <2>2. ~WaitsFor(w, l.by)
    BY <2>1 DEF Took, Acquire
  <2>3. ~Holds(l.by, w)
    BY <1>2, <2>2 DEF Took, WaitsFor
  <2> QED BY <1>2, <2>1, <2>3 DEF Holds, Took
<1> QED BY <1>1, <1>2

LEMMA StepType ==
  ASSUME CInv, [Next]_vars
  PROVE  TypeOK' /\ IsFiniteSet(connected)'
<1> USE DEF CInv
<1>1. ASSUME NEW w \in Workers, NEW p \in Operations, Begin(w, p)
      PROVE  TypeOK' /\ IsFiniteSet(connected)'
  <2>1. p \in Rests /\ p # None
    BY OperationFacts, RestFacts
  <2>2. /\ pc' = [pc EXCEPT ![w] = "connect"] /\ plan' = [plan EXCEPT ![w] = p]
        /\ pc[w] = "idle" /\ UNCHANGED <<committed, connected, locks>>
    BY <1>1 DEF Begin, Goto
  <2> QED BY <2>1, <2>2 DEF TypeOK
<1>2. ASSUME NEW w \in Workers, Connect(w)
      PROVE  TypeOK' /\ IsFiniteSet(connected)'
  <2>1. /\ pc' = [pc EXCEPT ![w] = "run"] /\ plan' = [plan EXCEPT ![w] = plan[w]]
        /\ pc[w] = "connect" /\ UNCHANGED <<committed, locks>>
        /\ connected' = connected \cup {w} /\ Cardinality(connected) < PoolSize
    BY <1>2 DEF Connect, Goto
  <2>2. IsFiniteSet(connected') /\ Cardinality(connected') <= PoolSize
    <3>1. Cardinality(connected) \in Nat
      BY FS_CardinalityType
    <3>2. /\ IsFiniteSet(connected \cup {w})
          /\ Cardinality(connected \cup {w}) =
               IF w \in connected THEN Cardinality(connected) ELSE Cardinality(connected) + 1
      BY FS_AddElement
    <3> QED BY <2>1, <3>1, <3>2, ContentionAssumption
  <2> QED BY <2>1, <2>2 DEF TypeOK
<1>3. ASSUME NEW w \in Workers, Skipped(w)
      PROVE  TypeOK' /\ IsFiniteSet(connected)'
  <2>1. Tail(plan[w]) \in Rests /\ Tail(plan[w]) # None
    BY <1>3, NeedFacts, RestFacts DEF Skipped
  <2>2. /\ pc' = [pc EXCEPT ![w] = "run"] /\ plan' = [plan EXCEPT ![w] = Tail(plan[w])]
        /\ pc[w] = "run" /\ UNCHANGED <<committed, connected, locks>>
    BY <1>3 DEF Skipped, Goto, Waiting, Running
  <2> QED BY <2>1, <2>2 DEF TypeOK
<1>4. ASSUME NEW w \in Workers, NEW mode \in {"share", "update"}, Took(w, mode)
      PROVE  TypeOK' /\ IsFiniteSet(connected)'
  <2>1. /\ Tail(plan[w]) \in Rests /\ Tail(plan[w]) # None
        /\ Need(w).row \in Rows
    BY <1>4, NeedFacts, RestFacts DEF Took, Takes
  <2>2. PICK l : l = [by |-> w, row |-> Need(w).row, mode |-> mode]
    OBVIOUS
  <2>3. l \in Lock /\ l.by = w
    BY <2>1, <2>2 DEF Lock
  <2>4. /\ pc' = [pc EXCEPT ![w] = "run"] /\ plan' = [plan EXCEPT ![w] = Tail(plan[w])]
        /\ pc[w] = "run" /\ UNCHANGED <<committed, connected>> /\ locks' = locks \cup {l}
    BY <1>4, <2>2 DEF Took, Acquire, Goto, Waiting, Running
  <2> QED BY <2>1, <2>3, <2>4 DEF TypeOK
<1>5. ASSUME NEW w \in Workers, Left(w)
      PROVE  TypeOK' /\ IsFiniteSet(connected)'
  <2>1. /\ \/ pc' = [pc EXCEPT ![w] = "idle"] /\ plan' = [plan EXCEPT ![w] = None]
           \/ pc' = [pc EXCEPT ![w] = "connect"] /\ plan' = [plan EXCEPT ![w] = Query]
        /\ pc[w] = "run" /\ connected' = connected \ {w}
        /\ locks' \subseteq locks /\ \A l \in locks' : l.by # w
    BY <1>5 DEF Left, Goto, Running, Release, LocksOf
  <2>2. Query \in Rests /\ Query # None
    BY QueryFacts, OperationFacts, RestFacts
  <2>3. IsFiniteSet(connected') /\ Cardinality(connected') <= PoolSize
    <3>1. connected' \in SUBSET connected
      BY <2>1
    <3>2. IsFiniteSet(connected') /\ Cardinality(connected') <= Cardinality(connected)
      BY <3>1, FS_Subset
    <3>3. Cardinality(connected) \in Nat /\ Cardinality(connected') \in Nat
      BY <3>2, FS_CardinalityType
    <3> QED BY <3>2, <3>3, ContentionAssumption DEF TypeOK
  <2>4. committed' \subseteq Owners \cup (Owners \X Keys)
    BY <1>5 DEF Left, TypeOK
  <2>5. pc' \in [Workers -> {"idle", "connect", "run"}] /\ plan' \in [Workers -> Rests \cup {None}]
    BY <2>1, <2>2 DEF TypeOK
  <2>6. \A v \in Workers :
          /\ pc'[v] = "idle" <=> plan'[v] = None
          /\ pc'[v] = "run" <=> v \in connected'
    BY <2>1, <2>2 DEF TypeOK
  <2>7. connected' \subseteq Workers /\ locks' \subseteq Lock
    BY <2>1 DEF TypeOK
  <2>8. \A l \in locks' : pc'[l.by] = "run"
    <3>1. \A l \in locks' : l.by \in Workers /\ pc[l.by] = "run" /\ l.by # w
      BY <2>1 DEF TypeOK, Lock
    <3> QED BY <2>1, <3>1 DEF TypeOK
  <2> QED BY <2>3, <2>4, <2>5, <2>6, <2>7, <2>8 DEF TypeOK
<1>6. CASE UNCHANGED vars
  BY <1>6 DEF vars, TypeOK
<1> QED BY <1>1, <1>2, <1>3, <1>4, <1>5, <1>6, Classified

\* Locks on one row: none is given out beside another that excludes it.
LEMMA ExclusiveStep ==
  ASSUME CInv, [Next]_vars
  PROVE  Exclusive'
<1> USE DEF CInv
<1>1. CASE locks' \subseteq locks
  BY <1>1 DEF Exclusive
<1>2. ASSUME NEW w \in Workers, NEW mode \in {"share", "update"}, Took(w, mode)
      PROVE  Exclusive'
  <2>1. PICK new : new = [by |-> w, row |-> Need(w).row, mode |-> mode]
    OBVIOUS
  <2>2. /\ locks' = locks \cup {new} /\ new.by = w /\ new.row = Need(w).row /\ new.mode = mode
        /\ \A l \in locks : l.by # w /\ l.row = Need(w).row => l.mode = "share" /\ mode = "share"
    BY <1>2, <2>1, TookFacts
  <2> QED BY <2>2 DEF Exclusive
<1>3. ASSUME NEW w \in Workers,
             (\E p \in Operations : Begin(w, p)) \/ Connect(w) \/ Skipped(w) \/ Left(w)
      PROVE  locks' \subseteq locks
  BY <1>3 DEF Begin, Connect, Skipped, Left, Release
<1> QED BY <1>1, <1>2, <1>3, Classified DEF vars

\* The locks of other operations, and what is committed, stay as they are, but
\* for accounts and keys that only another operation had a lock on.
LEMMA OthersFit ==
  ASSUME CInv, NEW w \in Workers, NEW v \in Workers, v # w,
         pc'[v] = pc[v], plan'[v] = plan[v],
         \A l : l.by = v => (l \in locks' <=> l \in locks),
         committed \subseteq committed',
         \A r \in committed' : r \in committed \/ \E m \in locks : m.by = w /\ m.row = r
  PROVE  LocksFit(v)' /\ KeysFit(v)'
<1>1. Need(v)' = Need(v)
  BY DEF Need
<1>2. LocksFit(v)'
  <2>1. SUFFICES ASSUME pc[v] = "run", plan[v] # << >>, NEW l \in locks', l.by = v
                 PROVE  /\ Need(v).mode # "register" /\ l.mode = "update" /\ l.row \notin UploadIds
                        /\ l.row \in Files => Need(v).row \in UploadIds
                        /\ l.row \in Owners \X Keys => Need(v).mode = "share" /\ l.row[1] = Need(v).row
                        /\ l.row \in Owners =>
                             /\ Need(v).row \in {l.row} \cup ({l.row} \X Keys) \cup Files \cup UploadIds
                             /\ Need(v).mode = "insert" => l.row \notin committed'
    BY <1>1 DEF LocksFit
  <2>2. /\ Need(v).mode # "register" /\ l.mode = "update" /\ l.row \notin UploadIds
        /\ l.row \in Files => Need(v).row \in UploadIds
        /\ l.row \in Owners \X Keys => Need(v).mode = "share" /\ l.row[1] = Need(v).row
        /\ l.row \in Owners =>
             /\ Need(v).row \in {l.row} \cup ({l.row} \X Keys) \cup Files \cup UploadIds
             /\ Need(v).mode = "insert" => l.row \notin committed
    BY <2>1 DEF CInv, LocksFit
  <2>3. l.row \notin committed => l.row \notin committed'
    BY <2>1, <2>2 DEF CInv, Exclusive
  <2> QED BY <2>2, <2>3
<1>3. ASSUME NEW o, Registered(v, o)
      PROVE  Registered(v, o)'
  BY <1>3 DEF Registered
<1>4. KeysFit(v)'
  BY <1>1, <1>3 DEF CInv, KeysFit
<1> QED BY <1>2, <1>4

\* What w holds fits the next lock of its plan, once it has the one it needed.
LEMMA TookFits ==
  ASSUME CInv, NEW w \in Workers, NEW mode \in {"share", "update"}, Took(w, mode)
  PROVE  LocksFit(w)' /\ KeysFit(w)'
<1> USE ContentionAssumption
<1>1. PICK n, t : n = Need(w) /\ t = Tail(plan[w])
  OBVIOUS
<1>2. n \in Takes /\ Follows(n, t) /\ (t # << >> => Head(t) \in Takes)
  BY <1>1, NeedFacts, RestFacts DEF Took, CInv
<1>3. PICK new : new = [by |-> w, row |-> n.row, mode |-> mode]
  OBVIOUS
<1>4. /\ pc'[w] = "run" /\ plan'[w] = t /\ committed' = committed
      /\ locks' = locks \cup {new} /\ new.by = w /\ new.row = n.row /\ new.mode = mode
  BY <1>1, <1>3, TookFacts
<1>5. mode = IF n.mode = "share" THEN "share" ELSE "update"
  BY <1>1 DEF Took
<1>6. pc[w] = "run" /\ plan[w] # << >>
  BY DEF Took, Waiting, Running
<1>7. ASSUME NEW l \in locks, l.by = w
      PROVE  /\ l.row \in Rows /\ n.mode # "register" /\ l.mode = "update" /\ l.row \notin UploadIds
             /\ l.row \in Files => n.row \in UploadIds
             /\ l.row \in Owners \X Keys => n.mode = "share" /\ l.row[1] = n.row
             /\ l.row \in Owners => n.row \in {l.row} \cup ({l.row} \X Keys) \cup Files \cup UploadIds
  BY <1>1, <1>6, <1>7 DEF CInv, LocksFit, TypeOK, Lock
<1>8. ASSUME NEW o, Registered(w, o)
      PROVE  Registered(w, o)'
  BY <1>4, <1>8 DEF Registered
<1>9. \A l \in locks : l.by = w /\ l.row \in Owners \X Keys => Registered(w, l.row[1])'
  BY <1>6, <1>8 DEF CInv, KeysFit
<1> DEFINE Fits ==
      t # << >> =>
        \A l \in locks' : l.by = w =>
          /\ Head(t).mode # "register" /\ l.mode = "update" /\ l.row \notin UploadIds
          /\ l.row \in Files => Head(t).row \in UploadIds
          /\ l.row \in Owners \X Keys => Head(t).mode = "share" /\ l.row[1] = Head(t).row
          /\ l.row \in Owners =>
               /\ Head(t).row \in {l.row} \cup ({l.row} \X Keys) \cup Files \cup UploadIds
               /\ Head(t).mode = "insert" => l.row \notin committed
    Keys1 == t # << >> /\ Head(t).mode = "insert" => Registered(w, Head(t).row[1])'
    Keys2 == n.row \in Owners \X Keys => Registered(w, n.row[1])'
<1>10. ASSUME n.mode = "register", n.row \in Owners
       PROVE  Fits /\ Keys1 /\ Keys2
  <2>1. \A l \in locks' : l.by = w => l = new
    BY <1>4, <1>7, <1>10
  <2>2. n.row \notin committed
    BY <1>1, <1>10 DEF Took, There
  <2>3. Registered(w, n.row)'
    BY <1>3, <1>4, <1>5, <1>10 DEF Registered
  <2>4. t # << >> => \/ Head(t).mode = "update" /\ Head(t).row = n.row
                     \/ Head(t).mode = "insert" /\ Head(t).row \in {n.row} \X Keys
    BY <1>2, <1>10 DEF Follows
  <2>5. Fits
    BY <1>4, <1>5, <1>10, <2>1, <2>2, <2>4
  <2>6. Keys1
    BY <2>3, <2>4
  <2> QED BY <1>10, <2>5, <2>6
<1>11. ASSUME n.mode = "update", n.row \in Owners
       PROVE  Fits /\ Keys1 /\ Keys2
  <2>1. t # << >> => Head(t).mode = "update" /\ Head(t).row \in Files \cup UploadIds
    BY <1>2, <1>11 DEF Follows
  <2>2. \A l \in locks' : l.by = w => l.mode = "update" /\ l.row = n.row
    BY <1>4, <1>5, <1>7, <1>11 DEF Rows
  <2>3. Fits
    BY <1>11, <2>1, <2>2
  <2> QED BY <1>11, <2>1, <2>3
<1>12. ASSUME n.mode = "update", n.row \in Files
       PROVE  Fits /\ Keys1 /\ Keys2
  <2>1. t # << >> => Head(t).mode = "update" /\ Head(t).row \in UploadIds
    BY <1>2, <1>12 DEF Follows
  <2>2. \A l \in locks' : l.by = w => l.mode = "update" /\ l.row \in Owners \cup Files
    BY <1>4, <1>5, <1>7, <1>12 DEF Rows
  <2>3. Fits
    BY <2>1, <2>2
  <2> QED BY <1>12, <2>1, <2>3
<1>13. ASSUME n.mode = "update", n.row \in UploadIds
       PROVE  Fits /\ Keys1 /\ Keys2
  <2>1. t = << >>
    BY <1>2, <1>13 DEF Follows
  <2> QED BY <1>13, <2>1
<1>14. ASSUME n.mode = "insert", n.row \in Owners \X Keys
       PROVE  Fits /\ Keys1 /\ Keys2
  <2>1. t # << >> => Head(t).mode = "share" /\ Head(t).row = n.row[1]
    BY <1>2, <1>14 DEF Follows
  <2>2. n.row[1] \in Owners /\ n.row \in {n.row[1]} \X Keys
    BY <1>14
  <2>3. \A l \in locks : l.by = w => l.mode = "update" /\ l.row = n.row[1]
    BY <1>7, <1>14, <2>2 DEF Rows
  <2>4. Fits
    BY <1>4, <1>5, <1>14, <2>1, <2>2, <2>3
  <2>5. Registered(w, n.row[1])'
    BY <1>1, <1>6, <1>8, <1>14 DEF CInv, KeysFit
  <2> QED BY <1>14, <2>1, <2>4, <2>5
<1>15. ASSUME n.mode = "share", n.row \in Owners
       PROVE  Fits /\ Keys1 /\ Keys2
  <2>1. t = << >>
    BY <1>2, <1>15 DEF Follows
  <2> QED BY <1>15, <2>1
<1>16. Fits /\ Keys1 /\ Keys2
  BY <1>2, <1>10, <1>11, <1>12, <1>13, <1>14, <1>15 DEF Follows
<1>17. Need(w)' = Head(t)
  BY <1>4 DEF Need
<1>18. LocksFit(w)'
  BY <1>4, <1>16, <1>17 DEF LocksFit
<1>19. KeysFit(w)'
  BY <1>4, <1>9, <1>16, <1>17 DEF KeysFit
<1> QED BY <1>18, <1>19

LEMMA SkippedFits ==
  ASSUME CInv, NEW w \in Workers, Skipped(w)
  PROVE  LocksFit(w)' /\ KeysFit(w)'
<1> USE ContentionAssumption
<1>1. PICK n, t : n = Need(w) /\ t = Tail(plan[w])
  OBVIOUS
<1>2. Follows(n, t) /\ n.mode = "register"
  BY <1>1, NeedFacts DEF Skipped, CInv
<1>3. /\ n.row \in Owners
      /\ t # << >> /\ Head(t).mode = "insert" => Head(t).row \in {n.row} \X Keys
  BY <1>2 DEF Follows
<1>4. n.row \in committed
  BY <1>1, <1>3 DEF Skipped, There
<1>5. pc'[w] = "run" /\ plan'[w] = t /\ UNCHANGED <<committed, locks>>
  BY <1>1 DEF Skipped, Goto, CInv, TypeOK
<1>6. \A l \in locks' : l.by # w
  BY <1>1, <1>2, <1>5 DEF Skipped, Waiting, Running, CInv, LocksFit
<1>7. Need(w)' = Head(t)
  BY <1>5 DEF Need
<1>8. LocksFit(w)'
  BY <1>6 DEF LocksFit
<1>9. t # << >> /\ Head(t).mode = "insert" => Registered(w, Head(t).row[1])'
  BY <1>3, <1>4, <1>5 DEF Registered
<1>10. KeysFit(w)'
  BY <1>5, <1>6, <1>7, <1>9 DEF KeysFit
<1> QED BY <1>8, <1>10

LEMMA ConnectFits ==
  ASSUME CInv, NEW w \in Workers, Connect(w)
  PROVE  LocksFit(w)' /\ KeysFit(w)'
<1>1. /\ pc[w] = "connect" /\ pc'[w] = "run" /\ plan'[w] = plan[w]
      /\ UNCHANGED <<committed, locks>>
  BY DEF Connect, Goto, CInv, TypeOK
<1>2. \A l \in locks' : l.by # w
  BY <1>1 DEF CInv, TypeOK
<1>3. plan[w] # << >> => Head(plan[w]).mode # "insert"
  BY <1>1, OperationFacts DEF CInv, PlansFit
<1>4. Need(w)' = Head(plan[w])
  BY <1>1 DEF Need
<1> QED BY <1>1, <1>2, <1>3, <1>4 DEF LocksFit, KeysFit

LEMMA FitsStep ==
  ASSUME CInv, [Next]_vars
  PROVE  PlansFit' /\ \A v \in Workers : LocksFit(v)' /\ KeysFit(v)'
<1> USE DEF CInv
<1>1. ASSUME NEW w \in Workers,
             \/ \E p \in Operations : Begin(w, p)
             \/ Connect(w) \/ Skipped(w) \/ Left(w)
             \/ \E mode \in {"share", "update"} : Took(w, mode)
      PROVE  PlansFit' /\ \A v \in Workers : LocksFit(v)' /\ KeysFit(v)'
  <2>1. /\ \A v \in Workers \ {w} : pc'[v] = pc[v] /\ plan'[v] = plan[v]
        /\ pc'[w] = "connect" => plan'[w] \in Operations
    <3>1. \/ \E p \in Operations : Goto(w, "connect", p)
          \/ \E p : Goto(w, "run", p) \/ Goto(w, "idle", p)
      BY <1>1, QueryFacts DEF Begin, Connect, Skipped, Left, Took, Acquire
    <3> QED BY <3>1 DEF Goto, TypeOK
  <2>2. PlansFit'
    BY <2>1 DEF PlansFit
  <2>3. \A l : l.by # w => (l \in locks' <=> l \in locks)
    BY <1>1 DEF Begin, Connect, Skipped, Left, Release, LocksOf, Took, Acquire
  <2>4. /\ committed \subseteq committed'
        /\ \A r \in committed' : r \in committed \/ \E m \in locks : m.by = w /\ m.row = r
    BY <1>1 DEF Begin, Connect, Skipped, Left, LocksOf, Took, Acquire
  <2>5. ASSUME NEW v \in Workers \ {w}
        PROVE  LocksFit(v)' /\ KeysFit(v)'
    BY <2>1, <2>3, <2>4, OthersFit
  <2>6. pc'[w] # "run" => LocksFit(w)' /\ KeysFit(w)'
    BY DEF LocksFit, KeysFit
  <2>7. (\E p \in Operations : Begin(w, p)) \/ Left(w) => pc'[w] # "run"
    BY DEF Begin, Left, Goto, TypeOK
  <2>8. LocksFit(w)' /\ KeysFit(w)'
    BY <1>1, <2>6, <2>7, TookFits, SkippedFits, ConnectFits
  <2> QED BY <2>2, <2>5, <2>8
<1>2. CASE UNCHANGED vars
  BY <1>2 DEF vars, PlansFit, LocksFit, KeysFit, Need, Registered
<1> QED BY <1>1, <1>2, Classified

LEMMA InitCInv == Init => CInv
<1> SUFFICES ASSUME Init PROVE CInv
  OBVIOUS
<1>2. IsFiniteSet(connected) /\ Cardinality(connected) = 0
  BY FS_EmptySet DEF Init
<1>3. TypeOK
  BY <1>2, ContentionAssumption DEF Init, TypeOK
<1>4. Exclusive /\ PlansFit /\ \A w \in Workers : LocksFit(w) /\ KeysFit(w)
  BY DEF Init, Exclusive, PlansFit, LocksFit, KeysFit
<1> QED BY <1>2, <1>3, <1>4 DEF CInv

LEMMA StepCInv == CInv /\ [Next]_vars => CInv'
BY StepType, ExclusiveStep, FitsStep DEF CInv

-----------------------------------------------------------------------------
(* Theorems *)

\* In every behaviour the locks an operation holds fit those it still needs:
\* the order in which src/src/postgres-repository.js takes them.
THEOREM ContentionInvariance == Spec => []CInv
BY InitCInv, StepCInv, PTL DEF Spec

\* What an operation waits for is an exclusive lock of one that runs, and if
\* that one waits in turn, its lock comes before what it needs itself.
LEMMA WaitFacts ==
  ASSUME CInv, NEW w \in Workers, NEW v \in Workers, WaitsFor(w, v), pc[v] = "run" => Waiting(v)
  PROVE  /\ Waiting(v) /\ Need(w).row \notin UploadIds
         /\ [by |-> v, row |-> Need(w).row, mode |-> "update"] \in locks
         /\ Need(w).row \in Files => Need(v).row \in UploadIds
         /\ Need(w).row \in Owners \X Keys =>
              /\ Need(v).mode = "share" /\ Need(v).row = Need(w).row[1]
              /\ Registered(v, Need(w).row[1])
         /\ Need(w).row \in Owners =>
              /\ Need(v).row \in {Need(w).row} \cup ({Need(w).row} \X Keys) \cup Files \cup UploadIds
              /\ Need(v).mode = "insert" => Need(w).row \notin committed
<1>1. PICK l \in locks : l.by = v /\ l.row = Need(w).row
  BY DEF WaitsFor, Holds
<1>2. pc[v] = "run" /\ plan[v] # << >> /\ l \in Lock
  BY <1>1 DEF CInv, TypeOK, Waiting, Running
<1>3. LocksFit(v) /\ KeysFit(v)
  BY DEF CInv
<1>4. l.mode = "update"
  BY <1>1, <1>2, <1>3 DEF LocksFit
<1>5. l = [by |-> v, row |-> Need(w).row, mode |-> "update"]
  BY <1>1, <1>2, <1>4 DEF Lock
<1> QED BY <1>1, <1>2, <1>3, <1>5 DEF LocksFit, KeysFit, Waiting, Running

LEMMA NobodyStuck ==
  ASSUME CInv, NEW S \in SUBSET Workers, S # {}
  PROVE  ~Stuck(S)
<1> SUFFICES ASSUME Stuck(S) PROVE FALSE
  OBVIOUS
<1> USE ContentionAssumption
<1> DEFINE Blocked == {w \in S : pc[w] = "run"}
<1>1. \A w \in S : WaitsFor(w, w) => FALSE
  BY DEF WaitsFor
<1>2. ASSUME NEW w \in Blocked
      PROVE  Waiting(w) /\ \E v \in S : WaitsFor(w, v)
  BY DEF Stuck, WaitsFor
<1>3. ASSUME NEW w \in Blocked
      PROVE  \E v \in Blocked : WaitsFor(w, v)
  <2>1. PICK v \in S : WaitsFor(w, v)
    BY <1>2
  <2>2. pc[v] = "run" => Waiting(v)
    BY <1>2
  <2>3. Waiting(v)
    BY <2>1, <2>2, WaitFacts
  <2> QED BY <2>1, <2>3 DEF Waiting, Running
<1>4. \E w \in S : pc[w] = "run"
  <2>1. PICK w \in S : \/ pc[w] = "connect" /\ Cardinality(connected) >= PoolSize /\ connected \subseteq S
                       \/ \E v \in S : WaitsFor(w, v)
    BY DEF Stuck
  <2>2. CASE \E v \in S : WaitsFor(w, v)
    BY <2>2 DEF WaitsFor, Waiting, Running
  <2>3. CASE Cardinality(connected) >= PoolSize /\ connected \subseteq S
    <3>1. connected # {}
      BY <2>3, FS_EmptySet
    <3>2. \A v \in connected : pc[v] = "run"
      BY DEF CInv, TypeOK
    <3> QED BY <2>3, <3>1, <3>2
  <2> QED BY <2>1, <2>2, <2>3
<1>5. ASSUME NEW w \in Blocked
      PROVE  Need(w).row \notin UploadIds
  BY <1>2, <1>3, WaitFacts
<1>6. ASSUME NEW w \in Blocked
      PROVE  Need(w).row \notin Files
  BY <1>2, <1>3, <1>5, WaitFacts
\* Nobody who waits has locked an account.
<1>7. ASSUME NEW w \in Blocked, Need(w).row \in Owners
      PROVE  FALSE
  <2>1. PICK v \in Blocked : WaitsFor(w, v)
    BY <1>3
  <2>2. PICK o \in Owners : o = Need(w).row
    BY <1>7
  <2>3. /\ [by |-> v, row |-> o, mode |-> "update"] \in locks
        /\ Need(v).row \in {o} \cup ({o} \X Keys) \cup Files \cup UploadIds
        /\ Need(v).mode = "insert" => o \notin committed
    BY <1>2, <2>1, <2>2, WaitFacts
  <2>4. PICK x \in Blocked : WaitsFor(v, x)
    BY <1>3
  <2>5. x # v /\ [by |-> x, row |-> Need(v).row, mode |-> "update"] \in locks
    BY <1>2, <2>4, WaitFacts DEF WaitsFor
  <2>6. [by |-> x, row |-> o, mode |-> "update"] \notin locks
    BY <2>3, <2>5 DEF CInv, Exclusive
  <2>7. Need(v).row \in {o} \X Keys
    BY <1>5, <1>6, <2>3, <2>5, <2>6
  <2>8. Need(v).mode = "insert"
    BY <1>2, <2>7, NeedFacts DEF Follows, CInv
  <2>9. Registered(x, o)
    <3>1. Need(v).row \in Owners \X Keys /\ Need(v).row[1] = o
      BY <2>7
    <3> QED BY <1>2, <2>4, <3>1, WaitFacts
  <2> QED BY <2>3, <2>6, <2>8, <2>9 DEF Registered
<1>8. ASSUME NEW w \in Blocked, Need(w).row \in Owners \X Keys
      PROVE  FALSE
  <2>1. PICK v \in Blocked : WaitsFor(w, v)
    BY <1>3
  <2>2. Need(v).row = Need(w).row[1]
    BY <1>2, <1>8, <2>1, WaitFacts
  <2> QED BY <1>7, <1>8, <2>2
<1>9. ASSUME NEW w \in Blocked
      PROVE  Need(w).row \in Rows
  BY <1>2, NeedFacts DEF CInv, Takes
<1> QED BY <1>4, <1>5, <1>6, <1>7, <1>8, <1>9 DEF Rows

\* No set of operations waits for itself, whatever the number of operations,
\* connections, accounts, files and uploads: every operation of
\* src/src/postgres-repository.js locks the account before the file and the file
\* before the upload, and the key of a new upload while its account is sure to be
\* there or its own.
THEOREM DeadlockFree == Spec => []NoDeadlock
<1>1. CInv => NoDeadlock
  BY NobodyStuck DEF CInv, NoDeadlock
<1> QED BY <1>1, ContentionInvariance, PTL
=============================================================================
