---------------------------- MODULE LifecycleProofs ----------------------------
(* Proofs about Lifecycle: who has a connection while others wait for one, and *)
(* how the process ends, for any number of requests and connections.          *)
EXTENDS Lifecycle, FiniteSetTheorems, TLAPS

-----------------------------------------------------------------------------
(* The inductive invariant *)

\* The connections in use.
Uses == {u \in Requests \X {1, 2} : u[2] <= held[u[1]]}

\* A request has one connection while its statements run and none otherwise, and
\* asks for as many as its operation needs; nobody waits twice.
PoolFits ==
  /\ \A r \in Requests :
       /\ held[r] = IF pc[r] \in {"running", "locked"} THEN 1 ELSE 0
       /\ pc[r] = "ask" => left[r] > 0
  /\ IsFiniteSet(Uses) /\ Cardinality(Uses) <= PoolSize
  /\ \A i, j \in DOMAIN queue : queue[i] = queue[j] => i = j

\* How far the shutdown is.  Callbacks wait while callers keep the server open;
\* after its close the pool is ending, and only a second signal kills the process.
ShutdownFits ==
  /\ signalled # {} <=> server # "listening"
  /\ callbacks > 0 <=> server = "closing"
  /\ pool # "open" <=> server = "closed"
  /\ server = "closed" => attached = {}
  /\ signalled # Signals => callbacks <= 1 /\ process # "killed"
  /\ process = "killed" => server = "closed"
  /\ pool = "ended" => Uses = {}
  /\ process = "exited" => pool = "ended"

LInv == TypeOK /\ PoolFits /\ ShutdownFits

LEMMA InUseFacts == InUse = Cardinality(Uses)
BY DEF InUse, Uses

-----------------------------------------------------------------------------
(* The steps *)

\* A connection more, for a request that had none.
LEMMA OneMore ==
  ASSUME LInv, InUse < PoolSize, NEW r \in Requests, held[r] = 0,
         held' = [held EXCEPT ![r] = @ + 1]
  PROVE  IsFiniteSet(Uses)' /\ Cardinality(Uses)' <= PoolSize
<1>1. Uses' = Uses \cup {<<r, 1>>}
  BY DEF Uses, LInv, TypeOK
<1>2. IsFiniteSet(Uses) /\ Cardinality(Uses) \in Nat /\ Cardinality(Uses) < PoolSize
  BY InUseFacts, FS_CardinalityType DEF LInv, PoolFits
<1>3. /\ IsFiniteSet(Uses \cup {<<r, 1>>})
      /\ Cardinality(Uses \cup {<<r, 1>>}) =
           IF <<r, 1>> \in Uses THEN Cardinality(Uses) ELSE Cardinality(Uses) + 1
  BY <1>2, FS_AddElement
<1> QED BY <1>1, <1>2, <1>3, LifecycleAssumption

\* Connections that are given back.
LEMMA OneLess ==
  ASSUME LInv, NEW r \in Requests, held' = [held EXCEPT ![r] = 0]
  PROVE  IsFiniteSet(Uses)' /\ Cardinality(Uses)' <= PoolSize /\ Uses' \subseteq Uses
<1>1. Uses' \in SUBSET Uses
  BY DEF Uses, LInv, TypeOK
<1>2. IsFiniteSet(Uses') /\ Cardinality(Uses') <= Cardinality(Uses)
  BY <1>1, FS_Subset DEF LInv, PoolFits
<1>3. Cardinality(Uses') \in Nat /\ Cardinality(Uses) \in Nat
  BY <1>2, FS_CardinalityType DEF LInv, PoolFits
<1> QED BY <1>1, <1>2, <1>3, LifecycleAssumption DEF LInv, PoolFits

ShutdownTyped ==
  /\ signalled \subseteq Signals
  /\ server \in {"listening", "closing", "closed"}
  /\ callbacks \in 0 .. 2
  /\ pool \in {"open", "ending", "ended"}
  /\ process \in {"running", "exited", "killed"}

\* A caller leaves, or a signal adds a callback.
LEMMA CloseTyped ==
  ASSUME LInv, NEW callers, NEW n \in 0 .. 2, CloseUnless(callers, n), signalled' \subseteq Signals
  PROVE  ShutdownTyped'
BY DEF LInv, TypeOK, CloseUnless, ShutdownTyped

LEMMA LeaveTyped ==
  ASSUME LInv, NEW r \in Requests, Leave(r)
  PROVE  ShutdownTyped'
<1>1. callbacks \in 0 .. 2 /\ signalled' = signalled /\ signalled \subseteq Signals
  BY DEF LInv, TypeOK, Leave
<1>2. CASE server = "closing"
  BY <1>1, <1>2, CloseTyped DEF Leave
<1>3. CASE server # "closing"
  BY <1>1, <1>3 DEF Leave, LInv, TypeOK, ShutdownTyped
<1> QED BY <1>2, <1>3

InQueue(q, r) == \E i \in DOMAIN q : q[i] = r
Distinct(q) == \A i, j \in DOMAIN q : q[i] = q[j] => i = j

LEMMA AppendFacts ==
  ASSUME NEW q \in Seq(Requests), Distinct(q), NEW r \in Requests, ~InQueue(q, r)
  PROVE  /\ Append(q, r) \in Seq(Requests) /\ Distinct(Append(q, r))
         /\ \A x : InQueue(Append(q, r), x) <=> InQueue(q, x) \/ x = r
<1>0. PICK n \in Nat : n = Len(q)
  OBVIOUS
<1>1. PICK p : p = Append(q, r)
  OBVIOUS
<1>2. /\ p \in Seq(Requests) /\ DOMAIN q = 1 .. n /\ DOMAIN p = 1 .. n + 1
      /\ p[n + 1] = r /\ \A i \in 1 .. n : p[i] = q[i]
  BY <1>0, <1>1
<1>3. Distinct(p)
  BY <1>2 DEF Distinct, InQueue
<1>4. ASSUME NEW x
      PROVE  InQueue(p, x) <=> InQueue(q, x) \/ x = r
  <2>1. \A i \in 1 .. n : i \in 1 .. n + 1
    OBVIOUS
  <2>2. \A i \in 1 .. n + 1 : i \in 1 .. n \/ i = n + 1
    OBVIOUS
  <2>3. n + 1 \in 1 .. n + 1
    OBVIOUS
  <2> QED BY <1>2, <2>1, <2>2, <2>3 DEF InQueue
<1> QED BY <1>1, <1>2, <1>3, <1>4

LEMMA TailFacts ==
  ASSUME NEW q \in Seq(Requests), Distinct(q), q # <<>>
  PROVE  /\ Head(q) \in Requests /\ InQueue(q, Head(q))
         /\ Tail(q) \in Seq(Requests) /\ Distinct(Tail(q))
         /\ \A x : InQueue(Tail(q), x) <=> InQueue(q, x) /\ x # Head(q)
<1>0. PICK n \in Nat : n = Len(q) /\ n > 0
  OBVIOUS
<1>1. PICK t : t = Tail(q)
  OBVIOUS
<1>2. /\ t \in Seq(Requests) /\ DOMAIN q = 1 .. n /\ DOMAIN t = 1 .. n - 1
      /\ Head(q) = q[1] /\ \A i \in 1 .. n - 1 : t[i] = q[i + 1]
  BY <1>0, <1>1
<1>3. Head(q) \in Requests /\ InQueue(q, Head(q))
  BY <1>0, <1>2 DEF InQueue
<1>4. Distinct(t)
  <2>1. SUFFICES ASSUME NEW i \in 1 .. n - 1, NEW j \in 1 .. n - 1, t[i] = t[j]
                 PROVE  i = j
    BY <1>2 DEF Distinct
  <2>2. i + 1 \in 1 .. n /\ j + 1 \in 1 .. n /\ q[i + 1] = q[j + 1]
    BY <1>0, <1>2, <2>1
  <2>3. i + 1 = j + 1
    BY <1>2, <2>2 DEF Distinct
  <2> QED BY <2>3
<1>5. ASSUME NEW x
      PROVE  InQueue(t, x) <=> InQueue(q, x) /\ x # Head(q)
  <2>1. ASSUME InQueue(t, x)
        PROVE  InQueue(q, x) /\ x # Head(q)
    <3>1. PICK i \in 1 .. n - 1 : q[i + 1] = x
      BY <1>2, <2>1 DEF InQueue
    <3>2. i + 1 \in 1 .. n /\ i + 1 # 1 /\ 1 \in 1 .. n
      BY <1>0
    <3> QED BY <1>2, <3>1, <3>2 DEF InQueue, Distinct
  <2>2. ASSUME InQueue(q, x), x # Head(q)
        PROVE  InQueue(t, x)
    <3>1. PICK i \in 1 .. n : q[i] = x
      BY <1>2, <2>2 DEF InQueue
    <3>2. i - 1 \in 1 .. n - 1 /\ (i - 1) + 1 = i
      BY <1>2, <2>2, <3>1
    <3> QED BY <1>2, <3>1, <3>2 DEF InQueue
  <2> QED BY <2>1, <2>2
<1> QED BY <1>1, <1>2, <1>3, <1>4, <1>5

\* The part of TypeOK and PoolFits about the queue.
LEMMA QueueFacts ==
  ASSUME LInv
  PROVE  /\ queue \in Seq(Requests) /\ Distinct(queue)
         /\ \A r \in Requests : pc[r] = "queued" <=> InQueue(queue, r)
BY DEF LInv, TypeOK, PoolFits, InQueue, Distinct

\* What a request does to the tables of requests, one request at a time.
LEMMA RequestStep ==
  ASSUME LInv, NEW r \in Requests, NEW label \in PCs, NEW m \in 0 .. 2,
         Goto(r, label),
         left' = [left EXCEPT ![r] = m], label = "ask" => m > 0,
         held' = [held EXCEPT ![r] = IF label \in {"running", "locked"} THEN 1 ELSE 0],
         IsFiniteSet(Uses)', Cardinality(Uses)' <= PoolSize,
         kind' \in [Requests -> Kinds],
         queue' \in Seq(Requests), Distinct(queue)',
         \A x \in Requests \ {r} : InQueue(queue, x)' <=> InQueue(queue, x),
         InQueue(queue, r)' <=> label = "queued",
         row' = IF label = "locked" THEN r ELSE Unlocked(r),
         label = "locked" => row \in {r, Nobody},
         attached' \subseteq Requests,
         UNCHANGED shutdown \/ ShutdownTyped'
  PROVE  TypeOK' /\ PoolFits'
<1> USE DEF LInv
<1>1. pc' = [pc EXCEPT ![r] = label] /\ pc' \in [Requests -> PCs]
  BY DEF Goto, TypeOK
<1>2. \A x \in Requests : pc'[x] = "queued" <=> InQueue(queue, x)'
  BY <1>1, QueueFacts DEF TypeOK
<1>3. \A x \in Requests : pc'[x] = "locked" <=> row' = x
  BY <1>1, LifecycleAssumption DEF TypeOK, Unlocked
<1>4. row' \in Requests \cup {Nobody}
  BY DEF TypeOK, Unlocked
<1>5. left' \in [Requests -> 0 .. 2] /\ held' \in [Requests -> 0 .. 2]
  BY DEF TypeOK
<1>6. TypeOK'
  BY <1>1, <1>2, <1>3, <1>4, <1>5 DEF TypeOK, InQueue, shutdown, ShutdownTyped
<1>7. \A x \in Requests :
        /\ held'[x] = IF pc'[x] \in {"running", "locked"} THEN 1 ELSE 0
        /\ pc'[x] = "ask" => left'[x] > 0
  BY <1>1 DEF TypeOK, PoolFits
<1> QED BY <1>6, <1>7 DEF PoolFits, Distinct

\* Every step of a request keeps the pool as it should be.
LEMMA PoolStep ==
  ASSUME LInv, NEW r \in Requests,
         \/ \E k \in Kinds : Accept(r, k)
         \/ Step(r) \/ LockRow(r) \/ Fail(r) \/ Respond(r)
  PROVE  TypeOK' /\ PoolFits'
<1> USE DEF LInv
<1>1. /\ pc \in [Requests -> PCs] /\ kind \in [Requests -> Kinds]
      /\ left \in [Requests -> 0 .. 2] /\ held \in [Requests -> 0 .. 2]
      /\ attached \subseteq Requests /\ row \in Requests \cup {Nobody}
      /\ pc[r] = "locked" <=> row = r
      /\ held[r] = IF pc[r] \in {"running", "locked"} THEN 1 ELSE 0
      /\ pc[r] = "ask" => left[r] > 0
      /\ IsFiniteSet(Uses) /\ Cardinality(Uses) <= PoolSize
      /\ r # Nobody
  BY LifecycleAssumption DEF TypeOK, PoolFits
<1>2. /\ queue \in Seq(Requests) /\ Distinct(queue)
      /\ pc[r] = "queued" <=> InQueue(queue, r)
  BY QueueFacts
<1>3. \A q : q = queue => \A x : InQueue(q, x) <=> InQueue(queue, x)
  OBVIOUS
<1>4. /\ held' = held => /\ IsFiniteSet(Uses)' /\ Cardinality(Uses)' <= PoolSize
      /\ held' = [held EXCEPT ![r] = 0] => IsFiniteSet(Uses)' /\ Cardinality(Uses)' <= PoolSize
  BY <1>1, OneLess DEF Uses
<1>5. ASSUME NEW k \in Kinds, Accept(r, k)
      PROVE  TypeOK' /\ PoolFits'
  <2>1. PICK m \in 0 .. 2 : m = Connections(k) /\ m > 0
    BY DEF Connections
  <2>2. /\ Goto(r, "ask") /\ left' = [left EXCEPT ![r] = m] /\ held' = held
        /\ held' = [held EXCEPT ![r] = 0] /\ kind' \in [Requests -> Kinds]
        /\ queue' = queue /\ row' = Unlocked(r) /\ attached' \subseteq Requests
        /\ UNCHANGED shutdown
    BY <1>1, <1>5, <2>1 DEF Accept, Unlocked
  <2>3. pc[r] # "queued"
    BY <1>5 DEF Accept
  <2> QED BY <1>2, <1>4, <2>1, <2>2, <2>3, RequestStep DEF PCs
<1>6. CASE Connect(r)
  <2>1. PICK m \in 0 .. 2 : m = left[r] - 1
    BY <1>1, <1>6 DEF Connect
  <2>2. /\ left' = [left EXCEPT ![r] = m] /\ kind' \in [Requests -> Kinds]
        /\ row' = Unlocked(r) /\ row' = row /\ attached' \subseteq Requests
        /\ held[r] = 0 /\ pc[r] = "ask" /\ UNCHANGED shutdown
    BY <1>1, <1>6, <2>1 DEF Connect, Unlocked
  <2>3. ASSUME queue = <<>>, InUse < PoolSize
        PROVE  TypeOK' /\ PoolFits'
    <3>1. /\ held' = [held EXCEPT ![r] = @ + 1] /\ held' = [held EXCEPT ![r] = 1]
          /\ Goto(r, "running") /\ queue' = queue
      BY <1>1, <1>6, <2>2, <2>3 DEF Connect
    <3>2. IsFiniteSet(Uses)' /\ Cardinality(Uses)' <= PoolSize
      BY <2>2, <2>3, <3>1, OneMore
    <3> QED BY <1>2, <2>1, <2>2, <3>1, <3>2, RequestStep DEF PCs
  <2>4. ASSUME ~(queue = <<>> /\ InUse < PoolSize)
        PROVE  TypeOK' /\ PoolFits'
    <3>1. /\ held' = held /\ held' = [held EXCEPT ![r] = 0]
          /\ Goto(r, "queued") /\ queue' = Append(queue, r)
      BY <1>1, <1>6, <2>2, <2>4 DEF Connect
    <3>2. /\ queue' \in Seq(Requests) /\ Distinct(queue)'
          /\ \A x : InQueue(queue, x)' <=> InQueue(queue, x) \/ x = r
      BY <1>2, <2>2, <3>1, AppendFacts
    <3> QED BY <1>4, <2>1, <2>2, <3>1, <3>2, RequestStep DEF PCs
  <2> QED BY <2>3, <2>4
<1>7. CASE RefuseConnect(r)
  <2>1. PICK m \in 0 .. 2 : m = left[r]
    BY <1>1
  <2>2. /\ Goto(r, "answer") /\ left' = [left EXCEPT ![r] = m] /\ held' = held
        /\ held' = [held EXCEPT ![r] = 0] /\ kind' \in [Requests -> Kinds]
        /\ queue' = queue /\ row' = Unlocked(r) /\ attached' \subseteq Requests
        /\ UNCHANGED shutdown /\ pc[r] = "ask"
    BY <1>1, <1>7, <2>1 DEF RefuseConnect, Unlocked
  <2> QED BY <1>2, <1>4, <2>1, <2>2, RequestStep DEF PCs
<1>8. CASE LockRow(r)
  <2>1. PICK m \in 0 .. 2 : m = left[r]
    BY <1>1
  <2>2. /\ Goto(r, "locked") /\ left' = [left EXCEPT ![r] = m] /\ held' = held
        /\ held' = [held EXCEPT ![r] = 1] /\ kind' \in [Requests -> Kinds]
        /\ queue' = queue /\ row' = r /\ row = Nobody /\ attached' \subseteq Requests
        /\ UNCHANGED shutdown /\ pc[r] = "running"
    BY <1>1, <1>8, <2>1 DEF LockRow
  <2> QED BY <1>2, <1>4, <2>1, <2>2, RequestStep DEF PCs
<1>9. ASSUME NEW label \in {"ask", "answer"}, Goto(r, label), Release(r),
             label = "ask" => left[r] > 0, pc[r] \in {"running", "locked"},
             UNCHANGED <<kind, left, queue, attached, shutdown>>
      PROVE  TypeOK' /\ PoolFits'
  <2>1. PICK m \in 0 .. 2 : m = left[r]
    BY <1>1
  <2>2. /\ left' = [left EXCEPT ![r] = m]
        /\ held' = [held EXCEPT ![r] = 0] /\ kind' \in [Requests -> Kinds]
        /\ queue' = queue /\ row' = Unlocked(r) /\ attached' \subseteq Requests
        /\ UNCHANGED shutdown /\ label = "ask" => m > 0
    BY <1>1, <1>9, <2>1 DEF Release
  <2> QED BY <1>2, <1>4, <1>9, <2>1, <2>2, RequestStep, ZenonT(30) DEF PCs
<1>10. CASE Finish(r)
  <2>1. PICK label \in {"ask", "answer"} : label = IF left[r] > 0 THEN "ask" ELSE "answer"
    OBVIOUS
  <2> QED BY <1>9, <1>10, <2>1 DEF Finish
<1>11. CASE Fail(r)
  BY <1>9, <1>11 DEF Fail
<1>12. CASE LoseRace(r)
  <2>1. /\ held' = [held EXCEPT ![r] = 0] /\ kind' \in [Requests -> Kinds]
        /\ row' = Unlocked(r) /\ attached' \subseteq Requests
        /\ UNCHANGED shutdown /\ pc[r] = "running" /\ left[r] > 0
    BY <1>1, <1>12 DEF LoseRace, Unlocked
  <2>2. ASSUME pool = "open"
        PROVE  TypeOK' /\ PoolFits'
    <3>1. PICK m \in 0 .. 2 : m = left[r] - 1
      BY <1>1, <2>1
    <3>2. /\ left' = [left EXCEPT ![r] = m]
          /\ Goto(r, "queued") /\ queue' = Append(queue, r)
      BY <1>1, <1>12, <2>2, <3>1 DEF LoseRace
    <3>3. /\ queue' \in Seq(Requests) /\ Distinct(queue)'
          /\ \A x : InQueue(queue, x)' <=> InQueue(queue, x) \/ x = r
      BY <1>2, <2>1, <3>2, AppendFacts
    <3> QED BY <1>4, <2>1, <3>1, <3>2, <3>3, RequestStep DEF PCs
  <2>3. ASSUME pool # "open"
        PROVE  TypeOK' /\ PoolFits'
    <3>1. PICK m \in 0 .. 2 : m = left[r]
      BY <1>1
    <3>2. left' = [left EXCEPT ![r] = m] /\ Goto(r, "answer") /\ queue' = queue
      BY <1>1, <1>12, <2>3, <3>1 DEF LoseRace
    <3> QED BY <1>2, <1>4, <2>1, <3>1, <3>2, RequestStep DEF PCs
  <2> QED BY <2>2, <2>3
<1>13. CASE Respond(r)
  <2>1. PICK m \in 0 .. 2 : m = 0
    OBVIOUS
  <2>2. /\ Goto(r, "none") /\ left' = [left EXCEPT ![r] = m] /\ held' = held
        /\ held' = [held EXCEPT ![r] = 0] /\ kind' \in [Requests -> Kinds]
        /\ queue' = queue /\ row' = Unlocked(r) /\ attached' \subseteq Requests
        /\ pc[r] = "answer"
    BY <1>1, <1>13, <2>1 DEF Respond, Leave, Unlocked
  <2>3. ShutdownTyped'
    BY <1>13, LeaveTyped DEF Respond
  <2> QED BY <1>2, <1>4, <2>1, <2>2, <2>3, RequestStep DEF PCs
<1> QED BY <1>5, <1>6, <1>7, <1>8, <1>10, <1>11, <1>12, <1>13 DEF Step

LEMMA GrantStep ==
  ASSUME LInv, Grant
  PROVE  TypeOK' /\ PoolFits'
<1> USE DEF LInv
<1>1. PICK r \in Requests : r = Head(queue)
  BY QueueFacts, TailFacts DEF Grant
<1>2. /\ queue' = Tail(queue) /\ InQueue(queue, r)
      /\ queue' \in Seq(Requests) /\ Distinct(queue)'
      /\ \A x : InQueue(queue, x)' <=> InQueue(queue, x) /\ x # r
  BY <1>1, QueueFacts, TailFacts DEF Grant
<1>3. pc[r] = "queued" /\ held[r] = 0
  BY <1>2, QueueFacts DEF PoolFits
<1>4. /\ held' = [held EXCEPT ![r] = @ + 1] /\ held' = [held EXCEPT ![r] = 1]
      /\ Goto(r, "running") /\ InUse < PoolSize
      /\ UNCHANGED <<kind, left, row, attached, shutdown>>
  BY <1>1, <1>3 DEF Grant, TypeOK
<1>5. IsFiniteSet(Uses)' /\ Cardinality(Uses)' <= PoolSize
  BY <1>3, <1>4, OneMore
<1>6. PICK m \in 0 .. 2 : m = left[r]
  BY DEF TypeOK
<1>7. /\ left' = [left EXCEPT ![r] = m] /\ row' = Unlocked(r)
      /\ kind' \in [Requests -> Kinds] /\ attached' \subseteq Requests
  BY <1>3, <1>4, <1>6 DEF TypeOK, Unlocked
<1> QED BY <1>2, <1>4, <1>5, <1>6, <1>7, RequestStep DEF PCs

\* The callers leave, signals arrive, and the pool is as it was.
LEMMA ShutdownKeepsPool ==
  ASSUME LInv, (\E r \in Requests : Disconnect(r)) \/ (\E s \in Signals : Signal(s)) \/ PoolEnds \/ Exit
  PROVE  TypeOK' /\ PoolFits'
<1> USE DEF LInv
<1>1. UNCHANGED requests /\ attached' \subseteq attached
  BY DEF Disconnect, Leave, Signal, PoolEnds, Exit
<1>2. ShutdownTyped'
  <2>1. ASSUME NEW s \in Signals, Signal(s)
        PROVE  ShutdownTyped'
    <3>1. /\ signalled # Signals /\ callbacks \in 0 .. 2
          /\ signalled' \subseteq Signals /\ CloseUnless(attached, callbacks + 1)
      BY <2>1 DEF Signal, TypeOK
    <3>2. callbacks + 1 \in 0 .. 2
      BY <3>1 DEF ShutdownFits
    <3> QED BY <3>1, <3>2, CloseTyped
  <2>2. ASSUME NEW r \in Requests, Disconnect(r)
        PROVE  ShutdownTyped'
    BY <2>2, LeaveTyped DEF Disconnect
  <2>3. CASE PoolEnds \/ Exit
    BY <2>3 DEF PoolEnds, Exit, TypeOK, ShutdownTyped
  <2> QED BY <2>1, <2>2, <2>3
<1> QED BY <1>1, <1>2 DEF requests, TypeOK, PoolFits, Uses, ShutdownTyped

LEMMA SignalFacts == Cardinality(Signals) = 2 /\ IsFiniteSet(Signals)
<1>1. IsFiniteSet({"SIGTERM"}) /\ Cardinality({"SIGTERM"}) = 1
  BY FS_Singleton
<1>2. Signals = {"SIGTERM"} \cup {"SIGINT"}
  BY DEF Signals
<1> QED BY <1>1, <1>2, FS_AddElement

\* What the close of the server, or its delay by callers, makes of the shutdown.
LEMMA CloseFits ==
  ASSUME LInv, process = "running", NEW n \in 1 .. 2, CloseUnless(attached', n),
         Uses' = Uses, signalled' # {}, pool # "open" => attached' = {},
         signalled' # Signals => pool = "open" /\ n = 1
  PROVE  ShutdownFits'
<1> USE DEF LInv
<1>1. CASE attached' # {}
  <2>1. /\ server' = "closing" /\ callbacks' = n /\ pool' = "open"
        /\ process' = "running"
    BY <1>1 DEF CloseUnless
  <2> QED BY <2>1 DEF ShutdownFits
<1>2. CASE attached' = {}
  <2>1. /\ server' = "closed" /\ callbacks' = 0 /\ pool' # "open"
        /\ process' \in {"running", "killed"}
        /\ signalled' # Signals => process' = "running"
    BY <1>2 DEF CloseUnless
  <2>2. pool' = "ended" => Uses' = {}
    <3>1. pool' = "ended" => pool = "ended" \/ InUse = 0
      BY <1>2 DEF CloseUnless
    <3>2. InUse = 0 => Uses = {}
      BY InUseFacts, FS_EmptySet DEF PoolFits
    <3> QED BY <3>1, <3>2 DEF ShutdownFits
  <2> QED BY <1>2, <2>1, <2>2 DEF ShutdownFits
<1> QED BY <1>1, <1>2

LEMMA ShutdownStep ==
  ASSUME LInv, Next
  PROVE  ShutdownFits'
<1> USE DEF LInv
<1>1. process = "running" /\ signalled \subseteq Signals /\ callbacks \in 0 .. 2
  BY DEF Next, TypeOK
<1>2. ASSUME UNCHANGED shutdown, pool # "open" => attached' \subseteq attached,
             pool = "ended" => Uses' \subseteq Uses
      PROVE  ShutdownFits'
  BY <1>2 DEF ShutdownFits, shutdown
<1>3. ASSUME NEW r \in Requests, Step(r) \/ LockRow(r) \/ Fail(r)
      PROVE  ShutdownFits'
  <2>1. UNCHANGED shutdown /\ attached' = attached
    BY <1>3 DEF Step, Connect, RefuseConnect, Finish, LoseRace, LockRow, Fail
  <2>2. pool = "ended" => held' = held \/ held' = [held EXCEPT ![r] = 0]
    BY <1>3 DEF Step, Connect, RefuseConnect, Finish, LoseRace, LockRow, Fail, Release
  <2>3. pool = "ended" => Uses' \subseteq Uses
    BY <2>2, OneLess DEF Uses
  <2> QED BY <1>2, <2>1, <2>3
<1>4. ASSUME NEW r \in Requests, NEW k \in Kinds, Accept(r, k)
      PROVE  ShutdownFits'
  <2>1. pool = "open"
    BY <1>4 DEF Accept, ShutdownFits, TypeOK
  <2> QED BY <1>2, <1>4, <2>1 DEF Accept
<1>5. CASE Grant
  BY <1>2, <1>5 DEF Grant
<1>6. ASSUME NEW r \in Requests, Respond(r) \/ Disconnect(r)
      PROVE  ShutdownFits'
  <2>1. held' = held /\ Uses' = Uses /\ Leave(r) /\ signalled' = signalled
    BY <1>6 DEF Respond, Disconnect, Leave, requests, Uses
  <2>2. CASE server = "closing"
    <3>1. CloseUnless(attached', callbacks) /\ callbacks > 0 /\ pool = "open"
      BY <2>1, <2>2 DEF Leave, ShutdownFits, TypeOK
    <3>2. callbacks \in 1 .. 2 /\ (signalled # Signals => callbacks = 1)
      BY <1>1, <3>1 DEF ShutdownFits
    <3>3. signalled' # {}
      BY <2>1, <2>2 DEF ShutdownFits
    <3> QED BY <1>1, <2>1, <3>1, <3>2, <3>3, CloseFits
  <2>3. CASE server # "closing"
    BY <1>2, <2>1, <2>3 DEF Leave, shutdown
  <2> QED BY <2>2, <2>3
<1>7. ASSUME NEW s \in Signals, Signal(s)
      PROVE  ShutdownFits'
  <2>1. signalled # Signals /\ (signalled # {} => signalled' = Signals) /\ signalled' # {}
    BY <1>1, <1>7 DEF Signal, Signals
  <2>2. signalled = {} => pool = "open" /\ callbacks + 1 = 1
    BY <1>1, <1>7 DEF Signal, ShutdownFits, TypeOK
  <2>3. Uses' = Uses /\ attached' = attached /\ CloseUnless(attached', callbacks + 1)
    BY <1>7 DEF Signal, requests, Uses
  <2>4. callbacks + 1 \in 1 .. 2 /\ (pool # "open" => attached = {})
    BY <1>1, <2>1 DEF ShutdownFits
  <2> QED BY <1>1, <2>1, <2>2, <2>3, <2>4, CloseFits
<1>8. CASE PoolEnds
  <2>1. Uses' = Uses
    BY <1>8 DEF PoolEnds, requests, Uses
  <2>2. Uses = {}
    BY <1>8, InUseFacts, FS_EmptySet DEF PoolEnds, PoolFits
  <2> QED BY <1>1, <1>8, <2>1, <2>2 DEF PoolEnds, ShutdownFits
<1>9. CASE Exit
  <2>1. Uses' = Uses
    BY <1>9 DEF Exit, requests, Uses
  <2> QED BY <1>1, <1>9, <2>1 DEF Exit, ShutdownFits
<1> QED BY <1>3, <1>4, <1>5, <1>6, <1>7, <1>8, <1>9 DEF Next

LEMMA InitLInv == Init => LInv
<1> SUFFICES ASSUME Init PROVE LInv
  OBVIOUS
<1>1. Uses = {}
  BY DEF Init, Uses
<1>2. IsFiniteSet(Uses) /\ Cardinality(Uses) = 0
  BY <1>1, FS_EmptySet
<1>3. TypeOK
  BY LifecycleAssumption DEF Init, TypeOK, PCs, Kinds, Signals
<1>4. PoolFits
  BY <1>2, LifecycleAssumption DEF Init, PoolFits
<1>5. ShutdownFits
  BY <1>1 DEF Init, ShutdownFits
<1> QED BY <1>3, <1>4, <1>5 DEF LInv

LEMMA StepLInv == LInv /\ [Next]_vars => LInv'
<1> SUFFICES ASSUME LInv, [Next]_vars PROVE LInv'
  OBVIOUS
<1>1. CASE Next
  <2>1. TypeOK' /\ PoolFits'
    BY <1>1, PoolStep, GrantStep, ShutdownKeepsPool DEF Next
  <2> QED BY <1>1, <2>1, ShutdownStep DEF LInv
<1>2. CASE UNCHANGED vars
  BY <1>2 DEF vars, requests, shutdown, LInv, TypeOK, PoolFits, ShutdownFits, Uses
<1> QED BY <1>1, <1>2

-----------------------------------------------------------------------------
(* Theorems *)

\* In every behaviour a request has a connection while its statements run and
\* only then, and the shutdown of src/src/main.js is in one of its stages.
THEOREM LifecycleInvariance == Spec => []LInv
BY InitLInv, StepLInv, PTL DEF Spec

\* Whoever waits for a connection has given back the one it had, with the row it
\* locked, and there are never more connections than the pool may open: the
\* finally blocks of src/src/postgres-repository.js, for any number of requests.
THEOREM PoolCorrect == Spec => []WaitersHoldNothing
<1>1. LInv => WaitersHoldNothing
  BY InUseFacts DEF LInv, PoolFits, TypeOK, WaitersHoldNothing
<1> QED BY <1>1, LifecycleInvariance, PTL

\* The handlers of src/src/main.js end the pool, and with it the process, only
\* when no caller is connected, and after one signal the process exits by itself
\* with its connections given back.
THEOREM ShutdownCorrect == Spec => []OrderlyShutdown
<1>1. LInv => OrderlyShutdown
  <2> SUFFICES ASSUME LInv PROVE OrderlyShutdown
    OBVIOUS
  <2>1. Uses = {} => InUse = 0
    BY InUseFacts, FS_EmptySet
  <2>2. Cardinality(signalled) <= 1 => signalled # Signals
    BY SignalFacts
  <2>3. process \in {"running", "exited", "killed"}
    BY DEF LInv, TypeOK
  <2>4. /\ pool # "open" => attached = {}
        /\ process = "killed" => pool # "open"
        /\ signalled # Signals => process # "killed"
        /\ pool = "ended" => Uses = {}
        /\ process = "exited" => pool = "ended"
    BY DEF LInv, ShutdownFits
  <2> QED BY <2>1, <2>2, <2>3, <2>4 DEF OrderlyShutdown
<1> QED BY <1>1, LifecycleInvariance, PTL
=============================================================================
