------------------------------ MODULE Contention ------------------------------
(***************************************************************************)
(* Who waits for whom: every operation of src/src/postgres-repository.js   *)
(* as the connection and the row locks it takes, one after the other.      *)
(*                                                                         *)
(* Namespace, Uploads and ChangeFeed say what the operations do while they *)
(* hold their locks.  Here they meet: mutations, uploads, feed requests    *)
(* and plain queries of all accounts share the rows and the pool.          *)
(*                                                                         *)
(* External are the locks of PostgreSQL.  A statement keeps its lock until *)
(* the transaction ends.  INSERT takes the row of a new key, and whoever   *)
(* inserts the same key waits.  A foreign key takes a share lock on the    *)
(* row it names, which conflicts with FOR UPDATE; of the foreign keys of   *)
(* schema.js only the one from a new upload to its account names a row     *)
(* that the transaction has not locked or inserted itself.                 *)
(***************************************************************************)
EXTENDS Naturals, Sequences, FiniteSets

CONSTANTS
  Workers,     \* operations the servers may run at the same time
  PoolSize,    \* connections
  Owners, Files, UploadIds,
  OwnerOf,     \* the account of each file and upload
  Keys,        \* idempotency keys of uploads
  None         \* no operation

ASSUME ContentionAssumption ==
  /\ PoolSize \in Nat \ {0}
  /\ OwnerOf \in [Files \cup UploadIds -> Owners]
  /\ Owners \cap (Files \cup UploadIds) = {} /\ Files \cap UploadIds = {}
  /\ (Owners \X Keys) \cap (Owners \cup Files \cup UploadIds) = {}

-----------------------------------------------------------------------------
(* Operations as the locks they take *)

Rows == Owners \cup Files \cup UploadIds \cup (Owners \X Keys)

\* "register" inserts the account row unless it is there, "insert" a new key.
\* exit: the code may commit and return instead of taking the lock.
Take(mode, row, exit) == [mode |-> mode, row |-> row, exit |-> exit]
Takes == [mode: {"register", "update", "insert", "share"}, row: Rows, exit: BOOLEAN]

ASSUME PlanAssumption == None \notin Seq(Takes)

Register(o) == Take("register", o, FALSE)
LockAccount(o) == Take("update", o, FALSE)

\* A file or an upload, or the result that an earlier request has left.
LockFound(x) == Take("update", x, TRUE)

createFile(u) == LET o == OwnerOf[u] IN <<Register(o), LockAccount(o), LockFound(u)>>

\* Mutant: the upload is locked first.
updateFileUploadFirst(f, u) ==
  LET o == OwnerOf[f] IN <<LockFound(u), Register(o), LockAccount(o), LockFound(f)>>

updateFile(f, u) ==
  LET o == OwnerOf[f] IN <<Register(o), LockAccount(o), LockFound(f), LockFound(u)>>

deleteFile(f) == LET o == OwnerOf[f] IN <<Register(o), LockAccount(o), LockFound(f)>>

openUpload(o, k) == <<Register(o), Take("insert", <<o, k>>, TRUE), Take("share", o, FALSE)>>

\* commitChunk and finalizeUpload.
lockUpload(u) == <<Take("update", u, FALSE)>>

\* currentRevision and listChanges.
readFeed(o) == <<Register(o)>>

\* readFile, readContent, headUpload, health, and the lookup after a lost race.
Query == << >>

\* Files and uploads are looked up in the caller's account: one of another account
\* is refused there (Fail).
Operations ==
  {createFile(u) : u \in UploadIds}
    \cup {updateFile(x[1], x[2]) :
            x \in {y \in Files \X UploadIds : OwnerOf[y[1]] = OwnerOf[y[2]]}}
    \cup {deleteFile(f) : f \in Files}
    \cup {openUpload(o, k) : o \in Owners, k \in Keys}
    \cup {lockUpload(u) : u \in UploadIds}
    \cup {readFeed(o) : o \in Owners}
    \cup {Query}

-----------------------------------------------------------------------------
VARIABLES
  committed,  \* account rows and upload keys that are committed
  pc,         \* each operation: idle, waiting for a connection, or running
  plan,       \* the locks it has still to take
  connected,  \* operations that have a connection
  locks       \* locks that are held

vars == <<committed, pc, plan, connected, locks>>

\* What is left of a plan from some lock on.
Rests == UNION {{SubSeq(p, i, Len(p)) : i \in 1 .. Len(p) + 1} : p \in Operations}

Lock == [by: Workers, row: Rows, mode: {"share", "update"}]

TypeOK ==
  /\ committed \subseteq Owners \cup (Owners \X Keys)
  /\ pc \in [Workers -> {"idle", "connect", "run"}]
  /\ plan \in [Workers -> Rests \cup {None}]
  /\ connected \subseteq Workers /\ Cardinality(connected) <= PoolSize
  /\ locks \subseteq Lock
  /\ \A w \in Workers :
       /\ pc[w] = "idle" <=> plan[w] = None
       /\ pc[w] = "run" <=> w \in connected
  /\ \A l \in locks : pc[l.by] = "run"

Init ==
  /\ committed = {}
  /\ pc = [w \in Workers |-> "idle"]
  /\ plan = [w \in Workers |-> None]
  /\ connected = {}
  /\ locks = {}

-----------------------------------------------------------------------------
Goto(w, label, p) ==
  /\ pc' = [pc EXCEPT ![w] = label]
  /\ plan' = [plan EXCEPT ![w] = p]

Begin(w, p) ==
  /\ pc[w] = "idle"
  /\ Goto(w, "connect", p)
  /\ UNCHANGED <<committed, connected, locks>>

Connect(w) ==
  /\ pc[w] = "connect"
  /\ Cardinality(connected) < PoolSize
  /\ connected' = connected \cup {w}
  /\ Goto(w, "run", plan[w])
  /\ UNCHANGED <<committed, locks>>

Running(w) == pc[w] = "run"
Waiting(w) == Running(w) /\ plan[w] # << >>
Need(w) == Head(plan[w])

\* A lock of v that the next lock of w conflicts with.
Holds(v, w) ==
  \E l \in locks :
    l.by = v /\ l.row = Need(w).row /\ (l.mode = "update" \/ Need(w).mode # "share")

\* The row is there: an INSERT need not wait, and a file or upload is found.
There(w) ==
  LET x == Need(w).row
  IN IF x \in Files \cup UploadIds THEN OwnerOf[x] \in committed ELSE x \in committed

WaitsFor(w, v) ==
  /\ v # w
  /\ Waiting(w)
  /\ Need(w).mode \in {"register", "insert"} => ~There(w)
  /\ Holds(v, w)

Acquire(w, mode) ==
  /\ \A v \in Workers : ~WaitsFor(w, v)
  /\ locks' = locks \cup {[by |-> w, row |-> Need(w).row, mode |-> mode]}
  /\ Goto(w, "run", Tail(plan[w]))
  /\ UNCHANGED <<committed, connected>>

\* INSERT INTO accounts ... ON CONFLICT DO NOTHING.
EnsureAccount(w) ==
  /\ Waiting(w) /\ Need(w).mode = "register"
  /\ IF There(w)
       THEN Goto(w, "run", Tail(plan[w])) /\ UNCHANGED <<committed, connected, locks>>
       ELSE Acquire(w, "update")

\* SELECT ... FOR UPDATE of the account, a file or an upload.
LockRow(w) ==
  /\ Waiting(w) /\ Need(w).mode = "update"
  /\ There(w) \/ Need(w).row \in Owners
  /\ Acquire(w, "update")

\* INSERT INTO upload_sessions, and the foreign key to the account at its end.
ClaimKey(w) ==
  /\ Waiting(w) /\ Need(w).mode = "insert"
  /\ ~There(w)
  /\ Acquire(w, "update")
ShareAccount(w) ==
  /\ Waiting(w) /\ Need(w).mode = "share"
  /\ Acquire(w, "share")

-----------------------------------------------------------------------------
LocksOf(w) == {l \in locks : l.by = w}
Release(w) == connected' = connected \ {w} /\ locks' = locks \ LocksOf(w)

\* COMMIT at the end, or early: with a result found, or a rejection recorded.
Commit(w) ==
  /\ Running(w)
  /\ plan[w] # << >> => Need(w).exit
  /\ committed' = committed \cup
       {l.row : l \in {k \in LocksOf(w) : k.row \in Owners \cup (Owners \X Keys)}}
  /\ Release(w)
  /\ Goto(w, "idle", None)

\* Mutant: the lookup is awaited inside the try block, before the release.
LoseRaceAwaiting(w) ==
  /\ Waiting(w) /\ Need(w).mode = "insert"
  /\ There(w)
  /\ locks' = locks \ LocksOf(w)
  /\ Goto(w, "connect", Query)
  /\ UNCHANGED <<committed, connected>>

\* Mutant: the whole transaction is run again.
LoseRaceRepeating(w) ==
  /\ Waiting(w) /\ Need(w).mode = "insert"
  /\ There(w)
  /\ Release(w)
  /\ Goto(w, "connect", openUpload(Need(w).row[1], Need(w).row[2]))
  /\ UNCHANGED committed

\* 23505: ROLLBACK, and a lookup that asks for a connection of its own.
LoseRace(w) ==
  /\ Waiting(w) /\ Need(w).mode = "insert"
  /\ There(w)
  /\ Release(w)
  /\ Goto(w, "connect", Query)
  /\ UNCHANGED committed

\* A file or upload is not found: the operation is refused.
NotFound(w) ==
  /\ Waiting(w) /\ Need(w).mode = "update"
  /\ ~There(w) /\ Need(w).row \notin Owners
  /\ Release(w)
  /\ Goto(w, "idle", None)
  /\ UNCHANGED committed

\* Any statement fails or is refused, or the process dies: ROLLBACK.
Fail(w) ==
  /\ Running(w)
  /\ Release(w)
  /\ Goto(w, "idle", None)
  /\ UNCHANGED committed

-----------------------------------------------------------------------------
Statement(w) == EnsureAccount(w) \/ LockRow(w) \/ ClaimKey(w) \/ ShareAccount(w)
End(w) == (plan[w] = << >> /\ Commit(w)) \/ LoseRace(w) \/ NotFound(w)

Next ==
  \E w \in Workers :
    \/ \E p \in Operations : Begin(w, p)
    \/ Connect(w) \/ Statement(w) \/ Commit(w) \/ End(w) \/ Fail(w)

Spec == Init /\ [][Next]_vars

\* The pool and PostgreSQL serve those who wait in turn, and code runs on.  An
\* early exit is nothing to rely on.
Fairness ==
  \A w \in Workers :
    /\ SF_vars(Connect(w))
    /\ SF_vars(Statement(w))
    /\ WF_vars(End(w))
FairSpec == Spec /\ Fairness

-----------------------------------------------------------------------------
(* What the order of locks guarantees *)

\* Nobody outside S has what the members of S wait for.
Stuck(S) ==
  \A w \in S :
    \/ pc[w] = "connect" /\ Cardinality(connected) >= PoolSize /\ connected \subseteq S
    \/ \E v \in S : WaitsFor(w, v)

\* No set of operations, of whatever kind and account, waits for each other
\* for rows, new keys or connections: PostgreSQL never has to break a deadlock,
\* and the pool is never held by those who wait for it.  Only an operation that
\* runs holds locks, and it has one connection (TypeOK).
NoDeadlock == TypeOK /\ \A S \in SUBSET Workers : S # {} => ~Stuck(S)

\* An operation that has begun ends, whatever the others do.
EveryOperationEnds == \A w \in Workers : pc[w] # "idle" ~> pc[w] = "idle"
=============================================================================
