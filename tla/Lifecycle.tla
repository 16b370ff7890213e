------------------------------- MODULE Lifecycle -------------------------------
(***************************************************************************)
(* Connections and the end of the process: how the operations of           *)
(* src/src/postgres-repository.js take connections from the pool, and the  *)
(* shutdown handlers of main.js.                                           *)
(*                                                                         *)
(* External are the pool of pg (a connection is given to waiters in turn,  *)
(* none after end, and a second end fails), the server of Node (close      *)
(* keeps its callbacks until the last connection of a caller has gone, and *)
(* runs them before anything else happens then), and that an unhandled     *)
(* rejection kills the process.                                            *)
(***************************************************************************)
EXTENDS Naturals, Sequences, FiniteSets

CONSTANTS
  Requests,  \* requests that may run at the same time
  PoolSize,  \* connections the pool opens at most
  Nobody     \* no request: the row is not locked

ASSUME LifecycleAssumption ==
  /\ PoolSize \in Nat \ {0}
  /\ Nobody \notin Requests

-----------------------------------------------------------------------------
\* How operations use connections: for one statement; for a transaction that
\* locks a row; for two transactions in turn, as a page from a checkpoint; for
\* a lost race and the lookup after it, as openUpload.
Kinds == {"query", "change", "page", "raced"}
Connections(k) == IF k \in {"page", "raced"} THEN 2 ELSE 1

Signals == {"SIGTERM", "SIGINT"}

VARIABLES
  pc, kind, left,  \* each request: where it is, and connections still to ask for
  held,            \* connections each request has
  queue,           \* requests waiting for a connection
  row,             \* who has the row that changes lock
  attached,        \* requests whose caller is still connected
  signalled, server, callbacks, pool, process

requests == <<pc, kind, left, held, queue, row>>
shutdown == <<signalled, server, callbacks, pool, process>>
vars     == <<requests, attached, shutdown>>

PCs == {"none", "ask", "queued", "running", "locked", "answer"}

TypeOK ==
  /\ pc \in [Requests -> PCs]
  /\ kind \in [Requests -> Kinds]
  /\ left \in [Requests -> 0 .. 2]
  /\ held \in [Requests -> 0 .. 2]
  /\ queue \in Seq(Requests)
  /\ row \in Requests \cup {Nobody}
  /\ attached \subseteq Requests
  /\ signalled \subseteq Signals
  /\ server \in {"listening", "closing", "closed"}
  /\ callbacks \in 0 .. 2
  /\ pool \in {"open", "ending", "ended"}
  /\ process \in {"running", "exited", "killed"}
  /\ \A r \in Requests :
       /\ pc[r] = "queued" <=> \E i \in DOMAIN queue : queue[i] = r
       /\ pc[r] = "locked" <=> row = r

Init ==
  /\ pc = [r \in Requests |-> "none"]
  /\ kind = [r \in Requests |-> "query"]
  /\ left = [r \in Requests |-> 0]
  /\ held = [r \in Requests |-> 0]
  /\ queue = <<>> /\ row = Nobody
  /\ attached = {} /\ signalled = {}
  /\ server = "listening" /\ callbacks = 0
  /\ pool = "open" /\ process = "running"

-----------------------------------------------------------------------------
(* Requests and the pool *)

Goto(r, label) == pc' = [pc EXCEPT ![r] = label]
InUse == Cardinality({u \in Requests \X {1, 2} : u[2] <= held[u[1]]})

Accept(r, k) ==
  /\ server = "listening"
  /\ pc[r] = "none" /\ r \notin attached
  /\ kind' = [kind EXCEPT ![r] = k]
  /\ left' = [left EXCEPT ![r] = Connections(k)]
  /\ attached' = attached \cup {r}
  /\ Goto(r, "ask")
  /\ UNCHANGED <<held, queue, row, shutdown>>

\* pool.connect: a free connection, a place in the queue, or an error.
Connect(r) ==
  /\ pc[r] = "ask"
  /\ pool = "open"
  /\ left' = [left EXCEPT ![r] = @ - 1]
  /\ IF queue = <<>> /\ InUse < PoolSize
       THEN /\ held' = [held EXCEPT ![r] = @ + 1]
            /\ Goto(r, "running")
            /\ UNCHANGED queue
       ELSE /\ queue' = Append(queue, r)
            /\ Goto(r, "queued")
            /\ UNCHANGED held
  /\ UNCHANGED <<kind, row, attached, shutdown>>

RefuseConnect(r) ==
  /\ pc[r] = "ask"
  /\ pool # "open"
  /\ Goto(r, "answer")
  /\ UNCHANGED <<kind, left, held, queue, row, attached, shutdown>>

\* A free connection goes to the request that has waited longest.
Grant ==
  /\ queue # <<>> /\ InUse < PoolSize /\ pool = "open"
  /\ queue' = Tail(queue)
  /\ held' = [held EXCEPT ![Head(queue)] = @ + 1]
  /\ Goto(Head(queue), "running")
  /\ UNCHANGED <<kind, left, row, attached, shutdown>>

\* SELECT ... FOR UPDATE of a row that other changes lock as well.
LockRow(r) ==
  /\ pc[r] = "running" /\ kind[r] = "change"
  /\ row = Nobody
  /\ row' = r
  /\ Goto(r, "locked")
  /\ UNCHANGED <<kind, left, held, queue, attached, shutdown>>

Unlocked(r) == IF row = r THEN Nobody ELSE row

\* Mutant: the connection goes back with its transaction open.
ReleaseOpen(r) ==
  /\ held' = [held EXCEPT ![r] = 0]
  /\ UNCHANGED row

\* COMMIT or ROLLBACK, and client.release() in the finally block.
Release(r) ==
  /\ held' = [held EXCEPT ![r] = 0]
  /\ row' = Unlocked(r)

Finish(r) ==
  /\ pc[r] = "locked" \/ (pc[r] = "running" /\ kind[r] # "change")
  /\ kind[r] = "raced" => left[r] = 0
  /\ Release(r)
  /\ Goto(r, IF left[r] > 0 THEN "ask" ELSE "answer")
  /\ UNCHANGED <<kind, left, queue, attached, shutdown>>

\* Mutant: the lookup is awaited inside the try block, before the release.
LoseRaceAwaiting(r) ==
  /\ pc[r] = "running" /\ kind[r] = "raced" /\ left[r] > 0
  /\ Goto(r, "ask")
  /\ UNCHANGED <<kind, left, held, queue, row, attached, shutdown>>

\* 23505: #uploadAfterRace asks for a connection, and in the same turn of the
\* event loop the finally block gives the first one back.
LoseRace(r) ==
  /\ pc[r] = "running" /\ kind[r] = "raced" /\ left[r] > 0
  /\ held' = [held EXCEPT ![r] = 0]
  /\ IF pool = "open"
       THEN /\ queue' = Append(queue, r)
            /\ left' = [left EXCEPT ![r] = @ - 1]
            /\ Goto(r, "queued")
       ELSE Goto(r, "answer") /\ UNCHANGED <<queue, left>>
  /\ UNCHANGED <<kind, row, attached, shutdown>>

\* Mutant: the error path does not reach the release.
FailHolding(r) ==
  /\ pc[r] \in {"running", "locked"}
  /\ row' = Unlocked(r)
  /\ Goto(r, "answer")
  /\ UNCHANGED <<kind, left, held, queue, attached, shutdown>>

\* A statement fails: ROLLBACK, release, and an error as the answer.
Fail(r) ==
  /\ pc[r] \in {"running", "locked"}
  /\ Release(r)
  /\ Goto(r, "answer")
  /\ UNCHANGED <<kind, left, queue, attached, shutdown>>

-----------------------------------------------------------------------------
(* The close of the server, and callers that leave *)

\* Mutant: the server is closed while callers are connected.
CloseAtOnce(callers, n) ==
  /\ server' = "closed" /\ callbacks' = 0
  /\ pool' = IF pool = "open" THEN "ending" ELSE pool
  /\ process' = IF pool = "open" /\ n = 1 THEN process ELSE "killed"

\* Callers keep the server open, and its n callbacks wait.  When none is left,
\* the close event runs them in the same turn.  The first one calls pool.end,
\* which ends a pool without connections in use at once; a second call is
\* rejected, and nobody handles the rejection.
CloseUnless(callers, n) ==
  \/ /\ callers # {}
     /\ server' = "closing" /\ callbacks' = n
     /\ UNCHANGED <<pool, process>>
  \/ /\ callers = {}
     /\ server' = "closed" /\ callbacks' = 0
     /\ pool' = IF pool # "open" THEN pool ELSE IF InUse = 0 THEN "ended" ELSE "ending"
     /\ process' = IF pool = "open" /\ n = 1 THEN process ELSE "killed"

Leave(r) ==
  /\ attached' = attached \ {r}
  /\ IF server = "closing"
       THEN CloseUnless(attached \ {r}, callbacks)
       ELSE UNCHANGED <<server, callbacks, pool, process>>
  /\ UNCHANGED signalled

\* The response is written, and the caller's connection ends.
Respond(r) ==
  /\ pc[r] = "answer"
  /\ Goto(r, "none")
  /\ left' = [left EXCEPT ![r] = 0]
  /\ Leave(r)
  /\ UNCHANGED <<kind, held, queue, row>>

\* The caller goes away; its request runs on.
Disconnect(r) ==
  /\ r \in attached
  /\ Leave(r)
  /\ UNCHANGED requests

-----------------------------------------------------------------------------
(* Shutdown *)

\* Mutant: the pool is ended without waiting for the server to close.
SignalEndingPool(s) ==
  /\ s \notin signalled
  /\ signalled' = signalled \cup {s}
  /\ server' = "closing"
  /\ pool' = "ending"
  /\ UNCHANGED <<requests, attached, callbacks, process>>

\* process.once(s, shutdown): server.close with one more callback.
Signal(s) ==
  /\ s \notin signalled
  /\ signalled' = signalled \cup {s}
  /\ CloseUnless(attached, callbacks + 1)
  /\ UNCHANGED <<requests, attached>>

\* A pool that is ending has ended when every connection was given back.
PoolEnds ==
  /\ pool = "ending" /\ InUse = 0
  /\ pool' = "ended"
  /\ UNCHANGED <<requests, attached, signalled, server, callbacks, process>>

\* With server and pool gone, nothing keeps the event loop alive.
Exit ==
  /\ pool = "ended"
  /\ process' = "exited"
  /\ UNCHANGED <<requests, attached, signalled, server, callbacks, pool>>

-----------------------------------------------------------------------------
Step(r) == Connect(r) \/ RefuseConnect(r) \/ Finish(r) \/ LoseRace(r)

Next ==
  /\ process = "running"
  /\ \/ \E r \in Requests :
          \/ \E k \in Kinds : Accept(r, k)
          \/ Step(r) \/ LockRow(r) \/ Fail(r) \/ Respond(r) \/ Disconnect(r)
     \/ Grant
     \/ \E s \in Signals : Signal(s)
     \/ PoolEnds \/ Exit

Spec == Init /\ [][Next]_vars

\* Node and PostgreSQL run what can be run, and the waiters of a row get it in
\* turn.  WF of Respond is about the callers too: they take their answer and let
\* their connection end, for the server waits for them without a limit.
Fairness ==
  /\ \A r \in Requests :
       /\ WF_vars(process = "running" /\ Step(r))
       /\ SF_vars(process = "running" /\ LockRow(r))
       /\ WF_vars(process = "running" /\ Respond(r))
  /\ WF_vars(process = "running" /\ Grant)
  /\ WF_vars(process = "running" /\ (PoolEnds \/ Exit))
FairSpec == Spec /\ Fairness

-----------------------------------------------------------------------------
(* What the process guarantees *)

\* Whoever waits for a connection has none and locks no row, so that requests
\* cannot wait for each other in the pool, and nobody keeps one for nothing.
WaitersHoldNothing ==
  /\ TypeOK
  /\ \A r \in Requests :
       pc[r] \notin {"running", "locked"} => held[r] = 0 /\ row # r
  /\ InUse <= PoolSize

\* However many signals arrive, neither the pool nor the process ends while a
\* caller is connected: nobody who can still receive an answer is refused a
\* connection or cut off because of a shutdown.  And after one signal the process
\* ends by itself, with its work done: connections given back, the pool closed.
OrderlyShutdown ==
  /\ pool # "open" \/ process # "running" => attached = {}
  /\ Cardinality(signalled) <= 1 /\ process # "running" =>
       process = "exited" /\ pool = "ended" /\ InUse = 0

\* The pool is closed before the process ends (docs/operations.md:68-69).
PoolClosedBeforeExit == process # "running" => pool = "ended"

\* A signal ends the process, however many requests are under way.
ShutdownEnds == signalled # {} ~> process # "running"
=============================================================================
