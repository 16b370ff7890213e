------------------------------- MODULE DriveLog -------------------------------
(***************************************************************************)
(* What the namespace of the cloud drive promises its callers, without the *)
(* tables, locks and transactions that keep the promise: every mutation is *)
(* one atomic step on a log of results, and the state of the drive is what *)
(* the log says.  Namespace implements this specification, with the rows   *)
(* of mutation_requests as the log.                                        *)
(***************************************************************************)
EXTENDS Naturals

CONSTANTS Owners, Folded, FileIds, VersionIds, Intents, None

VARIABLES
  log,    \* the results of all mutations that were decided
  told    \* the results callers have received

Applied == {r \in log : r.outcome = "applied"}

\* The file an applied mutation created or changed, and its history.
History(f) == {r \in Applied : r.file = f}
Active(f) == \A r \in History(f) : r.intent.kind # "delete"

\* The last content of a file.
IsCurrent(f, v) ==
  \E r \in History(f) :
    /\ r.version = v /\ v # None
    /\ \A q \in History(f) : q.version # None => q.revision <= r.revision

Owned(o, f) == \E r \in History(f) : r.intent.owner = o

NameHeld(o, name) ==
  \E r \in Applied :
    /\ r.intent.kind = "create" /\ r.intent.owner = o
    /\ Folded[r.intent.name] = Folded[name]
    /\ Active(r.file)

Used(v) == \E r \in Applied : r.version = v
Spent(upload) == \E r \in Applied : r.intent.kind # "delete" /\ r.intent.upload = upload

\* The account's revisions are 1, 2, ... without a hole; the one that is next.
Revisions(o) == {r.revision : r \in {a \in Applied : a.intent.owner = o}}
NextRevisions(o) ==
  {n \in {1} \cup {r.revision + 1 : r \in Applied} : Revisions(o) = 1 .. n - 1}

Unbound(i) == \A r \in log : r.intent.owner # i.owner \/ r.intent.key # i.key

Result(i, outcome, f, v, cur, n) ==
  [intent |-> i, outcome |-> outcome, file |-> f, version |-> v, current |-> cur, revision |-> n]

Decide(r) == log' = log \cup {r} /\ UNCHANGED told

-----------------------------------------------------------------------------
Create(i) ==
  /\ i.kind = "create" /\ Unbound(i)
  /\ ~NameHeld(i.owner, i.name) /\ ~Spent(i.upload)
  /\ \E f \in FileIds, v \in VersionIds, n \in NextRevisions(i.owner) :
       /\ History(f) = {} /\ ~Used(v)
       /\ Decide(Result(i, "applied", f, v, None, n))

Update(i) ==
  /\ i.kind = "update" /\ Unbound(i)
  /\ Owned(i.owner, i.file) /\ Active(i.file) /\ IsCurrent(i.file, i.base)
  /\ ~Spent(i.upload)
  /\ \E v \in VersionIds, n \in NextRevisions(i.owner) :
       /\ ~Used(v)
       /\ Decide(Result(i, "applied", i.file, v, None, n))

Delete(i) ==
  /\ i.kind = "delete" /\ Unbound(i)
  /\ Owned(i.owner, i.file) /\ Active(i.file) /\ IsCurrent(i.file, i.base)
  /\ \E n \in NextRevisions(i.owner) :
       Decide(Result(i, "applied", i.file, None, None, n))

\* A name that is held is a durable result of its own,
Conflict(i) ==
  /\ i.kind = "create" /\ Unbound(i)
  /\ NameHeld(i.owner, i.name)
  /\ Decide(Result(i, "namespace_conflict", None, None, None, 0))

\* and so is a base that is not current, with the version that is.
Stale(i) ==
  /\ i.kind \in {"update", "delete"} /\ Unbound(i)
  /\ Owned(i.owner, i.file) /\ Active(i.file) /\ ~IsCurrent(i.file, i.base)
  /\ \E cur \in VersionIds :
       /\ IsCurrent(i.file, cur)
       /\ Decide(Result(i, "precondition_failed", i.file, None, cur, 0))

\* A caller learns a result, the first time or again.
Tell == \E r \in log : told' = told \cup {r} /\ UNCHANGED log

Init == log = {} /\ told = {}

Next ==
  \/ \E i \in Intents : Create(i) \/ Update(i) \/ Delete(i) \/ Conflict(i) \/ Stale(i)
  \/ Tell

Spec == Init /\ [][Next]_<<log, told>>
=============================================================================
