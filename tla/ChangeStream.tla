----------------------------- MODULE ChangeStream -----------------------------
(***************************************************************************)
(* What the change feed promises a client that follows it: the changes of  *)
(* its account in order, each once, from where it started, in sessions     *)
(* whose last revision is fixed when they begin.  ChangeFeed implements    *)
(* this specification.                                                     *)
(***************************************************************************)
EXTENDS Naturals, Sequences

CONSTANTS Owners, Clients, OwnerOf, FileIds, None

VARIABLES
  log,      \* the changes of each account, in order
  reader    \* where a client started, what it got, where its session ends

\* The revision up to which a client has the changes.
At(r) == r.start + Len(r.got)

\* A mutation commits: a version named by its revision, or 0 for a deletion.
Commit(o) ==
  LET n == Len(log[o]) + 1
  IN /\ \E f \in FileIds, v \in {0, n} :
          log' = [log EXCEPT ![o] =
                    Append(@, [owner |-> o, revision |-> n, file |-> f, version |-> v])]
     /\ UNCHANGED reader

\* A client starts at the beginning, or where the account was when it asked.
Begin(c) ==
  /\ reader[c] = None
  /\ \E n \in 0 .. Len(log[OwnerOf[c]]) :
       reader' = [reader EXCEPT ![c] = [start |-> n, got |-> <<>>, end |-> n]]
  /\ UNCHANGED log

\* The client receives what follows its position, up to n; the session ends at e.
Deliver(c, n, e) ==
  /\ reader' = [reader EXCEPT ![c].got = @ \o SubSeq(log[OwnerOf[c]], At(reader[c]) + 1, n),
                              ![c].end = e]
  /\ UNCHANGED log

\* The first page of a session fixes its end, and the others keep it.
FirstPage(c) ==
  /\ reader[c] # None /\ At(reader[c]) = reader[c].end
  /\ \E e \in At(reader[c]) .. Len(log[OwnerOf[c]]) : \E n \in At(reader[c]) .. e :
       Deliver(c, n, e)

NextPage(c) ==
  /\ reader[c] # None /\ At(reader[c]) < reader[c].end
  /\ \E n \in At(reader[c]) + 1 .. reader[c].end : Deliver(c, n, reader[c].end)

Init ==
  /\ log = [o \in Owners |-> <<>>]
  /\ reader = [c \in Clients |-> None]

Next ==
  \/ \E o \in Owners : Commit(o)
  \/ \E c \in Clients : Begin(c) \/ FirstPage(c) \/ NextPage(c)

Spec == Init /\ [][Next]_<<log, reader>>
=============================================================================
