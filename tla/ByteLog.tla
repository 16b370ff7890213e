------------------------------- MODULE ByteLog -------------------------------
(***************************************************************************)
(* What a resumable upload promises, without sessions, chunk rows, objects *)
(* and transactions: each key names one source of declared size and        *)
(* digest; bytes are only appended; it is sealed when the bytes are the    *)
(* declared ones, and then never changes.  Uploads implements this.        *)
(***************************************************************************)
EXTENDS Naturals, Sequences

CONSTANTS Slots, Bytes, Intents

VARIABLES
  sources,   \* the source opened under each slot
  told       \* how much of it, and whether sealed, callers have been told

\* The declarations and the pieces that callers may send.
Declared == {[size |-> i.size, digest |-> i.data] : i \in {j \in Intents : j.kind = "open"}}
Pieces == {i.data : i \in {j \in Intents : j.kind = "chunk"}}

Extend(table, s, value) == [x \in DOMAIN table \cup {s} |-> IF x = s THEN value ELSE table[x]]

-----------------------------------------------------------------------------
Open(s) ==
  /\ s \notin DOMAIN sources
  /\ \E d \in Declared :
       sources' = Extend(sources, s, [size |-> d.size, digest |-> d.digest,
                                      bytes |-> <<>>, sealed |-> FALSE])
  /\ told' = Extend(told, s, [offset |-> 0, sealed |-> FALSE])

AppendBytes(s) ==
  /\ ~sources[s].sealed
  /\ \E piece \in Pieces :
       /\ Len(sources[s].bytes) + Len(piece) <= sources[s].size
       /\ sources' = [sources EXCEPT ![s].bytes = @ \o piece]
  /\ UNCHANGED told

Seal(s) ==
  /\ ~sources[s].sealed
  /\ Len(sources[s].bytes) = sources[s].size
  /\ sources[s].bytes = sources[s].digest
  /\ sources' = [sources EXCEPT ![s].sealed = TRUE]
  /\ UNCHANGED told

\* A caller learns an offset the source has reached, or that it is sealed.
Tell(s) ==
  /\ \E n \in told[s].offset .. Len(sources[s].bytes),
        sealed \in {told[s].sealed, sources[s].sealed} :
       told' = [told EXCEPT ![s] = [offset |-> n, sealed |-> sealed]]
  /\ UNCHANGED sources

Init == sources = [s \in {} |-> {}] /\ told = [s \in {} |-> {}]

Next ==
  \/ \E s \in Slots : Open(s)
  \/ \E s \in DOMAIN sources : AppendBytes(s) \/ Seal(s) \/ Tell(s)

Spec == Init /\ [][Next]_<<sources, told>>
=============================================================================
