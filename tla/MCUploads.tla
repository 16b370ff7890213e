------------------------------ MODULE MCUploads ------------------------------
(* Instances of Uploads for TLC: who may send which requests. *)
EXTENDS Uploads, TLC

CONSTANTS o1, o2, k1, k2, k3, a, b

Opens(owners, keys, declared) ==
  {[kind |-> "open", owner |-> o, key |-> k, upload |-> None, start |-> 0,
    data |-> d, size |-> Len(d)] : o \in owners, k \in keys, d \in declared}
Chunks(keys, start, data) ==
  {[kind |-> "chunk", owner |-> o, key |-> k, upload |-> u, start |-> start,
    data |-> data, size |-> 0] : o \in Owners, k \in keys, u \in UploadIds}
Others(kinds) ==
  {[kind |-> kind, owner |-> o, key |-> None, upload |-> u, start |-> 0,
    data |-> <<>>, size |-> 0] : kind \in kinds, o \in Owners, u \in UploadIds}

\* One upload of two bytes in one or two chunks, with a wrong byte, a reused
\* key, an overlap and an overrun.
ChunkIntents ==
  Opens(Owners, {k1}, {<<a, b>>})
    \cup Chunks({k1}, 0, <<a, b>>) \cup Chunks({k2}, 0, <<a>>)
    \cup Chunks({k1}, 1, <<b>>) \cup Chunks({k3}, 1, <<a>>) \cup Chunks({k3}, 1, <<b, b>>)
    \cup Others({"head", "finalize"})

\* Opens of one key with two declarations, and chunks and finalizes of the
\* uploads by their account and by another one.
OpenIntents ==
  Opens({o1}, {k1}, {<<a>>, <<b>>}) \cup Chunks({k1}, 0, <<a>>) \cup Others({"finalize"})

\* A chunk whose object may be lost; putting it again restores it.
Fragile == {<<a>>}

Requests == Permutations(Workers)
=============================================================================
