---------------------------- MODULE MCContention ----------------------------
(* An instance of Contention for TLC: everything belongs to one account. *)
EXTENDS Contention

CONSTANT o1

OneAccount == [x \in Files \cup UploadIds |-> o1]
=============================================================================
