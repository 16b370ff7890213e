------------------------------ MODULE MCReadPath ------------------------------
(* An instance of ReadPath for TLC: contents and Range headers. *)
EXTENDS ReadPath, TLC

CONSTANTS a, b, x

Sizes == [c \in Contents |-> IF c = a THEN 1 ELSE IF c = b THEN 3 ELSE 2]

\* Every header with numbers up to one more than the parser accepts.
AllHeaders ==
  [form: {"none", "malformed"}]
    \cup [form: {"from"}, first: 0 .. MaxSafe + 1]
    \cup [form: {"between"}, first: 0 .. MaxSafe + 1, last: 0 .. MaxSafe + 1]
    \cup [form: {"suffix"}, last: 0 .. MaxSafe + 1]

Versions == Permutations(VersionIds)
=============================================================================
