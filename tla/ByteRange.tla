------------------------------ MODULE ByteRange ------------------------------
(***************************************************************************)
(* The byte range of a content request: parseSingleByteRange of            *)
(* src/src/contracts.js, and the range that the header asks for.           *)
(***************************************************************************)
EXTENDS Naturals

CONSTANT MaxSafe  \* Number.MAX_SAFE_INTEGER, the last integer the parser accepts

ASSUME ByteRangeAssumption == MaxSafe \in Nat

\* What the header says: nothing, bytes=first-, bytes=first-last, bytes=-last,
\* or anything else, such as several ranges.
Header ==
  [form: {"none", "malformed"}]
    \cup [form: {"from"}, first: Nat]
    \cup [form: {"between"}, first: Nat, last: Nat]
    \cup [form: {"suffix"}, last: Nat]

Safe(n) == n <= MaxSafe

Slice(status, start, end) == [status |-> status, start |-> start, end |-> end]
Unsatisfiable == [status |-> 416]
Malformed == [status |-> 400]

Suffix(n, total) ==
  IF ~Safe(n) \/ n = 0 THEN Unsatisfiable
  ELSE Slice(206, IF n < total THEN total - n ELSE 0, total - 1)

\* Mutant: the position after the last one is accepted.
FromEnd(first, last, total) ==
  IF ~Safe(first) \/ first > total \/ ~Safe(last) \/ last < first THEN Unsatisfiable
  ELSE Slice(206, first, IF last < total THEN last ELSE total - 1)

Between(first, last, total) ==
  IF ~Safe(first) \/ first >= total \/ ~Safe(last) \/ last < first THEN Unsatisfiable
  ELSE Slice(206, first, IF last < total THEN last ELSE total - 1)

parseSingleByteRange(h, total) ==
  CASE h.form = "none"      -> Slice(200, 0, total - 1)
    [] h.form = "malformed" -> Malformed
    [] h.form = "suffix"    -> Suffix(h.last, total)
    [] h.form = "from"      -> Between(h.first, total - 1, total)
    [] h.form = "between"   -> Between(h.first, h.last, total)

-----------------------------------------------------------------------------
\* The positions that a header selects of a content of total bytes.
Selected(h, total) ==
  {p \in 0 .. total - 1 :
     CASE h.form = "none"      -> TRUE
       [] h.form = "malformed" -> FALSE
       [] h.form = "suffix"    -> p + h.last >= total
       [] h.form = "from"      -> p >= h.first
       [] h.form = "between"   -> p >= h.first /\ p <= h.last}

\* The parser can represent all numbers of the header.
Representable(h) ==
  /\ h.form \in {"suffix", "between"} => Safe(h.last)
  /\ h.form \in {"from", "between"} => Safe(h.first)
=============================================================================
