------------------------------- MODULE BlobSet -------------------------------
(***************************************************************************)
(* What the object store promises: contents are stored whole or not at     *)
(* all, in one step, and whoever is told that a content is stored finds it *)
(* again, until something outside the program or a power failure takes it. *)
(* This is the store that Uploads and Namespace work with.  ObjectStore    *)
(* implements it.                                                          *)
(***************************************************************************)
CONSTANTS Contents, Drifting

VARIABLES
  stored,  \* contents that read back intact
  told     \* contents whose put or read was answered with success

Install(d) == stored' = stored \cup {d} /\ UNCHANGED told

Tell(d) ==
  /\ d \in stored \cup Drifting
  /\ told' = told \cup {d}
  /\ UNCHANGED stored

Drift(d) ==
  /\ d \in Drifting
  /\ stored' = stored \ {d}
  /\ UNCHANGED told

PowerLoss == stored' \subseteq stored /\ told' = {}

Init == stored = {} /\ told = {}

Next ==
  \/ \E d \in Contents : Install(d) \/ Tell(d) \/ Drift(d)
  \/ PowerLoss

Spec == Init /\ [][Next]_<<stored, told>>
=============================================================================
