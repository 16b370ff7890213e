---------------------------- MODULE MCChangeFeed ----------------------------
(* An instance of ChangeFeed for TLC: the client and the tokens it has kept. *)
EXTENDS ChangeFeed, TLC

CONSTANTS o1, o2, c1

MCOwnerOf == c1 :> o1

\* A page of an earlier session of the client, and one of the other account.
KeptTokens == {Page(o1, 1, 2), Page(o2, 0, 2)}
=============================================================================
