--------------------------- MODULE MCNodeController ---------------------------
(* Three infos: i and j share a tag, k has one of its own.  Two users, the *)
(* second variant of a record is one the core refuses.                     *)
EXTENDS NodeController

CONSTANTS i, j, k, u1, u2

MCTagOf == [x \in Infos |-> IF x = k THEN "other" ELSE "tag"]

=============================================================================
