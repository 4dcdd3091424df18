--------------------------- MODULE MCOwnerSession ---------------------------
(***************************************************************************)
(* Instances of OwnerSession: the accounts and the businesses of a tab are *)
(* interchangeable.                                                        *)
(***************************************************************************)
EXTENDS OwnerSession, TLC

\* The first life has room for a click after its businesses were listed.
MCLoads == [m \in 1 .. MaxMounts |-> IF m = 1 THEN 3 ELSE 1]

MCSymmetry == Permutations(Users) \cup Permutations(Tenants)
=============================================================================
