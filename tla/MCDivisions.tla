------------------------------ MODULE MCDivisions ------------------------------
(***************************************************************************)
(* Divisions on small limits.  A limit of one or two is passed by as few   *)
(* handlers as the limits of 7 and 15 in the code: what matters is how     *)
(* many handlers are between their count and their INSERT.                 *)
(***************************************************************************)
EXTENDS Divisions, TLC

Symmetry == Permutations(Divisions) \cup Permutations(Users)
              \cup Permutations(Requests) \cup Permutations(Orgs)

\* The limits are independent of each other: explored are the histories with
\* one division and many accounts, and those with many divisions and none.
OneDimension ==
  users = {} \/ Cardinality({d \in Divisions : division[d] # None}) <= 1
=============================================================================
