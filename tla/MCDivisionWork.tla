---------------------------- MODULE MCDivisionWork ----------------------------
(***************************************************************************)
(* DivisionWork with two handlers: a deletion meets every other handler,   *)
(* another deletion included, and two divisions tell rosters apart.        *)
(***************************************************************************)
EXTENDS DivisionWork, FiniteSets, TLC

Symmetry == Permutations(Divisions) \cup Permutations(Users)
              \cup Permutations(Items) \cup Permutations(Requests)

\* A roster that was used and one that never was are enough to tell them apart.
OneRoster ==
  \E d \in Divisions :
    \A e \in Divisions \ {d} :
      roster[e] = {} /\ \A u \in Users : <<e, u>> \notin removed

\* Rows of another organization meet no check and no count: one of them, or one
\* handler about to write it, shows what they do to the rows that do.
Foreign(x) == "own" \in DOMAIN x /\ ~x.own
OneForeigner ==
  Cardinality({i \in Items : Foreign(item[i])})
    + Cardinality({r \in Requests : Foreign(job[r])}) <= 1
=============================================================================
