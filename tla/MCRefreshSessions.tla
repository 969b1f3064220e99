-------------------------- MODULE MCRefreshSessions --------------------------
(***************************************************************************)
(* Model-checking instances of RefreshSessions.                            *)
(***************************************************************************)
EXTENDS RefreshSessions, TLC

\* Users, tokens and handlers are interchangeable.
Symmetry == Permutations(Users) \cup Permutations(Tokens) \cup Permutations(Requests)

\* Changing the password leaves the sessions alone: it is followed in short
\* histories only.
ShortPasswordHistories ==
  (\A u \in Users : pwChanges[u] = 0) \/ Cardinality(Issued) <= 2
=============================================================================
