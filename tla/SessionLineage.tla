---------------------------- MODULE SessionLineage ----------------------------
(***************************************************************************)
(* What the refresh-session table promises, with the handlers forgotten:   *)
(* every token is live during one interval of its life, a token is         *)
(* followed by successors only once it is dead, and by at most Width of    *)
(* them.  Width = 1 is the strict rotation of the documentation.           *)
(***************************************************************************)
EXTENDS Naturals, FiniteSets

CONSTANTS
  Tokens,   \* refresh tokens
  None,     \* parent of a token obtained by logging in
  Width     \* how many successors a token may get

VARIABLES
  phase,    \* phase[t] \in {"fresh", "live", "dead"}
  parent    \* parent[t]: the token t replaced, None for a login

Successors(p) == {t \in Tokens : phase[t] # "fresh" /\ parent[t] = p}

Init ==
  /\ phase = [t \in Tokens |-> "fresh"]
  /\ parent = [t \in Tokens |-> None]

\* A login starts a lineage.
Open(t) ==
  /\ phase[t] = "fresh"
  /\ phase' = [phase EXCEPT ![t] = "live"]
  /\ UNCHANGED parent

\* A dead token is followed by a successor.
Succeed(p, t) ==
  /\ phase[p] = "dead"
  /\ phase[t] = "fresh"
  /\ Cardinality(Successors(p)) < Width
  /\ phase' = [phase EXCEPT ![t] = "live"]
  /\ parent' = [parent EXCEPT ![t] = p]

\* Rotation kills one token, logout several, and the cleanup job any number.
Kill(S) ==
  /\ \A t \in S : phase[t] = "live"
  /\ phase' = [t \in Tokens |-> IF t \in S THEN "dead" ELSE phase[t]]
  /\ UNCHANGED parent

Next ==
  \/ \E t \in Tokens : Open(t)
  \/ \E p, t \in Tokens : Succeed(p, t)
  \/ \E S \in SUBSET Tokens : Kill(S)

Spec == Init /\ [][Next]_<<phase, parent>>
=============================================================================
