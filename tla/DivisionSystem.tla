----------------------------- MODULE DivisionSystem -----------------------------
(***************************************************************************)
(* The two halves of a division over one database: the handlers of         *)
(* Divisions, which write the rosters, and those of DivisionWork, which    *)
(* read them when a task is assigned and which delete a division after     *)
(* counting its work.  Neither half takes a lock, so a step of the system  *)
(* is a step of one half; what it does to the tables of the other half is  *)
(* the whole of their interaction.                                         *)
(*                                                                         *)
(* For DivisionWork a roster is a set of user ids that somebody changes.   *)
(* Here it is the set of the users with a row in Divisions.  The deletion  *)
(* is that of DivisionWork, whose counts Divisions leaves out.             *)
(***************************************************************************)
EXTENDS Divisions

CONSTANTS
  Items,         \* ids of tasks, events and transactions
  WorkRequests,  \* the goroutines of the handlers of work and of the deletion
  Nobody         \* no assignee

VARIABLES
  item,     \* the rows of work
  workJob,  \* where the handlers of DivisionWork are
  late,     \* history, as in DivisionWork
  removed   \* history, as in DivisionWork

system == <<vars, item, workJob, late, removed>>

Membership == [d \in Divisions |-> MembersOf(d)]

Work == INSTANCE DivisionWork WITH
  Requests <- WorkRequests, None <- Nobody, roster <- Membership, job <- workJob

SystemInit ==
  /\ Init
  /\ item = [i \in Items |-> Work!Unwritten]
  /\ workJob = [r \in WorkRequests |-> Work!Idle]
  /\ late = {}
  /\ removed = {}

\* The rows that a step takes off the rosters.
Leavers ==
  {p \in Divisions \X Users :
     roster[p[1]][p[2]] # "none" /\ roster'[p[1]][p[2]] = "none"}

RosterStep ==
  /\ RosterNext
  /\ removed' = removed \cup Leavers
  /\ UNCHANGED <<item, workJob, late>>

\* GetByID finds the division before a deletion starts, and the foreign key of
\* a row of work names a division that was created, deleted or not, perhaps by
\* another organization.
OfDivisions ==
  /\ \A r \in WorkRequests :
       workJob'[r] # workJob[r] /\ workJob'[r].op = "delete"
         => division[workJob'[r].div] # None
  /\ \A i \in Items : item'[i] # item[i] =>
       /\ division[item'[i].div] # None
       /\ item'[i].own \/ \E o \in Orgs : o # division[item'[i].div]

WorkStep ==
  /\ UNCHANGED <<division, roster, members, users, job, imported>>
  /\ Work!WorkNext
  /\ OfDivisions

SystemNext == RosterStep \/ WorkStep
SystemSpec == SystemInit /\ [][SystemNext]_system

-----------------------------------------------------------------------------
(* Properties *)

\* The rosters that the handlers of Divisions leave behind are rosters as
\* DivisionWork allows them, so what holds there holds of the system.
WorkIsServed == Work!Spec

\* A deletion that has counted the work is one that Divisions allows.
RostersAreServed == Spec

\* "assignee must be a member of the task division", across both halves and
\* however they interleave: whoever a task is assigned to is an account that
\* was created, although the row of the roster may be gone by then.
AssigneesExist ==
  \A i \in Items :
    Work!Written(i) /\ item[i].assignee # Nobody => item[i].assignee \in users
=============================================================================
