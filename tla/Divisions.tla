------------------------------- MODULE Divisions -------------------------------
(***************************************************************************)
(* Divisions and their rosters in sekre-backend: creating and deleting     *)
(* divisions, adding and removing members, changing division roles,        *)
(* creating a member into divisions, importing members in bulk, and        *)
(* removing a user from the organization.                                  *)
(*                                                                         *)
(* The limits (divisions per organization, members and heads per division) *)
(* are checked by SELECT COUNT and acted upon in a later statement, with   *)
(* no transaction around the two.  A handler holds in job[r] what it read. *)
(* The tenant check that precedes a count is folded into it: a division    *)
(* that disappears in between disappears just as well after the count.     *)
(* A request names an existing account, an unknown id changes nothing.     *)
(***************************************************************************)
EXTENDS Naturals, FiniteSets

CONSTANTS
  Orgs,          \* organizations
  Divisions,     \* division ids that may ever be created
  Users,         \* accounts made by member creation or bulk import
  Requests,      \* handler goroutines
  MaxDivisions,  \* constants.MaxDivisionsFreePlan
  MaxMembers,    \* constants.MaxMembersPerDivision
  MaxHeads,      \* constants.MaxHeadsPerDivision
  MaxBatch,      \* bound: accounts in one bulk import
  None           \* no organization, and no number: the statement failed

ASSUME LimitsAssumption ==
  MaxDivisions \in Nat \ {0} /\ MaxMembers \in Nat \ {0} /\ MaxHeads \in Nat \ {0}
ASSUME FiniteAssumption ==
  IsFiniteSet(Divisions) /\ IsFiniteSet(Users) /\ IsFiniteSet(Requests)
ASSUME NoneAssumption == None \notin Orgs
ASSUME BatchAssumption == MaxBatch \in Nat

VARIABLES
  division,  \* division[d]: organization_id of d, None before its INSERT
  deleted,   \* divisions whose deleted_at is set
  roster,    \* roster[d][u]: the division_members row, "none" if there is none
  members,   \* members[o]: user_organizations
  users,     \* rows of users
  job,       \* job[r]: the operation handler r is in, with what it has read
  imported   \* history: the <<d, u>> whose row a bulk import wrote

vars == <<division, deleted, roster, members, users, job, imported>>

Roles == {"STAFF", "HEAD"}

\* The rows of one import: an account each, with its division and role.
Batches == UNION {[S -> [div : Divisions, role : Roles]] : S \in SUBSET Users}

Idle == [op |-> "idle"]
\* The handler is about to answer 500 although nothing was wrong with the
\* request or the database.
Failed == [op |-> "failed"]
Jobs ==
  {Idle, Failed}
    \cup [op : {"createDivision"}, org : Orgs]
    \cup [op : {"addMember"}, div : Divisions, user : Users, role : Roles]
    \cup [op : {"removeMember"}, div : Divisions, user : Users]
    \cup [op : {"createMember"}, org : Orgs, user : Users, role : Roles,
          checked : SUBSET Divisions, todo : SUBSET Divisions]
    \cup [op : {"import"}, org : Orgs, batch : Batches]

Active(d)    == division[d] # None /\ d \notin deleted
ActiveIn(o)  == {d \in Divisions : division[d] = o /\ d \notin deleted}
MembersOf(d) == {u \in Users : roster[d][u] # "none"}
HeadsOf(d)   == {u \in Users : roster[d][u] = "HEAD"}

\* Accounts about to be written by a running handler; ids are fresh uuids.
Reserved ==
  {u \in Users : \E r \in Requests :
     \/ job[r].op = "createMember" /\ job[r].user = u
     \/ job[r].op = "import" /\ u \in DOMAIN job[r].batch}
Fresh(u) == u \notin users \cup Reserved

Init ==
  /\ division = [d \in Divisions |-> None]
  /\ deleted = {}
  /\ roster = [d \in Divisions |-> [u \in Users |-> "none"]]
  /\ members = [o \in Orgs |-> {}]
  /\ users = {}
  /\ job = [r \in Requests |-> Idle]
  /\ imported = {}

Begin(r, j) == job[r] = Idle /\ job' = [job EXCEPT ![r] = j]
End(r) == job' = [job EXCEPT ![r] = Idle]

-----------------------------------------------------------------------------
(***************************************************************************)
(* CountHeads selects on a column "role"; the table has "division_role",   *)
(* so the statement always fails.  So does the UPDATE of UpdateMemberRole. *)
(***************************************************************************)

CountHeads(d) == None
HeadsBelow(d, n) == CountHeads(d) # None /\ CountHeads(d) < n

(* Divisions *)

\* Mutant of CountDivisions: off by one.
CountDivisionsLax(o) == Cardinality(ActiveIn(o)) <= MaxDivisions

CountDivisions(o) == Cardinality(ActiveIn(o)) < MaxDivisions

StartCreateDivision(r, o) ==
  /\ CountDivisions(o)
  /\ Begin(r, [op |-> "createDivision", org |-> o])
  /\ UNCHANGED <<division, deleted, roster, members, users, imported>>

CreateDivision(r, d) ==
  /\ job[r].op = "createDivision"
  /\ division[d] = None
  /\ division' = [division EXCEPT ![d] = job[r].org]
  /\ End(r)
  /\ UNCHANGED <<deleted, roster, members, users, imported>>

\* Soft delete.  That it needs no open work is modelled in DivisionWork; the
\* rows of division_members stay.
DeleteDivision(d) ==
  /\ Active(d)
  /\ deleted' = deleted \cup {d}
  /\ UNCHANGED <<division, roster, members, users, job, imported>>

-----------------------------------------------------------------------------
(* Rosters *)

\* Mutant of HasRoom: off by one.
HasRoomLax(d) == Cardinality(MembersOf(d)) <= MaxMembers

HasRoom(d) == Cardinality(MembersOf(d)) < MaxMembers

\* The number of heads is not looked at, nor whether u is in the organization.
StartAddMember(r, d, u, role) ==
  /\ Active(d)
  /\ u \in users
  /\ HasRoom(d)
  /\ Begin(r, [op |-> "addMember", div |-> d, user |-> u, role |-> role])
  /\ UNCHANGED <<division, deleted, roster, members, users, imported>>

\* The INSERT fails on the primary key if there is a row already.
AddMember(r) ==
  /\ job[r].op = "addMember"
  /\ LET d == job[r].div
         u == job[r].user
     IN roster' = IF roster[d][u] = "none"
                  THEN [roster EXCEPT ![d][u] = job[r].role] ELSE roster
  /\ End(r)
  /\ UNCHANGED <<division, deleted, members, users, imported>>

\* A member read as HEAD needs CountHeads, which fails; anyone else goes on.
StartRemoveMember(r, d, u) ==
  /\ Active(d)
  /\ u \in users
  /\ Begin(r, IF roster[d][u] # "HEAD"
              THEN [op |-> "removeMember", div |-> d, user |-> u]
              ELSE IF CountHeads(d) = None THEN Failed
              ELSE IF HeadsBelow(d, 2) THEN Idle
              ELSE [op |-> "removeMember", div |-> d, user |-> u])
  /\ UNCHANGED <<division, deleted, roster, members, users, imported>>

\* Mutant of RemoveMember: the row is marked instead of deleted.
RemoveMemberMarks(r) ==
  /\ job[r].op = "removeMember"
  /\ roster' = [roster EXCEPT ![job[r].div][job[r].user] = "removed"]
  /\ imported' = imported \ {<<job[r].div, job[r].user>>}
  /\ End(r)
  /\ UNCHANGED <<division, deleted, members, users>>

\* DELETE ... WHERE division_id = ? AND user_id = ?, whatever the row says now.
RemoveMember(r) ==
  /\ job[r].op = "removeMember"
  /\ roster' = [roster EXCEPT ![job[r].div][job[r].user] = "none"]
  /\ imported' = imported \ {<<job[r].div, job[r].user>>}
  /\ End(r)
  /\ UNCHANGED <<division, deleted, members, users>>

\* Unless the target is not a member and shall not become HEAD, some statement
\* names the missing column; no path writes anything.
UpdateMemberRole(r, d, u, role) ==
  /\ Active(d)
  /\ u \in users
  /\ (role = "HEAD" /\ CountHeads(d) = None) \/ roster[d][u] # "none"
  /\ Begin(r, Failed)
  /\ UNCHANGED <<division, deleted, roster, members, users, imported>>

-----------------------------------------------------------------------------
(* New accounts *)

\* The divisions come from the request: their organization is not looked at.
StartCreateMember(r, o, u, D, role) ==
  /\ Fresh(u)
  /\ \A d \in D : division[d] # None
  /\ Begin(r, [op |-> "createMember", org |-> o, user |-> u, role |-> role,
               checked |-> {}, todo |-> D])
  /\ UNCHANGED <<division, deleted, roster, members, users, imported>>

Passed(j, d) == [j EXCEPT !.todo = @ \ {d}, !.checked = @ \cup {d}]

\* One division of the request is checked; a full one ends it.
CheckDivision(r, d) ==
  /\ job[r].op = "createMember"
  /\ d \in job[r].todo
  /\ job' = [job EXCEPT ![r] =
       IF ~HasRoom(d) THEN Idle
       ELSE IF job[r].role = "HEAD" /\ CountHeads(d) = None THEN Failed
       ELSE IF job[r].role = "HEAD" /\ ~HeadsBelow(d, MaxHeads) THEN Idle
       ELSE Passed(job[r], d)]
  /\ UNCHANGED <<division, deleted, roster, members, users, imported>>

\* One transaction: the user, the organization link and the roster rows.
CreateMember(r) ==
  /\ job[r].op = "createMember"
  /\ job[r].todo = {}
  /\ LET u == job[r].user
     IN /\ users' = users \cup {u}
        /\ members' = [members EXCEPT ![job[r].org] = @ \cup {u}]
        /\ roster' = [d \in Divisions |->
             IF d \in job[r].checked
             THEN [roster[d] EXCEPT ![u] = job[r].role] ELSE roster[d]]
  /\ End(r)
  /\ UNCHANGED <<division, deleted, imported>>

\* GetByNames finds active divisions of the organization; no limit is checked.
StartImport(r, o, batch) ==
  /\ \A u \in DOMAIN batch : Fresh(u) /\ batch[u].div \in ActiveIn(o)
  /\ Begin(r, [op |-> "import", org |-> o, batch |-> batch])
  /\ UNCHANGED <<division, deleted, roster, members, users, imported>>

\* One transaction for the whole batch.
Import(r) ==
  /\ job[r].op = "import"
  /\ LET batch == job[r].batch
         new == DOMAIN batch
     IN /\ users' = users \cup new
        /\ members' = [members EXCEPT ![job[r].org] = @ \cup new]
        /\ roster' = [d \in Divisions |-> [u \in Users |->
             IF u \in new /\ batch[u].div = d THEN batch[u].role ELSE roster[d][u]]]
        /\ imported' = imported \cup {<<batch[u].div, u>> : u \in new}
  /\ End(r)
  /\ UNCHANGED <<division, deleted>>

\* Removing a user from the organization leaves division_members alone.
RemoveFromOrganization(o, u) ==
  /\ u \in members[o]
  /\ members' = [members EXCEPT ![o] = @ \ {u}]
  /\ UNCHANGED <<division, deleted, roster, users, job, imported>>

\* A statement fails, the deadline passes or the process stops; or the 500 of
\* a failed handler is sent.
GiveUp(r) ==
  /\ job[r] # Idle
  /\ End(r)
  /\ UNCHANGED <<division, deleted, roster, members, users, imported>>

\* Every handler of this module but the one that deletes a division.
RosterNext ==
  \/ \E r \in Requests :
       \/ \E o \in Orgs : StartCreateDivision(r, o)
       \/ \E d \in Divisions : CreateDivision(r, d)
       \/ \E d \in Divisions, u \in Users, role \in Roles : StartAddMember(r, d, u, role)
       \/ AddMember(r)
       \/ \E d \in Divisions, u \in Users : StartRemoveMember(r, d, u)
       \/ RemoveMember(r)
       \/ \E d \in Divisions, u \in Users, role \in Roles : UpdateMemberRole(r, d, u, role)
       \/ \E o \in Orgs, u \in Users, D \in SUBSET Divisions, role \in Roles :
            StartCreateMember(r, o, u, D, role)
       \/ \E d \in Divisions : CheckDivision(r, d)
       \/ CreateMember(r)
       \/ \E o \in Orgs, S \in SUBSET Users :
            /\ S # {} /\ Cardinality(S) <= MaxBatch
            /\ \E batch \in [S -> [div : Divisions, role : Roles]] :
                 StartImport(r, o, batch)
       \/ Import(r)
       \/ GiveUp(r)
  \/ \E o \in Orgs, u \in Users : RemoveFromOrganization(o, u)

Next == RosterNext \/ \E d \in Divisions : DeleteDivision(d)

Spec == Init /\ [][Next]_vars

-----------------------------------------------------------------------------
(* Properties *)

\* Every variable has the shape of its table, and every job one of its shapes.
TypeOK ==
  /\ division \in [Divisions -> Orgs \cup {None}]
  /\ deleted \subseteq Divisions
  /\ roster \in [Divisions -> [Users -> Roles \cup {"none"}]]
  /\ members \in [Orgs -> SUBSET Users]
  /\ users \subseteq Users
  /\ job \in [Requests -> Jobs]
  /\ imported \subseteq Divisions \X Users

\* The members of d that went through the count, not through an import.
CountedMembers(d) == {u \in MembersOf(d) : <<d, u>> \notin imported}

\* The member limit may be passed only by handlers that counted before each
\* other's INSERT: by at most one row for each further handler, and not at all
\* when handlers run one at a time.
MemberLimitUpToRaces ==
  \A d \in Divisions :
    Cardinality(CountedMembers(d)) + 1 <= MaxMembers + Cardinality(Requests)

\* The same for the number of active divisions of an organization.
DivisionLimitUpToRaces ==
  \A o \in Orgs :
    Cardinality(ActiveIn(o)) + 1 <= MaxDivisions + Cardinality(Requests)

\* A row keeps its role until it is deleted: no handler, and no two handlers
\* that write the same row, promote or demote a member in place.
RolesStay ==
  [][\A d \in Divisions, u \in Users :
       roster[d][u] # "none" /\ roster'[d][u] # "none"
         => roster'[d][u] = roster[d][u]]_vars

-----------------------------------------------------------------------------
(* Claims of the documentation *)

\* sentinels.go: "division must have at least one HEAD": no handler takes the
\* last one away.  Holds when handlers run one at a time; otherwise a handler
\* may delete as HEAD the row it has read as STAFF.
LastHeadKept == [][\A d \in Divisions : HeadsOf(d) # {} => HeadsOf(d)' # {}]_vars

=============================================================================
