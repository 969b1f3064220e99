---------------------------- MODULE DivisionsProofs ----------------------------
(***************************************************************************)
(* How far the unlocked checks of Divisions can be overrun, for any number *)
(* of handlers, divisions and users and any limits, that a single handler  *)
(* never takes the last HEAD away, and that no role changes in place; then *)
(* that DivisionSystem implements Divisions and DivisionWork.              *)
(***************************************************************************)
EXTENDS DivisionSystem, FiniteSetTheorems, TLAPS

\* Handlers between their count of d and the INSERT it allows.
Counting(d) ==
  {r \in Requests : \/ job[r].op = "addMember" /\ job[r].div = d
                    \/ job[r].op = "createMember" /\ d \in job[r].checked}
Creating(o) ==
  {r \in Requests : job[r].op = "createDivision" /\ job[r].org = o}

\* Each handler that has counted may still add one row: a limit is charged with
\* the rows it has and with the handlers that have passed it.
MemberInv ==
  \A d \in Divisions :
    Cardinality(CountedMembers(d)) + Cardinality(Counting(d)) + 1
      <= MaxMembers + Cardinality(Requests)
DivisionInv ==
  \A o \in Orgs :
    Cardinality(ActiveIn(o)) + Cardinality(Creating(o)) + 1
      <= MaxDivisions + Cardinality(Requests)

-----------------------------------------------------------------------------
LEMMA InitTypeOK == Init => TypeOK
BY DEF Init, TypeOK, Jobs, Idle

\* Starting, checking and ending move a job between its shapes.
LEMMA JobShapes ==
  /\ Idle \in Jobs /\ Failed \in Jobs
  /\ \A o \in Orgs : [op |-> "createDivision", org |-> o] \in Jobs
  /\ \A d \in Divisions, u \in Users :
       /\ \A role \in Roles :
            [op |-> "addMember", div |-> d, user |-> u, role |-> role] \in Jobs
       /\ [op |-> "removeMember", div |-> d, user |-> u] \in Jobs
  /\ \A o \in Orgs, u \in Users, role \in Roles, C, D \in SUBSET Divisions :
       [op |-> "createMember", org |-> o, user |-> u, role |-> role,
        checked |-> C, todo |-> D] \in Jobs
  /\ \A o \in Orgs, batch \in Batches :
       [op |-> "import", org |-> o, batch |-> batch] \in Jobs
BY DEF Jobs

\* What a job of each kind has read.
LEMMA JobFields ==
  ASSUME NEW j \in Jobs
  PROVE  /\ j.op = "createDivision" => j.org \in Orgs
         /\ j.op = "addMember" =>
              j.div \in Divisions /\ j.user \in Users /\ j.role \in Roles
         /\ j.op = "removeMember" => j.div \in Divisions /\ j.user \in Users
         /\ j.op = "createMember" =>
              /\ j.org \in Orgs /\ j.user \in Users /\ j.role \in Roles
              /\ j.checked \in SUBSET Divisions /\ j.todo \in SUBSET Divisions
              /\ j = [op |-> "createMember", org |-> j.org, user |-> j.user,
                      role |-> j.role, checked |-> j.checked, todo |-> j.todo]
         /\ j.op = "import" =>
              /\ j.org \in Orgs /\ DOMAIN j.batch \in SUBSET Users
              /\ \A u \in DOMAIN j.batch :
                   j.batch[u].div \in Divisions /\ j.batch[u].role \in Roles
BY DEF Jobs, Batches, Idle, Failed

\* A checked division moves from todo to checked.
LEMMA PassedJob ==
  ASSUME NEW j \in Jobs, j.op = "createMember", NEW d \in Divisions
  PROVE  /\ Passed(j, d) \in Jobs /\ Passed(j, d).op = "createMember"
         /\ Passed(j, d).checked = j.checked \cup {d} /\ Passed(j, d).user = j.user
<1> DEFINE Creations ==
      [op : {"createMember"}, org : Orgs, user : Users, role : Roles,
       checked : SUBSET Divisions, todo : SUBSET Divisions]
<1>1. j \in Creations BY DEF Jobs, Idle, Failed
<1>2. /\ Passed(j, d) \in Creations
      /\ Passed(j, d).checked = j.checked \cup {d} /\ Passed(j, d).user = j.user
  BY <1>1 DEF Passed
<1> QED BY <1>2 DEF Jobs

LEMMA NextTypeOK == TypeOK /\ [Next]_vars => TypeOK'
<1> SUFFICES ASSUME TypeOK, [Next]_vars PROVE TypeOK' OBVIOUS
<1>1. ASSUME NEW r \in Requests, NEW j \in Jobs, job' = [job EXCEPT ![r] = j],
             UNCHANGED <<division, deleted, roster, members, users, imported>>
      PROVE  TypeOK'
  BY <1>1 DEF TypeOK
<1>2. ASSUME NEW r \in Requests, NEW o \in Orgs, StartCreateDivision(r, o)
      PROVE  TypeOK'
  BY <1>1, <1>2, JobShapes DEF StartCreateDivision, Begin
<1>3. ASSUME NEW r \in Requests, NEW d \in Divisions, CreateDivision(r, d)
      PROVE  TypeOK'
  BY <1>3, JobShapes, JobFields DEF CreateDivision, End, TypeOK
<1>4. ASSUME NEW r \in Requests, NEW d \in Divisions, NEW u \in Users,
             NEW role \in Roles, StartAddMember(r, d, u, role)
      PROVE  TypeOK'
  BY <1>1, <1>4, JobShapes DEF StartAddMember, Begin
<1>5. ASSUME NEW r \in Requests, AddMember(r) PROVE TypeOK'
  BY <1>5, JobShapes, JobFields DEF AddMember, End, TypeOK
<1>6. ASSUME NEW r \in Requests, NEW d \in Divisions, NEW u \in Users,
             StartRemoveMember(r, d, u)
      PROVE  TypeOK'
  BY <1>1, <1>6, JobShapes DEF StartRemoveMember, Begin
<1>7. ASSUME NEW r \in Requests, RemoveMember(r) PROVE TypeOK'
  BY <1>7, JobShapes, JobFields DEF RemoveMember, End, TypeOK
<1>8. ASSUME NEW r \in Requests, NEW d \in Divisions, NEW u \in Users,
             NEW role \in Roles, UpdateMemberRole(r, d, u, role)
      PROVE  TypeOK'
  BY <1>1, <1>8, JobShapes DEF UpdateMemberRole, Begin
<1>9. ASSUME NEW r \in Requests, NEW o \in Orgs, NEW u \in Users,
             NEW D \in SUBSET Divisions, NEW role \in Roles,
             StartCreateMember(r, o, u, D, role)
      PROVE  TypeOK'
  BY <1>1, <1>9, JobShapes DEF StartCreateMember, Begin
<1>10. ASSUME NEW r \in Requests, NEW d \in Divisions, CheckDivision(r, d)
       PROVE  TypeOK'
  <2>1. job[r] \in Jobs /\ job[r].op = "createMember"
    BY <1>10 DEF CheckDivision, TypeOK
  <2>2. Passed(job[r], d) \in Jobs BY <2>1, PassedJob
  <2>3. job' = [job EXCEPT ![r] = Idle] \/ job' = [job EXCEPT ![r] = Failed]
          \/ job' = [job EXCEPT ![r] = Passed(job[r], d)]
    BY <1>10 DEF CheckDivision
  <2> QED BY <1>1, <1>10, <2>2, <2>3, JobShapes DEF CheckDivision
<1>11. ASSUME NEW r \in Requests, CreateMember(r) PROVE TypeOK'
  <2>1. job[r] \in Jobs /\ job[r].op = "createMember"
    BY <1>11 DEF CreateMember, TypeOK
  <2>2. /\ job[r].user \in Users /\ job[r].role \in Roles /\ job[r].org \in Orgs
    BY <2>1, JobFields
  <2> QED BY <1>11, <2>2, JobShapes DEF CreateMember, End, TypeOK
<1>12. ASSUME NEW r \in Requests, NEW o \in Orgs, NEW S \in SUBSET Users,
              NEW batch \in [S -> [div : Divisions, role : Roles]],
              StartImport(r, o, batch)
       PROVE  TypeOK'
  <2>1. batch \in Batches BY DEF Batches
  <2> QED BY <1>1, <1>12, <2>1, JobShapes DEF StartImport, Begin
<1>13. ASSUME NEW r \in Requests, Import(r) PROVE TypeOK'
  <2> DEFINE batch == job[r].batch
             new == DOMAIN batch
  <2>1. job[r] \in Jobs /\ job[r].op = "import"
    BY <1>13 DEF Import, TypeOK
  <2>2. /\ job[r].org \in Orgs /\ new \in SUBSET Users
        /\ \A u \in new : batch[u].div \in Divisions /\ batch[u].role \in Roles
    BY <2>1, JobFields
  <2> HIDE DEF batch, new
  <2>3. /\ users' = users \cup new
        /\ members' = [members EXCEPT ![job[r].org] = @ \cup new]
        /\ roster' = [d \in Divisions |-> [u \in Users |->
             IF u \in new /\ batch[u].div = d THEN batch[u].role ELSE roster[d][u]]]
        /\ imported' = imported \cup {<<batch[u].div, u>> : u \in new}
        /\ job' = [job EXCEPT ![r] = Idle]
        /\ UNCHANGED <<division, deleted>>
    BY <1>13 DEF Import, End, batch, new
  <2>4. roster' \in [Divisions -> [Users -> Roles \cup {"none"}]]
    BY <2>2, <2>3 DEF TypeOK
  <2>5. imported' \subseteq Divisions \X Users
    BY <2>2, <2>3 DEF TypeOK
  <2>6. users' \subseteq Users /\ members' \in [Orgs -> SUBSET Users]
    BY <2>2, <2>3 DEF TypeOK
  <2> QED BY <2>3, <2>4, <2>5, <2>6, JobShapes DEF TypeOK
<1>14. ASSUME NEW r \in Requests, GiveUp(r) PROVE TypeOK'
  BY <1>1, <1>14, JobShapes DEF GiveUp, End
<1>15. ASSUME NEW d \in Divisions, DeleteDivision(d) PROVE TypeOK'
  BY <1>15 DEF DeleteDivision, TypeOK
<1>16. ASSUME NEW o \in Orgs, NEW u \in Users, RemoveFromOrganization(o, u)
       PROVE  TypeOK'
  BY <1>16 DEF RemoveFromOrganization, TypeOK
<1>17. CASE UNCHANGED vars
  BY <1>17 DEF vars, TypeOK
<1> QED
  BY <1>2, <1>3, <1>4, <1>5, <1>6, <1>7, <1>8, <1>9, <1>10, <1>11, <1>12, <1>13,
     <1>14, <1>15, <1>16, <1>17 DEF Next, RosterNext

THEOREM DivisionsTypeCorrect == Spec => []TypeOK
BY InitTypeOK, NextTypeOK, PTL DEF Spec

-----------------------------------------------------------------------------
(* Limits *)

\* Adding at most one element adds at most one.
LEMMA OneMore ==
  ASSUME NEW S, NEW T, NEW x, IsFiniteSet(S), T \subseteq S \cup {x}
  PROVE  IsFiniteSet(T) /\ Cardinality(T) \in Nat /\ Cardinality(T) <= Cardinality(S) + 1
<1>1. IsFiniteSet(S \cup {x}) /\ Cardinality(S \cup {x}) <= Cardinality(S) + 1
  <2>1. Cardinality(S) \in Nat BY FS_CardinalityType
  <2>2. /\ IsFiniteSet(S \cup {x})
        /\ Cardinality(S \cup {x}) =
             IF x \in S THEN Cardinality(S) ELSE Cardinality(S) + 1
    BY FS_AddElement
  <2> QED BY <2>1, <2>2
<1>2. IsFiniteSet(T) /\ Cardinality(T) <= Cardinality(S \cup {x})
  BY <1>1, FS_Subset
<1> QED BY <1>1, <1>2, FS_CardinalityType

\* A limit charged with rows R and passes P, of at most N handlers, stays
\* within max + N when nothing is added, when a pass is turned into a row,
\* and when a pass is given out while R is below max.
LEMMA Charge ==
  ASSUME NEW R, NEW P, NEW Q, NEW S, NEW max \in Nat, NEW W,
         IsFiniteSet(R), IsFiniteSet(W), P \subseteq W, Q \subseteq W,
         Cardinality(R) + Cardinality(P) + 1 <= max + Cardinality(W),
         \/ S \subseteq R /\ Q \subseteq P
         \/ \E x, r : r \in P /\ S \subseteq R \cup {x} /\ Q \subseteq P \ {r}
         \/ S \subseteq R /\ Cardinality(R) < max
  PROVE  Cardinality(S) + Cardinality(Q) + 1 <= max + Cardinality(W)
<1>1. /\ IsFiniteSet(P) /\ IsFiniteSet(Q) /\ Cardinality(Q) <= Cardinality(W)
      /\ Cardinality(P) \in Nat /\ Cardinality(Q) \in Nat
      /\ Cardinality(R) \in Nat /\ Cardinality(W) \in Nat
  BY FS_Subset, FS_CardinalityType
<1>2. CASE S \subseteq R /\ Q \subseteq P
  <2>1. Cardinality(S) <= Cardinality(R) /\ Cardinality(Q) <= Cardinality(P)
        /\ Cardinality(S) \in Nat
    BY <1>1, <1>2, FS_Subset, FS_CardinalityType
  <2> QED BY <1>1, <2>1
<1>3. ASSUME NEW x, NEW r \in P, S \subseteq R \cup {x}, Q \subseteq P \ {r}
      PROVE  Cardinality(S) + Cardinality(Q) + 1 <= max + Cardinality(W)
  <2>1. Cardinality(S) \in Nat /\ Cardinality(S) <= Cardinality(R) + 1
    BY <1>3, OneMore
  <2>2. IsFiniteSet(P \ {r}) /\ Cardinality(P \ {r}) = Cardinality(P) - 1
    BY <1>1, FS_RemoveElement
  <2>3. Cardinality(Q) <= Cardinality(P) - 1
    BY <1>3, <2>2, FS_Subset
  <2> QED BY <1>1, <2>1, <2>3
<1>4. CASE S \subseteq R /\ Cardinality(R) < max
  <2>1. Cardinality(S) <= Cardinality(R) /\ Cardinality(S) \in Nat
    BY <1>1, <1>4, FS_Subset, FS_CardinalityType
  <2> QED BY <1>1, <1>4, <2>1
<1> QED BY <1>2, <1>3, <1>4

\* What a step may do to the account of division d.
MemberStep(d) ==
  \/ CountedMembers(d)' \subseteq CountedMembers(d) /\ Counting(d)' \subseteq Counting(d)
  \/ \E u, r : /\ r \in Counting(d)
               /\ CountedMembers(d)' \subseteq CountedMembers(d) \cup {u}
               /\ Counting(d)' \subseteq Counting(d) \ {r}
  \/ CountedMembers(d)' \subseteq CountedMembers(d) /\ HasRoom(d)

LEMMA MemberCharge ==
  ASSUME TypeOK, MemberInv, \A d \in Divisions : MemberStep(d)
  PROVE  MemberInv'
<1> SUFFICES ASSUME NEW d \in Divisions
             PROVE  Cardinality(CountedMembers(d)') + Cardinality(Counting(d)') + 1
                      <= MaxMembers + Cardinality(Requests)
  BY DEF MemberInv
<1> DEFINE R == CountedMembers(d)
           S == CountedMembers(d)'
           P == Counting(d)
           Q == Counting(d)'
<1>1. IsFiniteSet(MembersOf(d)) /\ R \subseteq MembersOf(d)
  BY FiniteAssumption, FS_Subset DEF MembersOf, CountedMembers
<1>2. /\ IsFiniteSet(R) /\ Cardinality(R) <= Cardinality(MembersOf(d))
      /\ Cardinality(R) \in Nat /\ Cardinality(MembersOf(d)) \in Nat
  BY <1>1, FS_Subset, FS_CardinalityType
<1>3. P \subseteq Requests /\ Q \subseteq Requests
  BY DEF Counting
<1>4. HasRoom(d) => Cardinality(R) < MaxMembers
  BY <1>2, LimitsAssumption DEF HasRoom
<1>5. Cardinality(R) + Cardinality(P) + 1 <= MaxMembers + Cardinality(Requests)
  BY DEF MemberInv
<1>6. \/ S \subseteq R /\ Q \subseteq P
      \/ \E x, r : r \in P /\ S \subseteq R \cup {x} /\ Q \subseteq P \ {r}
      \/ S \subseteq R /\ Cardinality(R) < MaxMembers
  BY <1>4 DEF MemberStep
<1> HIDE DEF R, S, P, Q
<1>7. Cardinality(S) + Cardinality(Q) + 1 <= MaxMembers + Cardinality(Requests)
  BY <1>2, <1>3, <1>5, <1>6, Charge, LimitsAssumption, FiniteAssumption
<1> QED BY <1>7 DEF S, Q

\* A step that leaves the roster alone and gives no pass for d.
LEMMA MemberQuiet ==
  ASSUME TypeOK, NEW d \in Divisions, UNCHANGED <<roster, imported>>,
         Counting(d)' \subseteq Counting(d)
  PROVE  MemberStep(d)
BY DEF MemberStep, CountedMembers, MembersOf

LEMMA NextMember == TypeOK /\ MemberInv /\ [Next]_vars => MemberInv'
<1> SUFFICES ASSUME TypeOK, MemberInv, [Next]_vars, NEW d \in Divisions
             PROVE  MemberStep(d)
  BY MemberCharge
<1>1. ASSUME NEW r \in Requests, NEW j, job' = [job EXCEPT ![r] = j],
             j.op \notin {"addMember", "createMember"}
      PROVE  Counting(d)' \subseteq Counting(d) \ {r}
  BY <1>1 DEF Counting, TypeOK
<1>2. ASSUME NEW r \in Requests, End(r)
      PROVE  Counting(d)' \subseteq Counting(d) \ {r}
  BY <1>1, <1>2 DEF End, Idle
<1>3. ASSUME NEW r \in Requests, NEW o \in Orgs, StartCreateDivision(r, o)
      PROVE  MemberStep(d)
  BY <1>1, <1>3, MemberQuiet DEF StartCreateDivision, Begin
<1>4. ASSUME NEW r \in Requests, NEW e \in Divisions, CreateDivision(r, e)
      PROVE  MemberStep(d)
  BY <1>2, <1>4, MemberQuiet DEF CreateDivision
<1>5. ASSUME NEW r \in Requests, NEW e \in Divisions, NEW u \in Users,
             NEW role \in Roles, StartAddMember(r, e, u, role)
      PROVE  MemberStep(d)
  <2>1. /\ job' = [job EXCEPT ![r] =
              [op |-> "addMember", div |-> e, user |-> u, role |-> role]]
        /\ HasRoom(e) /\ UNCHANGED <<roster, imported>>
    BY <1>5 DEF StartAddMember, Begin
  <2>2. CountedMembers(d)' = CountedMembers(d)
    BY <2>1 DEF CountedMembers, MembersOf
  <2>3. CASE d = e BY <2>1, <2>2, <2>3 DEF MemberStep
  <2>4. CASE d # e
    <3>1. Counting(d)' \subseteq Counting(d) BY <2>1, <2>4 DEF Counting, TypeOK
    <3> QED BY <2>2, <3>1 DEF MemberStep
  <2> QED BY <2>3, <2>4
<1>6. ASSUME NEW r \in Requests, AddMember(r) PROVE MemberStep(d)
  <2>1. /\ job[r].op = "addMember" /\ UNCHANGED imported
        /\ roster' = roster
           \/ roster' = [roster EXCEPT ![job[r].div][job[r].user] = job[r].role]
    BY <1>6 DEF AddMember
  <2>2. Counting(d)' \subseteq Counting(d) \ {r} BY <1>2, <1>6 DEF AddMember
  <2>3. CASE d = job[r].div
    <3>1. r \in Counting(d) BY <2>1, <2>3 DEF Counting
    <3>2. CountedMembers(d)' \subseteq CountedMembers(d) \cup {job[r].user}
      BY <2>1 DEF CountedMembers, MembersOf, TypeOK
    <3> QED BY <2>2, <3>1, <3>2 DEF MemberStep
  <2>4. CASE d # job[r].div
    <3>1. CountedMembers(d)' = CountedMembers(d)
      BY <2>1, <2>4 DEF CountedMembers, MembersOf, TypeOK
    <3> QED BY <2>2, <3>1 DEF MemberStep
  <2> QED BY <2>3, <2>4
<1>7. ASSUME NEW r \in Requests, NEW e \in Divisions, NEW u \in Users,
             StartRemoveMember(r, e, u)
      PROVE  MemberStep(d)
  <2> DEFINE removing == [op |-> "removeMember", div |-> e, user |-> u]
  <2>1. /\ \E j \in {Idle, Failed, removing} : job' = [job EXCEPT ![r] = j]
        /\ UNCHANGED <<roster, imported>>
    BY <1>7 DEF StartRemoveMember, Begin
  <2>2. \A j \in {Idle, Failed, removing} : j.op \notin {"addMember", "createMember"}
    BY DEF Idle, Failed
  <2> HIDE DEF removing
  <2>3. Counting(d)' \subseteq Counting(d) BY <1>1, <2>1, <2>2
  <2> QED BY <2>1, <2>3, MemberQuiet
<1>8. ASSUME NEW r \in Requests, RemoveMember(r) PROVE MemberStep(d)
  <2>1. Counting(d)' \subseteq Counting(d) BY <1>2, <1>8 DEF RemoveMember
  <2>2. CountedMembers(d)' \subseteq CountedMembers(d)
    <3>1. job[r].div \in Divisions /\ job[r].user \in Users
      BY <1>8, JobFields DEF RemoveMember, TypeOK
    <3>2. /\ roster' = [roster EXCEPT ![job[r].div][job[r].user] = "none"]
          /\ imported' = imported \ {<<job[r].div, job[r].user>>}
      BY <1>8 DEF RemoveMember
    <3>3. \A u \in Users : roster'[d][u] # "none" =>
            roster[d][u] # "none" /\ <<d, u>> # <<job[r].div, job[r].user>>
      BY <3>1, <3>2 DEF TypeOK
    <3> QED BY <3>2, <3>3 DEF CountedMembers, MembersOf
  <2> QED BY <2>1, <2>2 DEF MemberStep
<1>9. ASSUME NEW r \in Requests, NEW e \in Divisions, NEW u \in Users,
             NEW role \in Roles, UpdateMemberRole(r, e, u, role)
      PROVE  MemberStep(d)
  BY <1>1, <1>9, MemberQuiet DEF UpdateMemberRole, Begin, Failed
<1>10. ASSUME NEW r \in Requests, NEW o \in Orgs, NEW u \in Users,
              NEW D \in SUBSET Divisions, NEW role \in Roles,
              StartCreateMember(r, o, u, D, role)
       PROVE  MemberStep(d)
  <2>1. job' = [job EXCEPT ![r] = [op |-> "createMember", org |-> o, user |-> u,
                  role |-> role, checked |-> {}, todo |-> D]]
        /\ UNCHANGED <<roster, imported>>
    BY <1>10 DEF StartCreateMember, Begin
  <2>2. Counting(d)' \subseteq Counting(d) BY <2>1 DEF Counting, TypeOK
  <2> QED BY <2>1, <2>2, MemberQuiet
<1>11. ASSUME NEW r \in Requests, NEW e \in Divisions, CheckDivision(r, e)
       PROVE  MemberStep(d)
  <2> DEFINE next == Passed(job[r], e)
  <2>1. /\ job[r] \in Jobs /\ job[r].op = "createMember"
        /\ UNCHANGED <<roster, imported>>
    BY <1>11 DEF CheckDivision, TypeOK
  <2>2. CountedMembers(d)' = CountedMembers(d)
    BY <2>1 DEF CountedMembers, MembersOf
  <2>3. CASE job' = [job EXCEPT ![r] = Idle] \/ job' = [job EXCEPT ![r] = Failed]
    BY <1>1, <2>1, <2>3, MemberQuiet DEF Idle, Failed
  <2>4. CASE HasRoom(e) /\ job' = [job EXCEPT ![r] = next]
    <3>1. next.op = "createMember" /\ next.checked = job[r].checked \cup {e}
      BY <2>1, PassedJob
    <3>2. CASE d = e BY <2>2, <2>4, <3>2 DEF MemberStep
    <3>3. CASE d # e
      <4>1. Counting(d)' \subseteq Counting(d)
        BY <2>1, <2>4, <3>1, <3>3 DEF Counting, TypeOK
      <4> QED BY <2>2, <4>1 DEF MemberStep
    <3> QED BY <3>2, <3>3
  <2>5. \/ job' = [job EXCEPT ![r] = Idle] \/ job' = [job EXCEPT ![r] = Failed]
        \/ HasRoom(e) /\ job' = [job EXCEPT ![r] = next]
    BY <1>11 DEF CheckDivision
  <2> QED BY <2>3, <2>4, <2>5
<1>12. ASSUME NEW r \in Requests, CreateMember(r) PROVE MemberStep(d)
  <2>1. /\ job[r] \in Jobs /\ job[r].op = "createMember" /\ UNCHANGED imported
        /\ roster' = [e \in Divisions |->
             IF e \in job[r].checked
             THEN [roster[e] EXCEPT ![job[r].user] = job[r].role] ELSE roster[e]]
    BY <1>12 DEF CreateMember, TypeOK
  <2>2. Counting(d)' \subseteq Counting(d) \ {r} BY <1>2, <1>12 DEF CreateMember
  <2>3. CASE d \in job[r].checked
    <3>1. r \in Counting(d) BY <2>1, <2>3 DEF Counting
    <3>2. CountedMembers(d)' \subseteq CountedMembers(d) \cup {job[r].user}
      BY <2>1 DEF CountedMembers, MembersOf, TypeOK
    <3> QED BY <2>2, <3>1, <3>2 DEF MemberStep
  <2>4. CASE d \notin job[r].checked
    <3>1. CountedMembers(d)' = CountedMembers(d)
      BY <2>1, <2>4 DEF CountedMembers, MembersOf, TypeOK
    <3> QED BY <2>2, <3>1 DEF MemberStep
  <2> QED BY <2>3, <2>4
<1>13. ASSUME NEW r \in Requests, NEW o \in Orgs, NEW S \in SUBSET Users,
              NEW batch \in [S -> [div : Divisions, role : Roles]],
              StartImport(r, o, batch)
       PROVE  MemberStep(d)
  BY <1>1, <1>13, MemberQuiet DEF StartImport, Begin
<1>14. ASSUME NEW r \in Requests, Import(r) PROVE MemberStep(d)
  <2>1. Counting(d)' \subseteq Counting(d) BY <1>2, <1>14 DEF Import
  <2> DEFINE batch == job[r].batch
             new == DOMAIN batch
  <2>2. /\ roster' = [e \in Divisions |-> [u \in Users |->
             IF u \in new /\ batch[u].div = e THEN batch[u].role ELSE roster[e][u]]]
        /\ imported' = imported \cup {<<batch[u].div, u>> : u \in new}
    BY <1>14 DEF Import
  <2> HIDE DEF batch, new
  <2>3. CountedMembers(d)' \subseteq CountedMembers(d)
    BY <2>2 DEF CountedMembers, MembersOf
  <2> QED BY <2>1, <2>3 DEF MemberStep
<1>15. ASSUME NEW r \in Requests, GiveUp(r) PROVE MemberStep(d)
  BY <1>2, <1>15, MemberQuiet DEF GiveUp
<1>16. CASE UNCHANGED <<roster, imported, job>>
  BY <1>16, MemberQuiet DEF Counting
<1> QED
  BY <1>3, <1>4, <1>5, <1>6, <1>7, <1>8, <1>9, <1>10, <1>11, <1>12, <1>13, <1>14,
     <1>15, <1>16 DEF Next, RosterNext, vars, DeleteDivision, RemoveFromOrganization

LEMMA InitMember == Init => MemberInv
<1> SUFFICES ASSUME Init, NEW d \in Divisions
             PROVE  Cardinality(CountedMembers(d)) + Cardinality(Counting(d)) + 1
                      <= MaxMembers + Cardinality(Requests)
  BY DEF MemberInv
<1>1. CountedMembers(d) = {} BY DEF Init, CountedMembers, MembersOf
<1>2. Counting(d) = {} BY DEF Init, Counting, Idle
<1> QED BY <1>1, <1>2, FS_EmptySet, FS_CardinalityType, LimitsAssumption, FiniteAssumption

\* Concurrent handlers overrun the member limit by at most one row each.
THEOREM MemberLimit == Spec => []MemberLimitUpToRaces
<1>1. TypeOK /\ MemberInv => MemberLimitUpToRaces
  <2> SUFFICES ASSUME TypeOK, MemberInv, NEW d \in Divisions
               PROVE  Cardinality(CountedMembers(d)) + 1
                        <= MaxMembers + Cardinality(Requests)
    BY DEF MemberLimitUpToRaces
  <2>1. Cardinality(Counting(d)) \in Nat
    BY FiniteAssumption, FS_Subset, FS_CardinalityType DEF Counting
  <2>2. Cardinality(CountedMembers(d)) \in Nat
    BY FiniteAssumption, FS_Subset, FS_CardinalityType DEF CountedMembers, MembersOf
  <2>3. Cardinality(Requests) \in Nat BY FiniteAssumption, FS_CardinalityType
  <2> QED BY <2>1, <2>2, <2>3, LimitsAssumption DEF MemberInv
<1> QED BY <1>1, InitMember, NextMember, DivisionsTypeCorrect, PTL DEF Spec
-----------------------------------------------------------------------------
(* Divisions of an organization *)

\* What a step may do to the account of organization o.
DivisionStep(o) ==
  \/ ActiveIn(o)' \subseteq ActiveIn(o) /\ Creating(o)' \subseteq Creating(o)
  \/ \E d, r : /\ r \in Creating(o)
               /\ ActiveIn(o)' \subseteq ActiveIn(o) \cup {d}
               /\ Creating(o)' \subseteq Creating(o) \ {r}
  \/ ActiveIn(o)' \subseteq ActiveIn(o) /\ CountDivisions(o)

LEMMA DivisionCharge ==
  ASSUME TypeOK, DivisionInv, \A o \in Orgs : DivisionStep(o)
  PROVE  DivisionInv'
<1> SUFFICES ASSUME NEW o \in Orgs
             PROVE  Cardinality(ActiveIn(o)') + Cardinality(Creating(o)') + 1
                      <= MaxDivisions + Cardinality(Requests)
  BY DEF DivisionInv
<1> DEFINE R == ActiveIn(o)
           S == ActiveIn(o)'
           P == Creating(o)
           Q == Creating(o)'
<1>1. IsFiniteSet(R)
  BY FiniteAssumption, FS_Subset DEF ActiveIn
<1>2. P \subseteq Requests /\ Q \subseteq Requests
  BY DEF Creating
<1>3. Cardinality(R) + Cardinality(P) + 1 <= MaxDivisions + Cardinality(Requests)
  BY DEF DivisionInv
<1>4. \/ S \subseteq R /\ Q \subseteq P
      \/ \E x, r : r \in P /\ S \subseteq R \cup {x} /\ Q \subseteq P \ {r}
      \/ S \subseteq R /\ Cardinality(R) < MaxDivisions
  BY DEF DivisionStep, CountDivisions
<1> HIDE DEF R, S, P, Q
<1>5. Cardinality(S) + Cardinality(Q) + 1 <= MaxDivisions + Cardinality(Requests)
  BY <1>1, <1>2, <1>3, <1>4, Charge, LimitsAssumption, FiniteAssumption
<1> QED BY <1>5 DEF S, Q

LEMMA NextDivision == TypeOK /\ DivisionInv /\ [Next]_vars => DivisionInv'
<1> SUFFICES ASSUME TypeOK, DivisionInv, [Next]_vars, NEW o \in Orgs
             PROVE  DivisionStep(o)
  BY DivisionCharge
<1>1. ASSUME NEW r \in Requests, NEW j, job' = [job EXCEPT ![r] = j],
             j.op \notin {"createDivision"}, UNCHANGED <<division, deleted>>
      PROVE  DivisionStep(o)
  <2>1. ActiveIn(o)' = ActiveIn(o) BY <1>1 DEF ActiveIn
  <2>2. Creating(o)' \subseteq Creating(o) BY <1>1 DEF Creating, TypeOK
  <2> QED BY <2>1, <2>2 DEF DivisionStep
<1>2. ASSUME NEW r \in Requests, End(r), UNCHANGED <<division, deleted>>
      PROVE  DivisionStep(o)
  BY <1>1, <1>2 DEF End, Idle
<1>3. ASSUME NEW r \in Requests, NEW p \in Orgs, StartCreateDivision(r, p)
      PROVE  DivisionStep(o)
  <2>1. /\ job' = [job EXCEPT ![r] = [op |-> "createDivision", org |-> p]]
        /\ CountDivisions(p) /\ UNCHANGED <<division, deleted>>
    BY <1>3 DEF StartCreateDivision, Begin
  <2>2. ActiveIn(o)' = ActiveIn(o) BY <2>1 DEF ActiveIn
  <2>3. CASE o = p BY <2>1, <2>2, <2>3 DEF DivisionStep
  <2>4. CASE o # p
    <3>1. Creating(o)' \subseteq Creating(o) BY <2>1, <2>4 DEF Creating, TypeOK
    <3> QED BY <2>2, <3>1 DEF DivisionStep
  <2> QED BY <2>3, <2>4
<1>4. ASSUME NEW r \in Requests, NEW d \in Divisions, CreateDivision(r, d)
      PROVE  DivisionStep(o)
  <2>1. /\ job[r].op = "createDivision" /\ UNCHANGED deleted
        /\ division' = [division EXCEPT ![d] = job[r].org]
        /\ job' = [job EXCEPT ![r] = Idle]
    BY <1>4 DEF CreateDivision, End
  <2>2. Creating(o)' \subseteq Creating(o) \ {r} BY <2>1 DEF Creating, Idle, TypeOK
  <2>3. CASE job[r].org = o
    <3>1. r \in Creating(o) BY <2>1, <2>3 DEF Creating
    <3>2. ActiveIn(o)' \subseteq ActiveIn(o) \cup {d} BY <2>1 DEF ActiveIn, TypeOK
    <3> QED BY <2>2, <3>1, <3>2 DEF DivisionStep
  <2>4. CASE job[r].org # o
    <3>1. ActiveIn(o)' \subseteq ActiveIn(o) BY <2>1, <2>4 DEF ActiveIn, TypeOK
    <3> QED BY <2>2, <3>1 DEF DivisionStep
  <2> QED BY <2>3, <2>4
<1>5. ASSUME NEW r \in Requests, NEW d \in Divisions, NEW u \in Users,
             NEW role \in Roles, StartAddMember(r, d, u, role)
      PROVE  DivisionStep(o)
  BY <1>1, <1>5 DEF StartAddMember, Begin
<1>6. ASSUME NEW r \in Requests, NEW d \in Divisions, NEW u \in Users,
             StartRemoveMember(r, d, u)
      PROVE  DivisionStep(o)
  <2> DEFINE removing == [op |-> "removeMember", div |-> d, user |-> u]
  <2>1. /\ \E j \in {Idle, Failed, removing} : job' = [job EXCEPT ![r] = j]
        /\ UNCHANGED <<division, deleted>>
    BY <1>6 DEF StartRemoveMember, Begin
  <2>2. \A j \in {Idle, Failed, removing} : j.op \notin {"createDivision"}
    BY DEF Idle, Failed
  <2> HIDE DEF removing
  <2> QED BY <1>1, <2>1, <2>2
<1>7. ASSUME NEW r \in Requests, NEW d \in Divisions, NEW u \in Users,
             NEW role \in Roles, UpdateMemberRole(r, d, u, role)
      PROVE  DivisionStep(o)
  BY <1>1, <1>7 DEF UpdateMemberRole, Begin, Failed
<1>8. ASSUME NEW r \in Requests, NEW p \in Orgs, NEW u \in Users,
             NEW D \in SUBSET Divisions, NEW role \in Roles,
             StartCreateMember(r, p, u, D, role)
      PROVE  DivisionStep(o)
  BY <1>1, <1>8 DEF StartCreateMember, Begin
<1>9. ASSUME NEW r \in Requests, NEW d \in Divisions, CheckDivision(r, d)
      PROVE  DivisionStep(o)
  <2>1. Passed(job[r], d).op = "createMember"
    BY <1>9, PassedJob DEF CheckDivision, TypeOK
  <2>2. \/ job' = [job EXCEPT ![r] = Idle] \/ job' = [job EXCEPT ![r] = Failed]
        \/ job' = [job EXCEPT ![r] = Passed(job[r], d)]
    BY <1>9 DEF CheckDivision
  <2>3. UNCHANGED <<division, deleted>> BY <1>9 DEF CheckDivision
  <2> QED BY <1>1, <2>1, <2>2, <2>3 DEF Idle, Failed
<1>10. ASSUME NEW r \in Requests, NEW p \in Orgs, NEW S \in SUBSET Users,
              NEW batch \in [S -> [div : Divisions, role : Roles]],
              StartImport(r, p, batch)
       PROVE  DivisionStep(o)
  BY <1>1, <1>10 DEF StartImport, Begin
<1>11. ASSUME NEW r \in Requests,
              AddMember(r) \/ RemoveMember(r) \/ CreateMember(r) \/ Import(r) \/ GiveUp(r)
       PROVE  DivisionStep(o)
  <2>1. End(r) /\ UNCHANGED <<division, deleted>>
    BY <1>11 DEF AddMember, RemoveMember, CreateMember, Import, GiveUp
  <2> QED BY <1>2, <2>1
<1>12. ASSUME NEW d \in Divisions, DeleteDivision(d) PROVE DivisionStep(o)
  BY <1>12 DEF DeleteDivision, DivisionStep, ActiveIn, Creating
<1>13. CASE UNCHANGED <<division, deleted, job>>
  BY <1>13 DEF DivisionStep, ActiveIn, Creating
<1> QED
  BY <1>3, <1>4, <1>5, <1>6, <1>7, <1>8, <1>9, <1>10, <1>11, <1>12, <1>13
     DEF Next, RosterNext, vars, RemoveFromOrganization

LEMMA InitDivision == Init => DivisionInv
<1> SUFFICES ASSUME Init, NEW o \in Orgs
             PROVE  Cardinality(ActiveIn(o)) + Cardinality(Creating(o)) + 1
                      <= MaxDivisions + Cardinality(Requests)
  BY DEF DivisionInv
<1>1. ActiveIn(o) = {} BY NoneAssumption DEF Init, ActiveIn
<1>2. Creating(o) = {} BY DEF Init, Creating, Idle
<1> QED BY <1>1, <1>2, FS_EmptySet, FS_CardinalityType, LimitsAssumption, FiniteAssumption

\* Concurrent handlers overrun the division limit by at most one each.
THEOREM DivisionLimit == Spec => []DivisionLimitUpToRaces
<1>1. TypeOK /\ DivisionInv => DivisionLimitUpToRaces
  <2> SUFFICES ASSUME TypeOK, DivisionInv, NEW o \in Orgs
               PROVE  Cardinality(ActiveIn(o)) + 1 <= MaxDivisions + Cardinality(Requests)
    BY DEF DivisionLimitUpToRaces
  <2>1. Cardinality(Creating(o)) \in Nat
    BY FiniteAssumption, FS_Subset, FS_CardinalityType DEF Creating
  <2>2. Cardinality(ActiveIn(o)) \in Nat
    BY FiniteAssumption, FS_Subset, FS_CardinalityType DEF ActiveIn
  <2>3. Cardinality(Requests) \in Nat BY FiniteAssumption, FS_CardinalityType
  <2> QED BY <2>1, <2>2, <2>3, LimitsAssumption DEF DivisionInv
<1> QED BY <1>1, InitDivision, NextDivision, DivisionsTypeCorrect, PTL DEF Spec
-----------------------------------------------------------------------------
(* The last HEAD *)

\* What a handler has read is still so.  One handler at a time keeps it, for
\* nobody else writes a row or a user meanwhile.
StillSo(r) ==
  /\ job[r].op = "addMember" => job[r].user \in users
  /\ job[r].op = "removeMember" => roster[job[r].div][job[r].user] # "HEAD"
  /\ job[r].op = "createMember" => job[r].user \notin users
  /\ job[r].op = "import" => DOMAIN job[r].batch \cap users = {}
RowsHaveUsers == \A d \in Divisions, u \in Users : roster[d][u] # "none" => u \in users
SerialInv == RowsHaveUsers /\ \A r \in Requests : StillSo(r)

\* Actions that only move the job of one handler.
LEMMA SerialJob ==
  ASSUME TypeOK, SerialInv, \A q, r \in Requests : q = r, NEW r \in Requests, NEW j,
         job' = [job EXCEPT ![r] = j], UNCHANGED <<roster, users>>,
         j.op = "addMember" => j.user \in users,
         j.op = "removeMember" => roster[j.div][j.user] # "HEAD",
         j.op = "createMember" => j.user \notin users,
         j.op = "import" => DOMAIN j.batch \cap users = {}
  PROVE  SerialInv'
<1>1. job'[r] = j BY DEF TypeOK
<1>2. RowsHaveUsers' BY DEF SerialInv, RowsHaveUsers
<1>3. StillSo(r)' BY <1>1 DEF StillSo
<1>4. \A q \in Requests : StillSo(q)' BY <1>3
<1> QED BY <1>2, <1>4 DEF SerialInv

\* Actions that end the only job have the rows to answer for.
LEMMA SerialEnd ==
  ASSUME TypeOK, \A q, r \in Requests : q = r, NEW r \in Requests, End(r), RowsHaveUsers'
  PROVE  SerialInv'
<1>1. job'[r] = Idle BY DEF TypeOK, End
<1>2. StillSo(r)' BY <1>1 DEF StillSo, Idle
<1>3. \A q \in Requests : StillSo(q)' BY <1>2
<1> QED BY <1>3 DEF SerialInv

LEMMA SerialStep ==
  ASSUME TypeOK, SerialInv, [Next]_vars, \A q, r \in Requests : q = r
  PROVE  SerialInv' /\ \A d \in Divisions : HeadsOf(d) \subseteq HeadsOf(d)'
<1> DEFINE Goal == SerialInv' /\ \A d \in Divisions : HeadsOf(d) \subseteq HeadsOf(d)'
<1>1. ASSUME UNCHANGED roster
      PROVE  \A d \in Divisions : HeadsOf(d) \subseteq HeadsOf(d)'
  BY <1>1 DEF HeadsOf
<1>2. ASSUME NEW r \in Requests, NEW j, job' = [job EXCEPT ![r] = j],
             UNCHANGED <<roster, users>>,
             j.op \notin {"addMember", "removeMember", "createMember", "import"}
      PROVE  Goal
  <2>1. SerialInv' BY <1>2, SerialJob
  <2> QED BY <1>1, <1>2, <2>1
<1>3. ASSUME NEW r \in Requests, NEW o \in Orgs, StartCreateDivision(r, o)
      PROVE  Goal
  BY <1>2, <1>3 DEF StartCreateDivision, Begin
<1>4. ASSUME NEW r \in Requests, NEW d \in Divisions, CreateDivision(r, d)
      PROVE  Goal
  BY <1>2, <1>4 DEF CreateDivision, End, Idle
<1>5. ASSUME NEW r \in Requests, NEW d \in Divisions, NEW u \in Users,
             NEW role \in Roles, StartAddMember(r, d, u, role)
      PROVE  Goal
  <2> DEFINE j == [op |-> "addMember", div |-> d, user |-> u, role |-> role]
  <2>1. /\ job' = [job EXCEPT ![r] = j] /\ u \in users /\ UNCHANGED <<roster, users>>
    BY <1>5 DEF StartAddMember, Begin
  <2>2. j.op = "addMember" /\ j.user = u OBVIOUS
  <2> HIDE DEF j
  <2>3. SerialInv' BY <2>1, <2>2, SerialJob
  <2> QED BY <1>1, <2>1, <2>3
<1>6. ASSUME NEW r \in Requests, AddMember(r) PROVE Goal
  <2>1. job[r] \in Jobs /\ job[r].op = "addMember" BY <1>6 DEF AddMember, TypeOK
  <2>2. /\ job[r].div \in Divisions /\ job[r].user \in Users /\ job[r].role \in Roles
        /\ job[r].user \in users
    BY <2>1, JobFields DEF SerialInv, StillSo
  <2>3. /\ roster' = IF roster[job[r].div][job[r].user] = "none"
                     THEN [roster EXCEPT ![job[r].div][job[r].user] = job[r].role]
                     ELSE roster
        /\ users' = users /\ End(r)
    BY <1>6 DEF AddMember
  <2>4. \A d \in Divisions, u \in Users :
          /\ roster'[d][u] # "none" => roster[d][u] # "none" \/ u = job[r].user
          /\ roster[d][u] # "none" => roster'[d][u] = roster[d][u]
    BY <2>2, <2>3 DEF TypeOK
  <2>5. RowsHaveUsers' BY <2>2, <2>3, <2>4 DEF SerialInv, RowsHaveUsers
  <2>6. \A d \in Divisions : HeadsOf(d) \subseteq HeadsOf(d)' BY <2>4 DEF HeadsOf
  <2> QED BY <2>3, <2>5, <2>6, SerialEnd
<1>7. ASSUME NEW r \in Requests, NEW d \in Divisions, NEW u \in Users,
             StartRemoveMember(r, d, u)
      PROVE  Goal
  <2> DEFINE j == [op |-> "removeMember", div |-> d, user |-> u]
  <2>1. UNCHANGED <<roster, users>> BY <1>7 DEF StartRemoveMember
  <2>2. CASE roster[d][u] # "HEAD"
    <3>1. job' = [job EXCEPT ![r] = j] BY <1>7, <2>2 DEF StartRemoveMember, Begin
    <3>2. j.op = "removeMember" /\ j.div = d /\ j.user = u OBVIOUS
    <3> HIDE DEF j
    <3>3. SerialInv' BY <2>1, <2>2, <3>1, <3>2, SerialJob
    <3> QED BY <1>1, <2>1, <3>3
  <2>3. CASE roster[d][u] = "HEAD"
    <3>1. job' = [job EXCEPT ![r] = Failed]
      BY <1>7, <2>3 DEF StartRemoveMember, Begin, CountHeads
    <3> QED BY <1>2, <2>1, <3>1 DEF Failed
  <2> QED BY <2>2, <2>3
<1>8. ASSUME NEW r \in Requests, RemoveMember(r) PROVE Goal
  <2>1. job[r] \in Jobs /\ job[r].op = "removeMember" BY <1>8 DEF RemoveMember, TypeOK
  <2>2. /\ job[r].div \in Divisions /\ job[r].user \in Users
        /\ roster[job[r].div][job[r].user] # "HEAD"
    BY <2>1, JobFields DEF SerialInv, StillSo
  <2>3. /\ roster' = [roster EXCEPT ![job[r].div][job[r].user] = "none"]
        /\ users' = users /\ End(r)
    BY <1>8 DEF RemoveMember
  <2>4. \A d \in Divisions, u \in Users :
          /\ roster'[d][u] # "none" => roster[d][u] # "none"
          /\ roster[d][u] = "HEAD" => roster'[d][u] = "HEAD"
    BY <2>2, <2>3 DEF TypeOK
  <2>5. RowsHaveUsers' BY <2>3, <2>4 DEF SerialInv, RowsHaveUsers
  <2>6. \A d \in Divisions : HeadsOf(d) \subseteq HeadsOf(d)' BY <2>4 DEF HeadsOf
  <2> QED BY <2>3, <2>5, <2>6, SerialEnd
<1>9. ASSUME NEW r \in Requests, NEW d \in Divisions, NEW u \in Users,
             NEW role \in Roles, UpdateMemberRole(r, d, u, role)
      PROVE  Goal
  BY <1>2, <1>9 DEF UpdateMemberRole, Begin, Failed
<1>10. ASSUME NEW r \in Requests, NEW o \in Orgs, NEW u \in Users,
              NEW D \in SUBSET Divisions, NEW role \in Roles,
              StartCreateMember(r, o, u, D, role)
       PROVE  Goal
  <2> DEFINE j == [op |-> "createMember", org |-> o, user |-> u, role |-> role,
                   checked |-> {}, todo |-> D]
  <2>1. /\ job' = [job EXCEPT ![r] = j] /\ u \notin users /\ UNCHANGED <<roster, users>>
    BY <1>10 DEF StartCreateMember, Begin, Fresh
  <2>2. j.op = "createMember" /\ j.user = u OBVIOUS
  <2> HIDE DEF j
  <2>3. SerialInv' BY <2>1, <2>2, SerialJob
  <2> QED BY <1>1, <2>1, <2>3
<1>11. ASSUME NEW r \in Requests, NEW d \in Divisions, CheckDivision(r, d)
       PROVE  Goal
  <2>1. /\ job[r] \in Jobs /\ job[r].op = "createMember"
        /\ UNCHANGED <<roster, users>>
    BY <1>11 DEF CheckDivision, TypeOK
  <2>2. job[r].user \notin users BY <2>1 DEF SerialInv, StillSo
  <2>3. Passed(job[r], d).op = "createMember" /\ Passed(job[r], d).user = job[r].user
    BY <2>1, PassedJob
  <2>4. CASE job' = [job EXCEPT ![r] = Passed(job[r], d)]
    <3>1. SerialInv' BY <2>1, <2>2, <2>3, <2>4, SerialJob
    <3> QED BY <1>1, <2>1, <3>1
  <2>5. CASE job' = [job EXCEPT ![r] = Idle] \/ job' = [job EXCEPT ![r] = Failed]
    BY <1>2, <2>1, <2>5 DEF Idle, Failed
  <2>6. \/ job' = [job EXCEPT ![r] = Idle] \/ job' = [job EXCEPT ![r] = Failed]
        \/ job' = [job EXCEPT ![r] = Passed(job[r], d)]
    BY <1>11 DEF CheckDivision
  <2> QED BY <2>4, <2>5, <2>6
<1>12. ASSUME NEW r \in Requests, CreateMember(r) PROVE Goal
  <2> DEFINE u == job[r].user
  <2>1. job[r] \in Jobs /\ job[r].op = "createMember" BY <1>12 DEF CreateMember, TypeOK
  <2>2. u \in Users /\ u \notin users BY <2>1, JobFields DEF SerialInv, StillSo
  <2>3. /\ roster' = [d \in Divisions |->
             IF d \in job[r].checked
             THEN [roster[d] EXCEPT ![u] = job[r].role] ELSE roster[d]]
        /\ users' = users \cup {u} /\ End(r)
    BY <1>12 DEF CreateMember
  <2> HIDE DEF u
  <2>4. \A d \in Divisions, v \in Users : v # u => roster'[d][v] = roster[d][v]
    BY <2>2, <2>3 DEF TypeOK
  <2>5. \A d \in Divisions : roster[d][u] = "none"
    BY <2>2 DEF SerialInv, RowsHaveUsers
  <2>6. RowsHaveUsers' BY <2>3, <2>4 DEF SerialInv, RowsHaveUsers
  <2>7. \A d \in Divisions : HeadsOf(d) \subseteq HeadsOf(d)' BY <2>4, <2>5 DEF HeadsOf
  <2> QED BY <2>3, <2>6, <2>7, SerialEnd
<1>13. ASSUME NEW r \in Requests, NEW o \in Orgs, NEW S \in SUBSET Users,
              NEW batch \in [S -> [div : Divisions, role : Roles]],
              StartImport(r, o, batch)
       PROVE  Goal
  <2> DEFINE j == [op |-> "import", org |-> o, batch |-> batch]
  <2>1. /\ job' = [job EXCEPT ![r] = j] /\ UNCHANGED <<roster, users>>
        /\ DOMAIN batch \cap users = {}
    BY <1>13 DEF StartImport, Begin, Fresh
  <2>2. j.op = "import" /\ j.batch = batch OBVIOUS
  <2> HIDE DEF j
  <2>3. SerialInv' BY <2>1, <2>2, SerialJob
  <2> QED BY <1>1, <2>1, <2>3
<1>14. ASSUME NEW r \in Requests, Import(r) PROVE Goal
  <2> DEFINE batch == job[r].batch
             new == DOMAIN batch
  <2>1. job[r] \in Jobs /\ job[r].op = "import" BY <1>14 DEF Import, TypeOK
  <2>2. new \subseteq Users /\ new \cap users = {}
    BY <2>1, JobFields DEF SerialInv, StillSo
  <2>3. /\ roster' = [d \in Divisions |-> [u \in Users |->
             IF u \in new /\ batch[u].div = d THEN batch[u].role ELSE roster[d][u]]]
        /\ users' = users \cup new /\ End(r)
    BY <1>14 DEF Import
  <2> HIDE DEF batch, new
  <2>4. \A d \in Divisions, u \in Users : u \notin new => roster'[d][u] = roster[d][u]
    BY <2>3
  <2>5. \A d \in Divisions, u \in Users : u \in new => roster[d][u] = "none"
    BY <2>2 DEF SerialInv, RowsHaveUsers
  <2>6. RowsHaveUsers' BY <2>3, <2>4 DEF SerialInv, RowsHaveUsers
  <2>7. \A d \in Divisions : HeadsOf(d) \subseteq HeadsOf(d)' BY <2>4, <2>5 DEF HeadsOf
  <2> QED BY <2>3, <2>6, <2>7, SerialEnd
<1>15. ASSUME NEW r \in Requests, GiveUp(r) PROVE Goal
  BY <1>2, <1>15 DEF GiveUp, End, Idle
<1>16. CASE UNCHANGED <<roster, users, job>>
  <2>1. SerialInv' BY <1>16 DEF SerialInv, RowsHaveUsers, StillSo
  <2> QED BY <1>1, <1>16, <2>1
<1> QED
  BY <1>3, <1>4, <1>5, <1>6, <1>7, <1>8, <1>9, <1>10, <1>11, <1>12, <1>13, <1>14,
     <1>15, <1>16 DEF Next, RosterNext, vars, DeleteDivision, RemoveFromOrganization

\* When handlers run one at a time, none takes the last HEAD of a division.
THEOREM SerialLastHead ==
  ASSUME \A q, r \in Requests : q = r
  PROVE  Spec => LastHeadKept
<1>1. Init => SerialInv
  BY DEF Init, SerialInv, RowsHaveUsers, StillSo, Idle
<1>2. TypeOK /\ SerialInv /\ [Next]_vars => SerialInv'
  BY SerialStep
<1>3. TypeOK /\ SerialInv /\ [Next]_vars
        => [\A d \in Divisions : HeadsOf(d) # {} => HeadsOf(d)' # {}]_vars
  BY SerialStep
<1> QED BY <1>1, <1>2, <1>3, DivisionsTypeCorrect, PTL DEF Spec, LastHeadKept

-----------------------------------------------------------------------------
(* Who may have a row *)

\* The accounts that a job is about to write.
ReservedIn(j) ==
  IF j.op = "createMember" THEN {j.user}
  ELSE IF j.op = "import" THEN DOMAIN j.batch ELSE {}

\* However many handlers run, a row is of an account that exists, a handler
\* that adds a member adds such an account, and the accounts that are being
\* made are new and each in the hands of one handler.
FreshInv ==
  /\ RowsHaveUsers
  /\ \A r \in Requests :
       /\ job[r].op = "addMember" => job[r].user \in users
       /\ ReservedIn(job[r]) \cap users = {}
  /\ \A q, r \in Requests :
       q # r => ReservedIn(job[q]) \cap ReservedIn(job[r]) = {}

\* What a step does to the rosters: rows come, with what is there left alone,
\* or one row goes.
RosterMove ==
  \/ \A d \in Divisions, u \in Users :
       roster[d][u] # "none" => roster'[d][u] = roster[d][u]
  \/ \E d \in Divisions, u \in Users : roster' = [roster EXCEPT ![d][u] = "none"]

LEMMA InitFresh == Init => FreshInv
BY DEF Init, FreshInv, RowsHaveUsers, ReservedIn, Idle

\* A fresh account is in no handler's hands.
LEMMA FreshIsFree ==
  ASSUME TypeOK, NEW u \in Users, Fresh(u), NEW r \in Requests
  PROVE  u \notin users /\ u \notin ReservedIn(job[r])
BY DEF Fresh, Reserved, ReservedIn

\* Actions that only move the job of one handler.
LEMMA FreshJob ==
  ASSUME TypeOK, FreshInv, NEW r \in Requests, NEW j,
         job' = [job EXCEPT ![r] = j], UNCHANGED <<roster, users>>,
         j.op = "addMember" => j.user \in users,
         ReservedIn(j) \cap users = {},
         \A q \in Requests \ {r} : ReservedIn(j) \cap ReservedIn(job[q]) = {}
  PROVE  FreshInv' /\ RosterMove
<1>1. \A q \in Requests : job'[q] = IF q = r THEN j ELSE job[q] BY DEF TypeOK
<1>2. RowsHaveUsers' BY DEF FreshInv, RowsHaveUsers
<1>3. \A q \in Requests :
        /\ job'[q].op = "addMember" => job'[q].user \in users
        /\ ReservedIn(job'[q]) \cap users = {}
  BY <1>1 DEF FreshInv
<1>4. ASSUME NEW p \in Requests, NEW q \in Requests, p # q
      PROVE  ReservedIn(job'[p]) \cap ReservedIn(job'[q]) = {}
  <2>1. CASE p = r BY <1>1, <1>4, <2>1
  <2>2. CASE q = r BY <1>1, <1>4, <2>2
  <2>3. CASE p # r /\ q # r BY <1>1, <1>4, <2>3 DEF FreshInv
  <2> QED BY <2>1, <2>2, <2>3
<1>5. FreshInv' BY <1>2, <1>3, <1>4 DEF FreshInv, ReservedIn
<1> QED BY <1>5 DEF RosterMove

\* Actions that write what their job has in its hands, and end it.
LEMMA FreshWrite ==
  ASSUME TypeOK, FreshInv, NEW r \in Requests, End(r), RowsHaveUsers',
         users' = users \/ users' = users \cup ReservedIn(job[r])
  PROVE  FreshInv'
<1>1. \A q \in Requests : job'[q] = IF q = r THEN Idle ELSE job[q] BY DEF TypeOK, End
<1>2. ReservedIn(Idle) = {} /\ Idle.op # "addMember" BY DEF ReservedIn, Idle
<1>3. \A q \in Requests :
        /\ job'[q].op = "addMember" => job'[q].user \in users'
        /\ ReservedIn(job'[q]) \cap users' = {}
  <2> SUFFICES ASSUME NEW q \in Requests, q # r
               PROVE  /\ job[q].op = "addMember" => job[q].user \in users'
                      /\ ReservedIn(job[q]) \cap users' = {}
    BY <1>1, <1>2
  <2> QED BY DEF FreshInv
<1>4. \A p, q \in Requests :
        p # q => ReservedIn(job'[p]) \cap ReservedIn(job'[q]) = {}
  BY <1>1, <1>2 DEF FreshInv
<1> QED BY <1>3, <1>4 DEF FreshInv, ReservedIn

LEMMA FreshStep ==
  ASSUME TypeOK, FreshInv, [Next]_vars
  PROVE  FreshInv' /\ RosterMove
<1> DEFINE Goal == FreshInv' /\ RosterMove
<1>1. ASSUME NEW r \in Requests, NEW j, job' = [job EXCEPT ![r] = j],
             UNCHANGED <<roster, users>>,
             j.op \notin {"addMember", "createMember", "import"}
      PROVE  Goal
  <2>1. ReservedIn(j) = {} BY <1>1 DEF ReservedIn
  <2> QED BY <1>1, <2>1, FreshJob
<1>2. ASSUME NEW r \in Requests, NEW o \in Orgs, StartCreateDivision(r, o)
      PROVE  Goal
  BY <1>1, <1>2 DEF StartCreateDivision, Begin
<1>3. ASSUME NEW r \in Requests, NEW d \in Divisions, CreateDivision(r, d)
      PROVE  Goal
  BY <1>1, <1>3 DEF CreateDivision, End, Idle
<1>4. ASSUME NEW r \in Requests, NEW d \in Divisions, NEW u \in Users,
             NEW role \in Roles, StartAddMember(r, d, u, role)
      PROVE  Goal
  <2> DEFINE j == [op |-> "addMember", div |-> d, user |-> u, role |-> role]
  <2>1. /\ job' = [job EXCEPT ![r] = j] /\ u \in users /\ UNCHANGED <<roster, users>>
    BY <1>4 DEF StartAddMember, Begin
  <2>2. j.user = u /\ ReservedIn(j) = {} BY DEF ReservedIn
  <2> HIDE DEF j
  <2> QED BY <2>1, <2>2, FreshJob
<1>5. ASSUME NEW r \in Requests, AddMember(r) PROVE Goal
  <2>1. job[r] \in Jobs /\ job[r].op = "addMember" BY <1>5 DEF AddMember, TypeOK
  <2>2. /\ job[r].div \in Divisions /\ job[r].user \in users
        /\ job[r].user \in Users /\ job[r].role \in Roles
    BY <2>1, JobFields DEF FreshInv
  <2>3. /\ roster' = IF roster[job[r].div][job[r].user] = "none"
                     THEN [roster EXCEPT ![job[r].div][job[r].user] = job[r].role]
                     ELSE roster
        /\ users' = users /\ End(r)
    BY <1>5 DEF AddMember
  <2>4. \A d \in Divisions, u \in Users :
          /\ roster'[d][u] # "none" => roster[d][u] # "none" \/ u = job[r].user
          /\ roster[d][u] # "none" => roster'[d][u] = roster[d][u]
    BY <2>2, <2>3 DEF TypeOK
  <2>5. RowsHaveUsers' BY <2>2, <2>3, <2>4 DEF FreshInv, RowsHaveUsers
  <2>6. FreshInv' BY <2>3, <2>5, FreshWrite
  <2> QED BY <2>4, <2>6 DEF RosterMove
<1>6. ASSUME NEW r \in Requests, NEW d \in Divisions, NEW u \in Users,
             StartRemoveMember(r, d, u)
      PROVE  Goal
  <2> DEFINE removing == [op |-> "removeMember", div |-> d, user |-> u]
  <2>1. /\ \E j \in {Idle, Failed, removing} : job' = [job EXCEPT ![r] = j]
        /\ UNCHANGED <<roster, users>>
    BY <1>6 DEF StartRemoveMember, Begin
  <2>2. \A j \in {Idle, Failed, removing} :
          j.op \notin {"addMember", "createMember", "import"}
    BY DEF Idle, Failed
  <2> HIDE DEF removing
  <2> QED BY <1>1, <2>1, <2>2
<1>7. ASSUME NEW r \in Requests, RemoveMember(r) PROVE Goal
  <2>1. job[r] \in Jobs /\ job[r].op = "removeMember" BY <1>7 DEF RemoveMember, TypeOK
  <2>2. job[r].div \in Divisions /\ job[r].user \in Users BY <2>1, JobFields
  <2>3. /\ roster' = [roster EXCEPT ![job[r].div][job[r].user] = "none"]
        /\ users' = users /\ End(r)
    BY <1>7 DEF RemoveMember
  <2>4. \A d \in Divisions, u \in Users : roster'[d][u] # "none" => roster[d][u] # "none"
    BY <2>2, <2>3 DEF TypeOK
  <2>5. RowsHaveUsers' BY <2>3, <2>4 DEF FreshInv, RowsHaveUsers
  <2>6. FreshInv' BY <2>3, <2>5, FreshWrite
  <2> QED BY <2>2, <2>3, <2>6 DEF RosterMove
<1>8. ASSUME NEW r \in Requests, NEW d \in Divisions, NEW u \in Users,
             NEW role \in Roles, UpdateMemberRole(r, d, u, role)
      PROVE  Goal
  BY <1>1, <1>8 DEF UpdateMemberRole, Begin, Failed
<1>9. ASSUME NEW r \in Requests, NEW o \in Orgs, NEW u \in Users,
             NEW D \in SUBSET Divisions, NEW role \in Roles,
             StartCreateMember(r, o, u, D, role)
      PROVE  Goal
  <2> DEFINE j == [op |-> "createMember", org |-> o, user |-> u, role |-> role,
                   checked |-> {}, todo |-> D]
  <2>1. /\ job' = [job EXCEPT ![r] = j] /\ Fresh(u) /\ UNCHANGED <<roster, users>>
    BY <1>9 DEF StartCreateMember, Begin
  <2>2. j.op = "createMember" /\ ReservedIn(j) = {u} BY DEF ReservedIn
  <2> HIDE DEF j
  <2>3. u \notin users /\ \A q \in Requests : u \notin ReservedIn(job[q])
    BY <2>1, FreshIsFree
  <2>4. /\ j.op # "addMember" /\ ReservedIn(j) \cap users = {}
        /\ \A q \in Requests \ {r} : ReservedIn(j) \cap ReservedIn(job[q]) = {}
    BY <2>2, <2>3
  <2> QED BY <2>1, <2>4, FreshJob
<1>10. ASSUME NEW r \in Requests, NEW d \in Divisions, CheckDivision(r, d)
       PROVE  Goal
  <2>1. /\ job[r] \in Jobs /\ job[r].op = "createMember"
        /\ UNCHANGED <<roster, users>>
    BY <1>10 DEF CheckDivision, TypeOK
  <2>2. /\ Passed(job[r], d).op = "createMember"
        /\ ReservedIn(Passed(job[r], d)) = ReservedIn(job[r])
    BY <2>1, PassedJob DEF ReservedIn
  <2>3. CASE job' = [job EXCEPT ![r] = Passed(job[r], d)]
    <3> DEFINE j == Passed(job[r], d)
    <3>1. /\ j.op # "addMember" /\ ReservedIn(j) \cap users = {}
          /\ \A q \in Requests \ {r} : ReservedIn(j) \cap ReservedIn(job[q]) = {}
      BY <2>2 DEF FreshInv
    <3> HIDE DEF j
    <3>2. job' = [job EXCEPT ![r] = j] BY <2>3 DEF j
    <3> QED BY <2>1, <3>1, <3>2, FreshJob
  <2>4. CASE job' = [job EXCEPT ![r] = Idle] \/ job' = [job EXCEPT ![r] = Failed]
    BY <1>1, <2>1, <2>4 DEF Idle, Failed
  <2>5. \/ job' = [job EXCEPT ![r] = Idle] \/ job' = [job EXCEPT ![r] = Failed]
        \/ job' = [job EXCEPT ![r] = Passed(job[r], d)]
    BY <1>10 DEF CheckDivision
  <2> QED BY <2>3, <2>4, <2>5
<1>11. ASSUME NEW r \in Requests, CreateMember(r) PROVE Goal
  <2> DEFINE u == job[r].user
  <2>1. job[r] \in Jobs /\ job[r].op = "createMember" BY <1>11 DEF CreateMember, TypeOK
  <2>2. u \in Users /\ u \notin users /\ ReservedIn(job[r]) = {u}
    BY <2>1, JobFields DEF FreshInv, ReservedIn
  <2>3. /\ roster' = [d \in Divisions |->
             IF d \in job[r].checked
             THEN [roster[d] EXCEPT ![u] = job[r].role] ELSE roster[d]]
        /\ users' = users \cup {u} /\ End(r)
    BY <1>11 DEF CreateMember
  <2> HIDE DEF u
  <2>4. \A d \in Divisions, v \in Users : v # u => roster'[d][v] = roster[d][v]
    BY <2>2, <2>3 DEF TypeOK
  <2>5. \A d \in Divisions : roster[d][u] = "none"
    BY <2>2 DEF FreshInv, RowsHaveUsers
  <2>6. RowsHaveUsers' BY <2>3, <2>4 DEF FreshInv, RowsHaveUsers
  <2>7. FreshInv' BY <2>2, <2>3, <2>6, FreshWrite
  <2> QED BY <2>4, <2>5, <2>7 DEF RosterMove
<1>12. ASSUME NEW r \in Requests, NEW o \in Orgs, NEW S \in SUBSET Users,
              NEW batch \in [S -> [div : Divisions, role : Roles]],
              StartImport(r, o, batch)
       PROVE  Goal
  <2> DEFINE j == [op |-> "import", org |-> o, batch |-> batch]
  <2>1. /\ job' = [job EXCEPT ![r] = j] /\ UNCHANGED <<roster, users>>
        /\ \A u \in DOMAIN batch : Fresh(u)
    BY <1>12 DEF StartImport, Begin
  <2>2. j.op = "import" /\ ReservedIn(j) = DOMAIN batch BY DEF ReservedIn
  <2> HIDE DEF j
  <2>3. DOMAIN batch = S OBVIOUS
  <2>4. \A u \in S : u \notin users /\ \A q \in Requests : u \notin ReservedIn(job[q])
    BY <2>1, <2>3, FreshIsFree
  <2>5. /\ j.op # "addMember" /\ ReservedIn(j) \cap users = {}
        /\ \A q \in Requests \ {r} : ReservedIn(j) \cap ReservedIn(job[q]) = {}
    BY <2>2, <2>3, <2>4
  <2> QED BY <2>1, <2>5, FreshJob
<1>13. ASSUME NEW r \in Requests, Import(r) PROVE Goal
  <2> DEFINE batch == job[r].batch
             new == DOMAIN batch
  <2>1. job[r] \in Jobs /\ job[r].op = "import" BY <1>13 DEF Import, TypeOK
  <2>2. new \subseteq Users /\ new \cap users = {} /\ ReservedIn(job[r]) = new
    BY <2>1, JobFields DEF FreshInv, ReservedIn
  <2>3. /\ roster' = [d \in Divisions |-> [u \in Users |->
             IF u \in new /\ batch[u].div = d THEN batch[u].role ELSE roster[d][u]]]
        /\ users' = users \cup new /\ End(r)
    BY <1>13 DEF Import
  <2> HIDE DEF batch, new
  <2>4. \A d \in Divisions, u \in Users : u \notin new => roster'[d][u] = roster[d][u]
    BY <2>3
  <2>5. \A d \in Divisions, u \in Users : u \in new => roster[d][u] = "none"
    BY <2>2 DEF FreshInv, RowsHaveUsers
  <2>6. RowsHaveUsers' BY <2>3, <2>4 DEF FreshInv, RowsHaveUsers
  <2>7. FreshInv' BY <2>2, <2>3, <2>6, FreshWrite
  <2> QED BY <2>4, <2>5, <2>7 DEF RosterMove
<1>14. ASSUME NEW r \in Requests, GiveUp(r) PROVE Goal
  BY <1>1, <1>14 DEF GiveUp, End, Idle
<1>15. CASE UNCHANGED <<roster, users, job>>
  <2>1. FreshInv' BY <1>15 DEF FreshInv, RowsHaveUsers, ReservedIn
  <2> QED BY <1>15, <2>1 DEF RosterMove
<1> QED
  BY <1>2, <1>3, <1>4, <1>5, <1>6, <1>7, <1>8, <1>9, <1>10, <1>11, <1>12, <1>13,
     <1>14, <1>15
     DEF Next, RosterNext, vars, DeleteDivision, RemoveFromOrganization

\* No handler promotes or demotes a member in place, however many run at once:
\* a row that two of them write keeps the role of the first.
THEOREM RolesAreFixed == Spec => RolesStay
<1>1. TypeOK /\ FreshInv /\ [Next]_vars => FreshInv' BY FreshStep
<1>2. TypeOK /\ FreshInv /\ [Next]_vars =>
        [\A d \in Divisions, u \in Users :
           roster[d][u] # "none" /\ roster'[d][u] # "none"
             => roster'[d][u] = roster[d][u]]_vars
  <2> SUFFICES ASSUME TypeOK, FreshInv, [Next]_vars,
                      NEW d \in Divisions, NEW u \in Users,
                      roster[d][u] # "none", roster'[d][u] # "none"
               PROVE  roster'[d][u] = roster[d][u]
    OBVIOUS
  <2>1. RosterMove BY FreshStep
  <2> QED BY <2>1 DEF RosterMove, TypeOK
<1> QED BY <1>1, <1>2, InitFresh, DivisionsTypeCorrect, PTL DEF Spec, RolesStay

-----------------------------------------------------------------------------
(* The system of both halves *)

\* What DivisionWorkProofs proves, of the work of this system.
Proved == INSTANCE DivisionWorkProofs WITH
  Requests <- WorkRequests, None <- Nobody, roster <- Membership, job <- workJob

\* The two instances are one specification under two names.
LEMMA WorkIsProved ==
  /\ Work!Init => Proved!Init
  /\ [Work!Next]_Work!vars => [Proved!Next]_Proved!vars
<1>1. Work!Init => Proved!Init
  BY DEF Work!Init, Proved!Init, Work!Unwritten, Proved!Unwritten, Work!Idle,
         Proved!Idle
<1>2. [Work!Next]_Work!vars => [Proved!Next]_Proved!vars
  BY DEF Work!Next, Proved!Next, Work!WorkNext, Proved!WorkNext, Work!vars,
         Proved!vars, Work!StartCreateTask, Proved!StartCreateTask,
         Work!CreateTask, Proved!CreateTask, Work!StartUpdateTask,
         Proved!StartUpdateTask, Work!UpdateTask, Proved!UpdateTask,
         Work!StartDelete, Proved!StartDelete, Work!CountWork,
         Proved!CountWork, Work!DeleteDivision, Proved!DeleteDivision,
         Work!GiveUp, Proved!GiveUp, Work!UpdateStatus, Proved!UpdateStatus,
         Work!CreateEvent, Proved!CreateEvent, Work!UpdateEvent,
         Proved!UpdateEvent, Work!CreateTransaction,
         Proved!CreateTransaction, Work!DeleteItem, Proved!DeleteItem,
         Work!TimePasses, Proved!TimePasses, Work!AddMembers,
         Proved!AddMembers, Work!RemoveMember, Proved!RemoveMember,
         Work!MayAssign, Proved!MayAssign, Work!Begin, Proved!Begin,
         Work!End, Proved!End, Work!Put, Proved!Put, Work!TooLate,
         Proved!TooLate, Work!Counted, Proved!Counted, Work!CountOrder,
         Proved!CountOrder, Work!Written, Proved!Written, Work!Stored,
         Proved!Stored, Work!Open, Proved!Open, Work!OpenStates,
         Proved!OpenStates, Work!Row, Proved!Row, Work!Unwritten,
         Proved!Unwritten, Work!Idle, Proved!Idle, Work!TaskStatuses,
         Proved!TaskStatuses, Work!Counts, Proved!Counts
<1> QED BY <1>1, <1>2

LEMMA ProvedIsWork ==
  ASSUME Proved!WInv
  PROVE  /\ Work!TypeOK
         /\ Work!OrphansArriveLate
         /\ Work!AssigneeHasBeenMember
<1>1. Work!TypeOK
  BY DEF Proved!WInv, Work!TypeOK, Proved!TypeOK, Work!Rows, Proved!Rows, Work!Kinds, Proved!Kinds,
         Work!States, Proved!States, Work!OpenStates, Proved!OpenStates,
         Work!Jobs, Proved!Jobs, Work!Idle, Proved!Idle, Work!TaskStatuses,
         Proved!TaskStatuses, Work!Unwritten, Proved!Unwritten
<1>2. Work!OrphansArriveLate
  BY DEF Proved!WInv, Work!OrphansArriveLate, Proved!OrphansArriveLate, Work!Open, Proved!Open,
         Work!Written, Proved!Written, Work!OpenStates, Proved!OpenStates,
         Work!Unwritten, Proved!Unwritten
<1>3. Work!AssigneeHasBeenMember
  BY DEF Proved!WInv, Proved!AssigneesChecked, Proved!HasBeenMember,
         Work!Written, Proved!Written, Work!Unwritten, Proved!Unwritten, Work!AssigneeHasBeenMember
<1> QED BY <1>1, <1>2, <1>3

\* What the handlers of Divisions leave alone, and what only grows.
LEMMA RosterKeeps ==
  ASSUME TypeOK, RosterNext
  PROVE  /\ deleted' = deleted
         /\ users \subseteq users'
         /\ \A d \in Divisions : division[d] # None => division'[d] = division[d]
<1>1. ASSUME NEW r \in Requests, NEW d \in Divisions, CreateDivision(r, d)
      PROVE  \A e \in Divisions : division[e] # None => division'[e] = division[e]
  BY <1>1 DEF CreateDivision, TypeOK
<1>2. ASSUME UNCHANGED division
      PROVE  \A e \in Divisions : division[e] # None => division'[e] = division[e]
  BY <1>2
<1>3. deleted' = deleted /\ users \subseteq users'
  BY DEF RosterNext, StartCreateDivision, CreateDivision, StartAddMember, AddMember,
         StartRemoveMember, RemoveMember, UpdateMemberRole, StartCreateMember,
         CheckDivision, CreateMember, StartImport, Import, GiveUp,
         RemoveFromOrganization
<1> QED
  BY <1>1, <1>2, <1>3
     DEF RosterNext, StartCreateDivision, StartAddMember, AddMember,
         StartRemoveMember, RemoveMember, UpdateMemberRole, StartCreateMember,
         CheckDivision, CreateMember, StartImport, Import, GiveUp,
         RemoveFromOrganization

\* The work leaves the tables of Divisions alone, a deletion aside.
LEMMA WorkKeeps ==
  ASSUME Work!WorkNext, deleted' # deleted
  PROVE  \E r \in WorkRequests : Work!DeleteDivision(r)
BY DEF Work!WorkNext, Work!StartCreateTask, Work!CreateTask, Work!StartUpdateTask,
       Work!UpdateTask, Work!StartDelete, Work!CountWork, Work!GiveUp,
       Work!UpdateStatus, Work!CreateEvent, Work!UpdateEvent, Work!CreateTransaction,
       Work!DeleteItem, Work!TimePasses

-----------------------------------------------------------------------------
(* Each half as the other one sees it *)

\* What a handler does to the rosters is a step of the work's environment.
LEMMA RosterServes ==
  ASSUME TypeOK, FreshInv, RosterStep
  PROVE  [Work!Next]_Work!vars
<1> DEFINE new == [d \in Divisions |->
                     {u \in Users : roster[d][u] = "none" /\ roster'[d][u] # "none"}]
<1>1. RosterMove BY FreshStep DEF RosterStep, Next
<1>2. /\ deleted' = deleted /\ UNCHANGED <<item, workJob, late>>
      /\ removed' = removed \cup Leavers
  BY RosterKeeps DEF RosterStep
<1>3. CASE \A d \in Divisions, u \in Users :
             roster[d][u] # "none" => roster'[d][u] = roster[d][u]
  <2>1. Leavers = {} BY <1>3 DEF Leavers
  <2>2. Membership' = [d \in Divisions |-> Membership[d] \cup new[d]]
    BY <1>3 DEF Membership, MembersOf
  <2>3. \A d \in Divisions : new[d] \cap Membership[d] = {}
    BY DEF Membership, MembersOf
  <2>4. new \in [Divisions -> SUBSET Users] OBVIOUS
  <2>5. removed' = removed BY <1>2, <2>1
  <2> HIDE DEF new
  <2>6. CASE \E d \in Divisions : new[d] # {}
    <3>1. Work!AddMembers(new)
      BY <1>2, <2>2, <2>3, <2>5, <2>6 DEF Work!AddMembers
    <3> QED BY <2>4, <3>1 DEF Work!Next
  <2>7. CASE \A d \in Divisions : new[d] = {}
    <3>1. Membership' = Membership BY <2>2, <2>7 DEF Membership
    <3> QED BY <1>2, <2>5, <3>1 DEF Work!vars
  <2> QED BY <2>6, <2>7
<1>4. ASSUME NEW d \in Divisions, NEW u \in Users,
             roster' = [roster EXCEPT ![d][u] = "none"]
      PROVE  [Work!Next]_Work!vars
  <2>1. \A e \in Divisions, v \in Users :
          roster'[e][v] = IF e = d /\ v = u THEN "none" ELSE roster[e][v]
    BY <1>4 DEF TypeOK
  <2>2. CASE roster[d][u] # "none"
    <3>1. Leavers = {<<d, u>>} BY <2>1, <2>2 DEF Leavers
    <3>2. u \in Membership[d] BY <2>2 DEF Membership, MembersOf
    <3>3. Membership' = [Membership EXCEPT ![d] = @ \ {u}]
      <4> SUFFICES ASSUME NEW e \in Divisions
                   PROVE  MembersOf(e)' =
                            IF e = d THEN MembersOf(e) \ {u} ELSE MembersOf(e)
        BY DEF Membership
      <4> QED BY <2>1 DEF MembersOf
    <3>4. Work!RemoveMember(d, u)
      BY <1>2, <3>1, <3>2, <3>3 DEF Work!RemoveMember
    <3> QED BY <3>4 DEF Work!Next
  <2>3. CASE roster[d][u] = "none"
    <3>1. Leavers = {} BY <2>1, <2>3 DEF Leavers
    <3>2. \A e \in Divisions : MembersOf(e)' = MembersOf(e)
      BY <2>1, <2>3 DEF MembersOf
    <3>3. Membership' = Membership BY <3>2 DEF Membership
    <3> QED BY <1>2, <3>1, <3>3 DEF Work!vars
  <2> QED BY <2>2, <2>3
<1> QED BY <1>1, <1>3, <1>4 DEF RosterMove

\* A deletion on its way is of a division that was created.
DeletionsExist ==
  \A r \in WorkRequests :
    workJob[r].op = "delete" => division[workJob[r].div] # None

LEMMA StepDeletionsExist ==
  ASSUME TypeOK, Work!TypeOK, DeletionsExist, [SystemNext]_system
  PROVE  DeletionsExist'
<1> SUFFICES ASSUME NEW r \in WorkRequests, workJob'[r].op = "delete"
             PROVE  division'[workJob'[r].div] # None
  BY DEF DeletionsExist
<1>1. CASE RosterStep
  <2>1. workJob' = workJob /\ RosterNext BY <1>1 DEF RosterStep
  <2>2. workJob[r].div \in Divisions
    BY <2>1 DEF Work!TypeOK, Work!Jobs, Work!Idle
  <2> QED BY <2>1, <2>2, RosterKeeps, NoneAssumption DEF DeletionsExist, TypeOK
<1>2. CASE WorkStep
  BY <1>2 DEF WorkStep, OfDivisions, DeletionsExist
<1>3. CASE UNCHANGED system
  BY <1>3 DEF system, vars, DeletionsExist
<1> QED BY <1>1, <1>2, <1>3 DEF SystemNext

\* Whatever the work does, Divisions sees one of its own deletions, or nothing.
LEMMA WorkServes ==
  ASSUME Work!TypeOK, DeletionsExist, WorkStep
  PROVE  [Next]_vars
<1>1. UNCHANGED <<division, roster, members, users, job, imported>>
  BY DEF WorkStep
<1>2. CASE deleted' = deleted BY <1>1, <1>2 DEF vars
<1>3. CASE deleted' # deleted
  <2>1. PICK r \in WorkRequests : Work!DeleteDivision(r)
    BY <1>3, WorkKeeps DEF WorkStep
  <2> DEFINE d == workJob[r].div
  <2>2. workJob[r].op = "delete" /\ deleted' = deleted \cup {d}
    BY <2>1 DEF Work!DeleteDivision
  <2>3. d \in Divisions BY <2>2 DEF Work!TypeOK, Work!Jobs, Work!Idle
  <2>4. Active(d) BY <1>3, <2>2, <2>3 DEF Active, DeletionsExist
  <2> HIDE DEF d
  <2>5. DeleteDivision(d) BY <1>1, <2>2, <2>4 DEF DeleteDivision
  <2> QED BY <2>3, <2>5 DEF Next
<1> QED BY <1>2, <1>3


-----------------------------------------------------------------------------
(* Assignees *)

\* Whoever a handler is about to assign a task to has an account.
JobsHaveUsers ==
  \A r \in WorkRequests :
    workJob[r].op \in {"createTask", "updateTask"}
      => workJob[r].user \in users \cup {Nobody}

\* A row that a step writes is assigned as before, to nobody, or to the user of
\* a handler.
LEMMA WorkAssigns ==
  ASSUME Work!TypeOK, Work!WorkNext, NEW i \in Items, Work!Written(i)', item'[i] # item[i]
  PROVE  \/ item'[i].assignee = Nobody
         \/ Work!Written(i) /\ item'[i].assignee = item[i].assignee
         \/ \E r \in WorkRequests :
              /\ workJob[r].op \in {"createTask", "updateTask"}
              /\ item'[i].assignee = workJob[r].user
<1>1. ASSUME NEW e \in Items, NEW row, Work!Put(e, row)
      PROVE  e = i /\ item'[i] = row
  BY <1>1 DEF Work!Put, Work!TypeOK
<1>2. ASSUME NEW r \in WorkRequests, NEW e \in Items, Work!CreateTask(r, e)
      PROVE  workJob[r].op = "createTask" /\ item'[i].assignee = workJob[r].user
  <2>1. item'[i] = Work!Row("task", workJob[r].div, "TODO", workJob[r].user,
                            workJob[r].own)
    BY <1>1, <1>2 DEF Work!CreateTask
  <2> QED BY <1>2, <2>1 DEF Work!CreateTask, Work!Row
<1>3. ASSUME NEW r \in WorkRequests, Work!UpdateTask(r)
      PROVE  workJob[r].op = "updateTask" /\ item'[i].assignee = workJob[r].user
  <2> DEFINE e == workJob[r].id
             row == [item[e] EXCEPT !.state = workJob[r].status,
                                    !.assignee = workJob[r].user]
  <2>1. workJob[r].op = "updateTask" /\ e \in Items
    BY <1>3 DEF Work!UpdateTask, Work!TypeOK, Work!Jobs, Work!Idle
  <2>2. Work!Stored(e) /\ Work!Put(e, row) BY <1>3 DEF Work!UpdateTask
  <2>3. item[e] \in Work!Rows
    BY <2>1, <2>2 DEF Work!Stored, Work!Written, Work!TypeOK
  <2>4. row.assignee = workJob[r].user BY <2>3 DEF Work!Rows
  <2> HIDE DEF row, e
  <2>5. item'[i] = row BY <1>1, <2>1, <2>2
  <2> QED BY <2>1, <2>4, <2>5
<1>4. ASSUME NEW e \in Items, NEW s, Work!Stored(e),
             Work!Put(e, [item[e] EXCEPT !.state = s])
      PROVE  Work!Written(i) /\ item'[i].assignee = item[i].assignee
  <2>1. item[e] \in Work!Rows BY <1>4 DEF Work!Stored, Work!Written, Work!TypeOK
  <2>2. [item[e] EXCEPT !.state = s].assignee = item[e].assignee
    BY <2>1 DEF Work!Rows
  <2>3. e = i /\ item'[i] = [item[e] EXCEPT !.state = s] BY <1>1, <1>4
  <2> QED BY <1>4, <2>2, <2>3 DEF Work!Stored
<1>5. ASSUME NEW e \in Items,
             \/ \E s \in Work!TaskStatuses : Work!UpdateStatus(e, s)
             \/ \E s \in {"upcoming", "past"} : Work!UpdateEvent(e, s)
             \/ Work!DeleteItem(e)
             \/ Work!TimePasses(e)
      PROVE  Work!Written(i) /\ item'[i].assignee = item[i].assignee
  <2>1. CASE Work!TimePasses(e)
    <3>1. item[e] \in Work!Rows
      BY <2>1 DEF Work!TimePasses, Work!Stored, Work!Written, Work!TypeOK
    <3> DEFINE s == IF item[e].state = "upcoming" THEN "past" ELSE "old"
    <3>2. Work!Put(e, [item[e] EXCEPT !.state = s])
      BY <2>1, <3>1 DEF Work!TimePasses, Work!Rows
    <3> HIDE DEF s
    <3> QED BY <1>4, <2>1, <3>2 DEF Work!TimePasses
  <2> QED
    BY <1>4, <1>5, <2>1 DEF Work!UpdateStatus, Work!UpdateEvent, Work!DeleteItem
<1>6. ASSUME NEW e \in Items, NEW d \in Divisions, NEW own \in BOOLEAN,
             \/ \E s \in {"upcoming", "past"} : Work!CreateEvent(e, d, s, own)
             \/ Work!CreateTransaction(e, d, own)
      PROVE  item'[i].assignee = Nobody
  <2>1. PICK kind, s : Work!Put(e, Work!Row(kind, d, s, Nobody, own))
    BY <1>6 DEF Work!CreateEvent, Work!CreateTransaction
  <2>2. item'[i] = Work!Row(kind, d, s, Nobody, own) BY <1>1, <2>1
  <2> QED BY <2>2 DEF Work!Row
<1>7. item' # item OBVIOUS
<1> QED
  BY <1>2, <1>3, <1>5, <1>6, <1>7
     DEF Work!WorkNext, Work!StartCreateTask, Work!StartUpdateTask, Work!StartDelete,
         Work!CountWork, Work!DeleteDivision, Work!GiveUp

\* A handler that starts with an assignee has found the row of an account.
LEMMA WorkStarts ==
  ASSUME Work!TypeOK, RowsHaveUsers, Work!WorkNext, NEW r \in WorkRequests,
         workJob'[r] # workJob[r], workJob'[r].op \in {"createTask", "updateTask"}
  PROVE  workJob'[r].user \in users \cup {Nobody}
<1>1. \A d \in Divisions, u \in Users \cup {Nobody} :
        \A own : Work!MayAssign(d, u, own) => u \in users \cup {Nobody}
  BY DEF Work!MayAssign, Membership, MembersOf, RowsHaveUsers
<1>2. ASSUME NEW q \in WorkRequests, NEW j, Work!Begin(q, j)
      PROVE  q = r /\ workJob'[r] = j
  BY <1>2 DEF Work!Begin, Work!TypeOK
<1>3. ASSUME NEW q \in WorkRequests, NEW d \in Divisions, NEW u \in Users \cup {Nobody},
             NEW own \in BOOLEAN, Work!StartCreateTask(q, d, u, own)
      PROVE  workJob'[r].user = u /\ u \in users \cup {Nobody}
  <2>1. workJob'[r] = [op |-> "createTask", div |-> d, user |-> u, own |-> own]
    BY <1>2, <1>3 DEF Work!StartCreateTask
  <2> QED BY <1>1, <1>3, <2>1 DEF Work!StartCreateTask
<1>4. ASSUME NEW q \in WorkRequests, NEW i \in Items, NEW s \in Work!TaskStatuses,
             NEW u \in Users \cup {Nobody}, Work!StartUpdateTask(q, i, s, u)
      PROVE  workJob'[r].user = u /\ u \in users \cup {Nobody}
  <2>1. workJob'[r] = [op |-> "updateTask", id |-> i, status |-> s, user |-> u]
    BY <1>2, <1>4 DEF Work!StartUpdateTask
  <2>2. item[i].div \in Divisions
    BY <1>4 DEF Work!StartUpdateTask, Work!Stored, Work!Written, Work!TypeOK, Work!Rows
  <2> QED BY <1>1, <1>4, <2>1, <2>2 DEF Work!StartUpdateTask
<1>5. ASSUME NEW q \in WorkRequests, NEW d \in Divisions, Work!StartDelete(q, d)
      PROVE  FALSE
  <2>1. workJob'[r] = [op |-> "delete", div |-> d, counted |-> 0]
    BY <1>2, <1>5 DEF Work!StartDelete
  <2> QED BY <2>1
<1>6. ASSUME NEW q \in WorkRequests, Work!End(q) PROVE FALSE
  BY <1>6 DEF Work!End, Work!Idle, Work!TypeOK
<1>7. ASSUME NEW q \in WorkRequests, Work!CountWork(q) PROVE FALSE
  <2>1. workJob[q] \in [op : {"delete"}, div : Divisions, counted : 0 .. 3]
    BY <1>7 DEF Work!CountWork, Work!TypeOK, Work!Jobs, Work!Idle
  <2> DEFINE more == [workJob[q] EXCEPT !.counted = @ + 1]
  <2>2. more.op = "delete" /\ Work!Idle.op = "idle" BY <2>1 DEF Work!Idle
  <2>3. \E j \in {Work!Idle, more} : workJob' = [workJob EXCEPT ![q] = j]
    BY <1>7 DEF Work!CountWork
  <2> HIDE DEF more
  <2>4. \A p \in WorkRequests :
          workJob'[p] = workJob[p] \/ workJob'[p] \in {Work!Idle, more}
    BY <2>3 DEF Work!TypeOK
  <2> QED BY <2>2, <2>4
<1> QED
  BY <1>3, <1>4, <1>5, <1>6, <1>7
     DEF Work!WorkNext, Work!CreateTask, Work!UpdateTask, Work!DeleteDivision,
         Work!GiveUp, Work!UpdateStatus, Work!CreateEvent, Work!UpdateEvent,
         Work!CreateTransaction, Work!DeleteItem, Work!TimePasses

LEMMA StepAssignees ==
  ASSUME TypeOK, Work!TypeOK, RowsHaveUsers, AssigneesExist, JobsHaveUsers,
         [SystemNext]_system
  PROVE  AssigneesExist' /\ JobsHaveUsers'
<1>1. CASE RosterStep
  <2>1. UNCHANGED <<item, workJob>> /\ users \subseteq users'
    BY <1>1, RosterKeeps DEF RosterStep
  <2>2. AssigneesExist' BY <2>1 DEF AssigneesExist, Work!Written
  <2>3. JobsHaveUsers' BY <2>1 DEF JobsHaveUsers
  <2> QED BY <2>2, <2>3
<1>2. CASE WorkStep
  <2>1. users' = users /\ Work!WorkNext BY <1>2 DEF WorkStep
  <2>2. ASSUME NEW i \in Items, Work!Written(i)', item'[i].assignee # Nobody
        PROVE  item'[i].assignee \in users
    <3>1. CASE item'[i] = item[i]
      BY <2>2, <3>1 DEF AssigneesExist, Work!Written
    <3>2. CASE item'[i] # item[i]
      BY <2>1, <2>2, <3>2, WorkAssigns DEF AssigneesExist, JobsHaveUsers
    <3> QED BY <3>1, <3>2
  <2>3. AssigneesExist' BY <2>1, <2>2 DEF AssigneesExist, Work!Written
  <2>4. ASSUME NEW r \in WorkRequests, workJob'[r].op \in {"createTask", "updateTask"}
        PROVE  workJob'[r].user \in users \cup {Nobody}
    <3>1. CASE workJob'[r] = workJob[r] BY <2>4, <3>1 DEF JobsHaveUsers
    <3>2. CASE workJob'[r] # workJob[r] BY <2>1, <2>4, <3>2, WorkStarts
    <3> QED BY <3>1, <3>2
  <2>5. JobsHaveUsers' BY <2>1, <2>4 DEF JobsHaveUsers
  <2> QED BY <2>3, <2>5
<1>3. CASE UNCHANGED system
  BY <1>3 DEF system, vars, AssigneesExist, JobsHaveUsers, Work!Written
<1> QED BY <1>1, <1>2, <1>3 DEF SystemNext

-----------------------------------------------------------------------------
(* The results *)

SystemInv ==
  TypeOK /\ FreshInv /\ DeletionsExist /\ Proved!WInv /\ AssigneesExist /\ JobsHaveUsers

LEMMA SystemInitial ==
  ASSUME Nobody \notin Users, SystemInit
  PROVE  Init /\ Work!Init /\ SystemInv
<1>1. Membership = [d \in Divisions |-> {}]
  BY DEF SystemInit, Init, Membership, MembersOf
<1>2. Init /\ Work!Init BY <1>1 DEF SystemInit, Init, Work!Init
<1>3. Proved!WInv BY <1>2, WorkIsProved, Proved!InitWInv
<1>4. DeletionsExist /\ AssigneesExist /\ JobsHaveUsers
  BY DEF SystemInit, DeletionsExist, AssigneesExist, JobsHaveUsers, Work!Idle,
         Work!Written
<1> QED BY <1>2, <1>3, <1>4, InitTypeOK, InitFresh DEF SystemInv

LEMMA SystemStep ==
  ASSUME Nobody \notin Users, SystemInv, [SystemNext]_system
  PROVE  [Next]_vars /\ [Work!Next]_Work!vars /\ SystemInv'
<1>1. TypeOK /\ FreshInv /\ DeletionsExist /\ Work!TypeOK
  BY ProvedIsWork DEF SystemInv
<1>2. [Next]_vars /\ [Work!Next]_Work!vars
  <2>1. CASE RosterStep BY <1>1, <2>1, RosterServes DEF RosterStep, Next
  <2>2. CASE WorkStep BY <1>1, <2>2, WorkServes DEF WorkStep, Work!Next
  <2>3. CASE UNCHANGED system
    BY <2>3 DEF system, vars, Work!vars, Membership, MembersOf
  <2> QED BY <2>1, <2>2, <2>3 DEF SystemNext
<1>3. TypeOK' /\ FreshInv' BY <1>1, <1>2, NextTypeOK, FreshStep
<1>4. Proved!WInv' BY <1>2, WorkIsProved, Proved!StepWInv DEF SystemInv
<1>5. DeletionsExist' BY <1>1, StepDeletionsExist
<1>6. AssigneesExist' /\ JobsHaveUsers'
  BY <1>1, StepAssignees DEF SystemInv, FreshInv
<1> QED BY <1>2, <1>3, <1>4, <1>5, <1>6 DEF SystemInv

\* The reachable states of the system satisfy SystemInv.
THEOREM SystemInvariant ==
  ASSUME Nobody \notin Users
  PROVE  SystemSpec => []SystemInv
<1>1. SystemInit => SystemInv BY SystemInitial
<1>2. SystemInv /\ [SystemNext]_system => SystemInv' BY SystemStep
<1> QED BY <1>1, <1>2, PTL DEF SystemSpec

\* The rosters that the handlers of Divisions write, several rows at a time and
\* of divisions deleted or not, are rosters as DivisionWork lets them be.
THEOREM RostersServeWork ==
  ASSUME Nobody \notin Users
  PROVE  SystemSpec => WorkIsServed
<1>1. SystemInit => Work!Init BY SystemInitial
<1>2. SystemInv /\ [SystemNext]_system => [Work!Next]_Work!vars BY SystemStep
<1> QED BY <1>1, <1>2, SystemInvariant, PTL DEF SystemSpec, WorkIsServed, Work!Spec

\* A deletion of DivisionWork, four statements among other handlers, is one
\* that Divisions allows, and no other step of the work touches its tables.
THEOREM WorkServesRosters ==
  ASSUME Nobody \notin Users
  PROVE  SystemSpec => RostersAreServed
<1>1. SystemInit => Init BY SystemInitial
<1>2. SystemInv /\ [SystemNext]_system => [Next]_vars BY SystemStep
<1> QED BY <1>1, <1>2, SystemInvariant, PTL DEF SystemSpec, RostersAreServed, Spec

\* What was proved of the work under any rosters holds under those that the
\* handlers write: open work in a deleted division came late, and an assignee
\* is on the roster, or was, and has an account.
THEOREM SystemIsSound ==
  ASSUME Nobody \notin Users
  PROVE  SystemSpec => [](/\ Work!OrphansArriveLate
                          /\ Work!AssigneeHasBeenMember
                          /\ AssigneesExist)
<1>1. SystemInv => /\ Work!OrphansArriveLate
                   /\ Work!AssigneeHasBeenMember
                   /\ AssigneesExist
  BY ProvedIsWork DEF SystemInv
<1> QED BY <1>1, SystemInvariant, PTL
=============================================================================
