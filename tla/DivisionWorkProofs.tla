--------------------------- MODULE DivisionWorkProofs ---------------------------
(***************************************************************************)
(* Safety of DivisionWork for any divisions, users, rows and handlers.     *)
(* WInv is the inductive invariant: it adds to the properties what a       *)
(* handler between two of its statements may rely on.                      *)
(***************************************************************************)
EXTENDS DivisionWork, TLAPS

\* Open work of the division's organization and of a kind that a deletion has
\* counted was opened since.
CountedOrLate ==
  \A r \in Requests, d \in Divisions, k \in Kinds, i \in Items :
    Counted(r, d, k) /\ Counts(i, d, k) => i \in late

\* u is on the roster of d, or its row there has been deleted.
HasBeenMember(d, u) == u = None \/ u \in roster[d] \/ <<d, u>> \in removed

\* The assignee a handler is about to store has passed the check, and the row
\* that it is about to update exists.
JobsChecked ==
  \A r \in Requests :
    /\ job[r].op = "createTask" => HasBeenMember(job[r].div, job[r].user)
    /\ job[r].op = "updateTask"
         => Written(job[r].id) /\ HasBeenMember(item[job[r].id].div, job[r].user)

AssigneesChecked ==
  \A i \in Items : Written(i) => HasBeenMember(item[i].div, item[i].assignee)

WInv ==
  /\ TypeOK
  /\ OrphansArriveLate
  /\ CountedOrLate
  /\ JobsChecked
  /\ AssigneesChecked

-----------------------------------------------------------------------------
(* Rows and jobs *)

LEMMA WrittenIsRow ==
  ASSUME TypeOK, NEW i \in Items
  PROVE  Written(i) <=> item[i] \in Rows
BY DEF TypeOK, Written, Unwritten, Rows, Kinds

LEMMA OpenIsStored ==
  ASSUME NEW i \in Items, Open(i)
  PROVE  Stored(i)
BY DEF Open, Stored, OpenStates

LEMMA InitWInv == Init => WInv
BY DEF Init, WInv, TypeOK, OrphansArriveLate, CountedOrLate, JobsChecked,
       AssigneesChecked, Open, Counts, Written, Counted, Idle, Jobs

\* A handler that gives up or has finished counts nothing and stores nothing.
LEMMA EndKeepsCounts ==
  ASSUME NEW r \in Requests, End(r), TypeOK
  PROVE  /\ job' \in [Requests -> Jobs]
         /\ \A q \in Requests : job'[q] = IF q = r THEN Idle ELSE job[q]
         /\ \A q \in Requests, d \in Divisions, k \in Kinds :
              Counted(q, d, k)' => Counted(q, d, k)
BY DEF End, TypeOK, Jobs, Idle, Counted

\* A handler that begins has counted nothing yet.
LEMMA BeginKeepsCounts ==
  ASSUME NEW r \in Requests, NEW j \in Jobs, Begin(r, j), TypeOK,
         j.op = "delete" => j.counted = 0
  PROVE  /\ job' \in [Requests -> Jobs]
         /\ \A q \in Requests : job'[q] = IF q = r THEN j ELSE job[q]
         /\ \A q \in Requests, d \in Divisions, k \in Kinds :
              Counted(q, d, k)' => Counted(q, d, k)
<1>1. job' \in [Requests -> Jobs] /\ job' = [job EXCEPT ![r] = j]
  BY DEF Begin, TypeOK
<1>2. \A q \in Requests : job'[q] = IF q = r THEN j ELSE job[q]
  BY <1>1 DEF TypeOK
<1> QED BY <1>1, <1>2 DEF Counted

-----------------------------------------------------------------------------
(* Writing a row *)

\* The writes of rows: row i is new or keeps its division, its assignee has
\* passed the check, and nobody counts more than before.
LEMMA PutStep ==
  ASSUME WInv, NEW i \in Items, NEW row \in Rows, Put(i, row),
         Written(i) => row.div = item[i].div,
         HasBeenMember(row.div, row.assignee),
         UNCHANGED <<deleted, roster, removed>>,
         job' \in [Requests -> Jobs],
         \A q \in Requests : job'[q] = job[q] \/ job'[q] = Idle
  PROVE  WInv'
<1>1. item' \in [Items -> Rows \cup {Unwritten}] /\ late' \subseteq Items
  BY DEF WInv, TypeOK, Put
<1>2. \A e \in Items : item'[e] = IF e = i THEN row ELSE item[e]
  BY DEF WInv, TypeOK, Put
<1>3. \A e \in Items \ {i} : e \in late' <=> e \in late
  BY DEF Put
<1>4. i \in late' <=> TooLate(row)
  BY DEF Put
<1>5. \A q \in Requests, d \in Divisions, k \in Kinds :
        Counted(q, d, k)' => Counted(q, d, k)
  BY DEF Counted, Idle
<1>6. TypeOK'
  BY <1>1 DEF WInv, TypeOK
<1>7. Written(i)'
  BY <1>2 DEF Written, Unwritten, Rows, Kinds
<1>8. OrphansArriveLate'
  <2> SUFFICES ASSUME NEW e \in Items, Open(e)', item'[e].own, item'[e].div \in deleted
               PROVE  e \in late'
    BY DEF OrphansArriveLate
  <2>1. CASE e = i
    BY <2>1, <1>2, <1>4 DEF Open, TooLate
  <2>2. CASE e # i
    BY <2>2, <1>2, <1>3 DEF WInv, OrphansArriveLate, Open, Written
  <2> QED BY <2>1, <2>2
<1>9. CountedOrLate'
  <2> SUFFICES ASSUME NEW q \in Requests, NEW d \in Divisions, NEW k \in Kinds,
                      NEW e \in Items, Counted(q, d, k), Counts(e, d, k)'
               PROVE  e \in late'
    BY <1>5 DEF CountedOrLate
  <2>1. CASE e = i
    BY <2>1, <1>2, <1>4 DEF Counts, Open, TooLate
  <2>2. CASE e # i
    BY <2>2, <1>2, <1>3 DEF WInv, CountedOrLate, Counts, Open, Written
  <2> QED BY <2>1, <2>2
<1>10. \A d, u : HasBeenMember(d, u) => HasBeenMember(d, u)'
  BY DEF HasBeenMember
<1>11. JobsChecked'
  <2> SUFFICES ASSUME NEW q \in Requests
               PROVE  (/\ job[q].op = "createTask" => HasBeenMember(job[q].div, job[q].user)
                       /\ job[q].op = "updateTask"
                            => /\ Written(job[q].id)
                               /\ HasBeenMember(item[job[q].id].div, job[q].user))'
    BY DEF JobsChecked
  <2>1. CASE job'[q] = Idle
    BY <2>1 DEF Idle
  <2>2. CASE job'[q] = job[q] /\ job[q].op = "updateTask"
    <3> DEFINE e == job[q].id
    <3>1. e \in Items /\ Written(e) /\ HasBeenMember(item[e].div, job[q].user)
      BY <2>2 DEF WInv, TypeOK, JobsChecked, Jobs, Idle
    <3>2. Written(e)' /\ item'[e].div = item[e].div
      BY <3>1, <2>2, <1>2, <1>7 DEF Written
    <3> QED BY <2>2, <3>1, <3>2 DEF HasBeenMember, Written
  <2>3. CASE job'[q] = job[q] /\ job[q].op # "updateTask"
    BY <2>3 DEF WInv, JobsChecked, HasBeenMember
  <2> QED BY <2>1, <2>2, <2>3
<1>12. AssigneesChecked'
  BY <1>2, <1>10 DEF WInv, AssigneesChecked, Written, HasBeenMember
<1> QED BY <1>6, <1>8, <1>9, <1>11, <1>12 DEF WInv

\* Every write of an existing row leaves its kind and its division alone.
LEMMA EditStep ==
  ASSUME WInv, NEW i \in Items, Stored(i), NEW s \in States,
         Put(i, [item[i] EXCEPT !.state = s]),
         UNCHANGED <<deleted, roster, job, removed>>
  PROVE  WInv'
<1>1. Written(i) /\ item[i] \in Rows
  BY WrittenIsRow DEF Stored, WInv
<1> DEFINE row == [item[i] EXCEPT !.state = s]
<1>2. row \in Rows /\ row.div = item[i].div /\ row.assignee = item[i].assignee
  BY <1>1 DEF Rows
<1>3. HasBeenMember(row.div, row.assignee)
  BY <1>1, <1>2 DEF WInv, AssigneesChecked
<1>4. job' \in [Requests -> Jobs]
  BY DEF WInv, TypeOK
<1> QED BY <1>2, <1>3, <1>4, PutStep

-----------------------------------------------------------------------------
(* One lemma per action, or for the actions of one kind *)

LEMMA StartsKeepWInv ==
  ASSUME WInv, NEW r \in Requests,
         \/ \E d \in Divisions, u \in Users \cup {None}, own \in BOOLEAN :
              StartCreateTask(r, d, u, own)
         \/ \E i \in Items, s \in TaskStatuses, u \in Users \cup {None} :
              StartUpdateTask(r, i, s, u)
         \/ \E d \in Divisions : StartDelete(r, d)
  PROVE  WInv'
<1>1. PICK j \in Jobs :
        /\ Begin(r, j)
        /\ j.op = "delete" => j.counted = 0
        /\ j.op = "createTask" => HasBeenMember(j.div, j.user)
        /\ j.op = "updateTask" => Written(j.id) /\ HasBeenMember(item[j.id].div, j.user)
  <2>1. ASSUME NEW d \in Divisions, NEW u \in Users \cup {None}, NEW own \in BOOLEAN,
               StartCreateTask(r, d, u, own)
        PROVE  [op |-> "createTask", div |-> d, user |-> u, own |-> own] \in Jobs
               /\ HasBeenMember(d, u)
               /\ Begin(r, [op |-> "createTask", div |-> d, user |-> u, own |-> own])
    BY <2>1 DEF StartCreateTask, MayAssign, HasBeenMember, Jobs
  <2>2. ASSUME NEW i \in Items, NEW s \in TaskStatuses, NEW u \in Users \cup {None},
               StartUpdateTask(r, i, s, u)
        PROVE  [op |-> "updateTask", id |-> i, status |-> s, user |-> u] \in Jobs
               /\ Written(i) /\ HasBeenMember(item[i].div, u)
               /\ Begin(r, [op |-> "updateTask", id |-> i, status |-> s, user |-> u])
    BY <2>2 DEF StartUpdateTask, MayAssign, HasBeenMember, Jobs, Stored
  <2>3. ASSUME NEW d \in Divisions, StartDelete(r, d)
        PROVE  [op |-> "delete", div |-> d, counted |-> 0] \in Jobs
               /\ Begin(r, [op |-> "delete", div |-> d, counted |-> 0])
    BY <2>3 DEF StartDelete, Jobs
  <2> QED BY <2>1, <2>2, <2>3
<1>2. UNCHANGED <<deleted, roster, item, late, removed>>
  BY DEF StartCreateTask, StartUpdateTask, StartDelete
<1>3. /\ job' \in [Requests -> Jobs]
      /\ \A q \in Requests : job'[q] = IF q = r THEN j ELSE job[q]
      /\ \A q \in Requests, d \in Divisions, k \in Kinds :
           Counted(q, d, k)' => Counted(q, d, k)
  BY <1>1, BeginKeepsCounts DEF WInv
<1>4. TypeOK' /\ OrphansArriveLate'
  BY <1>2, <1>3 DEF WInv, TypeOK, OrphansArriveLate, Open, Written
<1>5. CountedOrLate'
  BY <1>2, <1>3 DEF WInv, CountedOrLate, Counts, Open, Written
<1>6. JobsChecked'
  BY <1>1, <1>2, <1>3 DEF WInv, JobsChecked, HasBeenMember, Written
<1>7. AssigneesChecked'
  BY <1>2 DEF WInv, AssigneesChecked, HasBeenMember, Written
<1> QED BY <1>4, <1>5, <1>6, <1>7 DEF WInv

LEMMA CreatesKeepWInv ==
  ASSUME WInv, NEW i \in Items,
         \/ \E r \in Requests : CreateTask(r, i)
         \/ \E d \in Divisions, s \in {"upcoming", "past"}, own \in BOOLEAN :
              CreateEvent(i, d, s, own)
         \/ \E d \in Divisions, own \in BOOLEAN : CreateTransaction(i, d, own)
  PROVE  WInv'
<1>1. ASSUME NEW r \in Requests, CreateTask(r, i) PROVE WInv'
  <2> DEFINE row == Row("task", job[r].div, "TODO", job[r].user, job[r].own)
  <2>1. row \in Rows /\ HasBeenMember(row.div, row.assignee)
    BY <1>1 DEF CreateTask, WInv, TypeOK, JobsChecked, Jobs, Idle, Row, Rows, Kinds,
                States, OpenStates
  <2>2. job' \in [Requests -> Jobs] /\ \A q \in Requests : job'[q] = job[q] \/ job'[q] = Idle
    BY <1>1, EndKeepsCounts DEF CreateTask, WInv
  <2>3. Put(i, row) /\ ~Written(i) /\ UNCHANGED <<deleted, roster, removed>>
    BY <1>1 DEF CreateTask
  <2> HIDE DEF row
  <2> QED BY <2>1, <2>2, <2>3, PutStep
<1>2. ASSUME NEW d \in Divisions, NEW s \in {"upcoming", "past"}, NEW own \in BOOLEAN,
             CreateEvent(i, d, s, own)
      PROVE  WInv'
  <2> DEFINE row == Row("event", d, s, None, own)
  <2>1. row \in Rows /\ HasBeenMember(row.div, row.assignee)
    BY DEF Row, Rows, Kinds, States, OpenStates, HasBeenMember
  <2>2. job' \in [Requests -> Jobs] /\ \A q \in Requests : job'[q] = job[q]
    BY <1>2 DEF CreateEvent, WInv, TypeOK
  <2>3. Put(i, row) /\ ~Written(i) /\ UNCHANGED <<deleted, roster, removed>>
    BY <1>2 DEF CreateEvent
  <2> HIDE DEF row
  <2> QED BY <2>1, <2>2, <2>3, PutStep
<1>3. ASSUME NEW d \in Divisions, NEW own \in BOOLEAN, CreateTransaction(i, d, own)
      PROVE  WInv'
  <2> DEFINE row == Row("transaction", d, "recent", None, own)
  <2>1. row \in Rows /\ HasBeenMember(row.div, row.assignee)
    BY DEF Row, Rows, Kinds, States, OpenStates, HasBeenMember
  <2>2. job' \in [Requests -> Jobs] /\ \A q \in Requests : job'[q] = job[q]
    BY <1>3 DEF CreateTransaction, WInv, TypeOK
  <2>3. Put(i, row) /\ ~Written(i) /\ UNCHANGED <<deleted, roster, removed>>
    BY <1>3 DEF CreateTransaction
  <2> HIDE DEF row
  <2> QED BY <2>1, <2>2, <2>3, PutStep
<1> QED BY <1>1, <1>2, <1>3

LEMMA EditsKeepWInv ==
  ASSUME WInv, NEW i \in Items,
         \/ \E s \in TaskStatuses : UpdateStatus(i, s)
         \/ \E s \in {"upcoming", "past"} : UpdateEvent(i, s)
         \/ DeleteItem(i)
         \/ TimePasses(i)
  PROVE  WInv'
<1>1. ASSUME NEW s \in TaskStatuses, UpdateStatus(i, s) PROVE WInv'
  <2>1. s \in States BY DEF TaskStatuses, States, OpenStates
  <2> QED BY <1>1, <2>1, EditStep DEF UpdateStatus
<1>2. ASSUME NEW s \in {"upcoming", "past"}, UpdateEvent(i, s) PROVE WInv'
  <2>1. s \in States BY DEF States, OpenStates
  <2> QED BY <1>2, <2>1, EditStep DEF UpdateEvent
<1>3. ASSUME DeleteItem(i) PROVE WInv'
  <2>1. "deleted" \in States BY DEF States
  <2> QED BY <1>3, <2>1, EditStep DEF DeleteItem
<1>4. ASSUME TimePasses(i) PROVE WInv'
  <2>1. item[i] \in Rows
    BY <1>4, WrittenIsRow DEF TimePasses, Stored, WInv
  <2> DEFINE s == IF item[i].state = "upcoming" THEN "past" ELSE "old"
  <2>2. s \in States BY DEF States
  <2>3. Put(i, [item[i] EXCEPT !.state = s])
    BY <1>4, <2>1 DEF TimePasses, Rows
  <2>4. Stored(i) /\ UNCHANGED <<deleted, roster, job, removed>>
    BY <1>4 DEF TimePasses
  <2> HIDE DEF s
  <2> QED BY <2>2, <2>3, <2>4, EditStep
<1> QED BY <1>1, <1>2, <1>3, <1>4

LEMMA UpdateTaskKeepsWInv ==
  ASSUME WInv, NEW r \in Requests, UpdateTask(r)
  PROVE  WInv'
<1> DEFINE i == job[r].id
<1>1. /\ i \in Items /\ Written(i) /\ item[i] \in Rows
      /\ job[r].status \in States /\ job[r].user \in Users \cup {None}
      /\ HasBeenMember(item[i].div, job[r].user)
  <2>1. job[r].op = "updateTask" /\ job[r] \in Jobs
    BY DEF UpdateTask, WInv, TypeOK
  <2>2. i \in Items /\ job[r].status \in States /\ job[r].user \in Users \cup {None}
    BY <2>1 DEF Jobs, Idle, TaskStatuses, States, OpenStates
  <2> QED BY <2>1, <2>2, WrittenIsRow DEF WInv, JobsChecked
<1>2. /\ job' \in [Requests -> Jobs]
      /\ \A q \in Requests : job'[q] = IF q = r THEN Idle ELSE job[q]
      /\ \A q \in Requests, d \in Divisions, k \in Kinds :
           Counted(q, d, k)' => Counted(q, d, k)
      /\ UNCHANGED <<deleted, roster, removed>>
  BY EndKeepsCounts DEF UpdateTask, WInv
<1>3. CASE Stored(i)
  <2> DEFINE row == [item[i] EXCEPT !.state = job[r].status, !.assignee = job[r].user]
  <2>1. /\ row \in Rows /\ row.div = item[i].div
        /\ HasBeenMember(row.div, row.assignee)
    BY <1>1 DEF Rows
  <2>2. Put(i, row)
    BY <1>3 DEF UpdateTask
  <2> HIDE DEF row, i
  <2> QED BY <1>1, <1>2, <2>1, <2>2, PutStep
<1>4. CASE ~Stored(i)
  <2>1. UNCHANGED <<item, late>>
    BY <1>4 DEF UpdateTask
  <2>2. TypeOK' /\ OrphansArriveLate'
    BY <2>1, <1>2 DEF WInv, TypeOK, OrphansArriveLate, Open, Written
  <2>3. CountedOrLate'
    BY <2>1, <1>2 DEF WInv, CountedOrLate, Counts, Open, Written
  <2>4. JobsChecked'
    BY <2>1, <1>2 DEF WInv, JobsChecked, HasBeenMember, Written, Idle
  <2>5. AssigneesChecked'
    BY <2>1, <1>2 DEF WInv, AssigneesChecked, HasBeenMember, Written
  <2> QED BY <2>2, <2>3, <2>4, <2>5 DEF WInv
<1> QED BY <1>3, <1>4

LEMMA GiveUpKeepsWInv ==
  ASSUME WInv, NEW r \in Requests, GiveUp(r)
  PROVE  WInv'
<1>1. /\ job' \in [Requests -> Jobs]
      /\ \A q \in Requests : job'[q] = IF q = r THEN Idle ELSE job[q]
      /\ \A q \in Requests, d \in Divisions, k \in Kinds :
           Counted(q, d, k)' => Counted(q, d, k)
      /\ UNCHANGED <<deleted, roster, item, late, removed>>
  BY EndKeepsCounts DEF GiveUp, WInv
<1>2. TypeOK' /\ OrphansArriveLate'
  BY <1>1 DEF WInv, TypeOK, OrphansArriveLate, Open, Written
<1>3. CountedOrLate'
  BY <1>1 DEF WInv, CountedOrLate, Counts, Open, Written
<1>4. JobsChecked'
  BY <1>1 DEF WInv, JobsChecked, HasBeenMember, Written, Idle
<1>5. AssigneesChecked'
  BY <1>1 DEF WInv, AssigneesChecked, HasBeenMember, Written
<1> QED BY <1>2, <1>3, <1>4, <1>5 DEF WInv

LEMMA RosterKeepsWInv ==
  ASSUME WInv,
         \/ \E new \in [Divisions -> SUBSET Users] : AddMembers(new)
         \/ \E d \in Divisions, u \in Users : RemoveMember(d, u)
  PROVE  WInv'
<1>1. UNCHANGED <<deleted, item, job, late>>
  BY DEF AddMembers, RemoveMember
<1>2. roster' \in [Divisions -> SUBSET Users] /\ removed' \subseteq Divisions \X Users
  BY DEF AddMembers, RemoveMember, WInv, TypeOK
<1>3. \A e \in Divisions : \A v : HasBeenMember(e, v) => HasBeenMember(e, v)'
  BY DEF AddMembers, RemoveMember, WInv, TypeOK, HasBeenMember
<1>4. TypeOK' /\ OrphansArriveLate'
  BY <1>1, <1>2 DEF WInv, TypeOK, OrphansArriveLate, Open, Written
<1>5. CountedOrLate'
  BY <1>1 DEF WInv, CountedOrLate, Counts, Open, Written, Counted
<1>6. JobsChecked'
  <2> SUFFICES ASSUME NEW r \in Requests
               PROVE  /\ job[r].op = "createTask" => HasBeenMember(job[r].div, job[r].user)'
                      /\ job[r].op = "updateTask"
                           => /\ Written(job[r].id)
                              /\ HasBeenMember(item[job[r].id].div, job[r].user)'
    BY <1>1 DEF JobsChecked, HasBeenMember, Written
  <2>1. CASE job[r].op = "createTask"
    <3>1. job[r].div \in Divisions BY <2>1 DEF WInv, TypeOK, Jobs, Idle
    <3> QED BY <2>1, <3>1, <1>1, <1>3 DEF WInv, JobsChecked, HasBeenMember
  <2>2. CASE job[r].op = "updateTask"
    <3>1. job[r].id \in Items BY <2>2 DEF WInv, TypeOK, Jobs, Idle
    <3>2. Written(job[r].id) /\ HasBeenMember(item[job[r].id].div, job[r].user)
      BY <2>2 DEF WInv, JobsChecked
    <3>3. item[job[r].id].div \in Divisions
      BY <3>1, <3>2, WrittenIsRow DEF WInv, Rows
    <3> QED BY <2>2, <3>2, <3>3, <1>1, <1>3 DEF HasBeenMember
  <2> QED BY <2>1, <2>2
<1>7. AssigneesChecked'
  <2> SUFFICES ASSUME NEW i \in Items, Written(i)
               PROVE  HasBeenMember(item[i].div, item[i].assignee)'
    BY <1>1 DEF AssigneesChecked, HasBeenMember, Written
  <2>1. item[i].div \in Divisions
    BY WrittenIsRow DEF WInv, Rows
  <2>2. HasBeenMember(item[i].div, item[i].assignee)
    BY DEF WInv, AssigneesChecked
  <2> QED BY <1>1, <1>3, <2>1, <2>2 DEF HasBeenMember
<1> QED BY <1>4, <1>5, <1>6, <1>7 DEF WInv

\* A count that finds nothing proves that there is nothing open of its kind.
LEMMA CountKeepsWInv ==
  ASSUME WInv, NEW r \in Requests, CountWork(r)
  PROVE  WInv'
<1>1. UNCHANGED <<deleted, roster, item, late, removed>>
  BY DEF CountWork
<1>2. job[r] \in [op : {"delete"}, div : Divisions, counted : 0 .. 3] /\ job[r].counted < 3
  BY DEF CountWork, WInv, TypeOK, Jobs, Idle
<1> DEFINE k == CountOrder[job[r].counted + 1]
           more == [job[r] EXCEPT !.counted = @ + 1]
<1>3. more \in Jobs /\ more.op = "delete" /\ more.div = job[r].div
      /\ more.counted = job[r].counted + 1
  BY <1>2 DEF Jobs
<1>4. CASE \E i \in Items : Counts(i, job[r].div, k)
  <2>1. End(r)
    BY <1>4 DEF CountWork, End
  <2>2. /\ job' \in [Requests -> Jobs]
        /\ \A q \in Requests : job'[q] = IF q = r THEN Idle ELSE job[q]
        /\ \A q \in Requests, d \in Divisions, kk \in Kinds :
             Counted(q, d, kk)' => Counted(q, d, kk)
    BY <2>1, EndKeepsCounts DEF WInv
  <2>3. TypeOK' /\ OrphansArriveLate'
    BY <1>1, <2>2 DEF WInv, TypeOK, OrphansArriveLate, Open, Written
  <2>4. CountedOrLate'
    BY <1>1, <2>2 DEF WInv, CountedOrLate, Counts, Open, Written
  <2>5. JobsChecked'
    BY <1>1, <2>2 DEF WInv, JobsChecked, HasBeenMember, Written, Idle
  <2>6. AssigneesChecked'
    BY <1>1 DEF WInv, AssigneesChecked, HasBeenMember, Written
  <2> QED BY <2>3, <2>4, <2>5, <2>6 DEF WInv
<1>5. CASE ~\E i \in Items : Counts(i, job[r].div, k)
  <2>1. job' = [job EXCEPT ![r] = more]
    BY <1>5, <1>2 DEF CountWork
  <2>2. job' \in [Requests -> Jobs]
        /\ \A q \in Requests : job'[q] = IF q = r THEN more ELSE job[q]
    BY <2>1, <1>3 DEF WInv, TypeOK
  <2> HIDE DEF k, more
  <2>3. TypeOK' /\ OrphansArriveLate'
    BY <1>1, <2>2 DEF WInv, TypeOK, OrphansArriveLate, Open, Written
  <2>4. CountedOrLate'
    <3> SUFFICES ASSUME NEW q \in Requests, NEW d \in Divisions, NEW kk \in Kinds,
                        NEW i \in Items, Counted(q, d, kk)', Counts(i, d, kk)
                 PROVE  i \in late
      BY <1>1 DEF CountedOrLate, Counts, Open, Written
    <3>1. CASE q # r
      BY <3>1, <2>2 DEF Counted, WInv, CountedOrLate
    <3>2. CASE q = r
      <4>1. d = job[r].div /\ \E n \in 1 .. more.counted : CountOrder[n] = kk
        BY <3>2, <2>2, <1>3 DEF Counted
      <4>2. kk # k
        BY <4>1, <1>5
      <4>3. \E n \in 1 .. job[r].counted : CountOrder[n] = kk
        BY <4>1, <4>2, <1>2, <1>3 DEF k
      <4>4. Counted(r, d, kk)
        BY <4>1, <4>3, <1>2 DEF Counted
      <4> QED BY <4>4 DEF WInv, CountedOrLate
    <3> QED BY <3>1, <3>2
  <2>5. JobsChecked'
    BY <1>1, <1>3, <2>2 DEF WInv, JobsChecked, HasBeenMember, Written
  <2>6. AssigneesChecked'
    BY <1>1 DEF WInv, AssigneesChecked, HasBeenMember, Written
  <2> QED BY <2>3, <2>4, <2>5, <2>6 DEF WInv
<1> QED BY <1>4, <1>5

\* After three counts every kind of work has been counted.
LEMMA DeleteKeepsWInv ==
  ASSUME WInv, NEW r \in Requests, DeleteDivision(r)
  PROVE  WInv'
<1>1. /\ job' \in [Requests -> Jobs]
      /\ \A q \in Requests : job'[q] = IF q = r THEN Idle ELSE job[q]
      /\ \A q \in Requests, d \in Divisions, k \in Kinds :
           Counted(q, d, k)' => Counted(q, d, k)
      /\ UNCHANGED <<roster, item, late, removed>>
  BY EndKeepsCounts DEF DeleteDivision, WInv
<1>2. job[r].op = "delete" /\ job[r].div \in Divisions /\ job[r].counted = 3
      /\ deleted' = deleted \cup {job[r].div}
  BY DEF DeleteDivision, WInv, TypeOK, Jobs, Idle
<1>3. \A k \in Kinds : Counted(r, job[r].div, k)
  <2>1. CountOrder[1] = "task" /\ CountOrder[2] = "event" /\ CountOrder[3] = "transaction"
    BY DEF CountOrder
  <2> QED BY <1>2, <2>1 DEF Counted, Kinds
<1>4. TypeOK'
  BY <1>1, <1>2 DEF WInv, TypeOK
<1>5. OrphansArriveLate'
  <2> SUFFICES ASSUME NEW i \in Items, Open(i), item[i].own, item[i].div \in deleted'
               PROVE  i \in late
    BY <1>1 DEF OrphansArriveLate, Open, Written
  <2>1. CASE item[i].div \in deleted
    BY <2>1 DEF WInv, OrphansArriveLate
  <2>2. CASE item[i].div = job[r].div
    <3>1. item[i].kind \in Kinds
      BY WrittenIsRow DEF WInv, Open, Rows
    <3> QED BY <2>2, <3>1, <1>2, <1>3 DEF WInv, CountedOrLate, Counts
  <2> QED BY <2>1, <2>2, <1>2
<1>6. CountedOrLate'
  BY <1>1 DEF WInv, CountedOrLate, Counts, Open, Written
<1>7. JobsChecked'
  BY <1>1 DEF WInv, JobsChecked, HasBeenMember, Written, Idle
<1>8. AssigneesChecked'
  BY <1>1 DEF WInv, AssigneesChecked, HasBeenMember, Written
<1> QED BY <1>4, <1>5, <1>6, <1>7, <1>8 DEF WInv

LEMMA StepWInv ==
  ASSUME WInv, [Next]_vars
  PROVE  WInv'
<1>1. CASE UNCHANGED vars
  BY <1>1 DEF vars, WInv, TypeOK, OrphansArriveLate, CountedOrLate, JobsChecked,
              AssigneesChecked, Counts, Counted, Open, Written, HasBeenMember
<1>2. CASE Next
  BY <1>2, StartsKeepWInv, CreatesKeepWInv, EditsKeepWInv, UpdateTaskKeepsWInv,
     GiveUpKeepsWInv, RosterKeepsWInv, CountKeepsWInv, DeleteKeepsWInv DEF Next, WorkNext
<1> QED BY <1>1, <1>2

\* The reachable states satisfy WInv.
THEOREM WorkInvariant == Spec => []WInv
BY InitWInv, StepWInv, PTL DEF Spec

-----------------------------------------------------------------------------
(* The properties *)

\* Type correctness, for any divisions, users, rows and handlers.
THEOREM WorkTypeCorrect == Spec => []TypeOK
<1>1. WInv => TypeOK BY DEF WInv
<1> QED BY <1>1, WorkInvariant, PTL

\* Open work of the organization in a deleted division of it was opened after
\* the deletion counted it.
THEOREM OrphansAreLate == Spec => []OrphansArriveLate
<1>1. WInv => OrphansArriveLate BY DEF WInv
<1> QED BY <1>1, WorkInvariant, PTL

\* An assignee is on the roster of the division or has been removed from it.
THEOREM AssigneesWereMembers == Spec => []AssigneeHasBeenMember
<1>1. WInv => AssigneeHasBeenMember
  BY DEF WInv, AssigneesChecked, AssigneeHasBeenMember, HasBeenMember
<1> QED BY <1>1, WorkInvariant, PTL

\* No step writes a deleted row.
THEOREM DeletionIsFinal == Spec => DeletedIsFinal
<1> DEFINE Kept == \A i \in Items : Written(i) /\ ~Stored(i) => item'[i] = item[i]
<1>1. ASSUME WInv, [Next]_vars PROVE [Kept]_vars
  <2> SUFFICES ASSUME NEW i \in Items, Written(i), ~Stored(i), Next
               PROVE  item'[i] = item[i]
    BY <1>1
  <2>1. ASSUME NEW e \in Items, NEW row, Put(e, row), ~Written(e) \/ Stored(e)
        PROVE  item'[i] = item[i]
    BY <1>1, <2>1 DEF Put, WInv, TypeOK, Stored
  <2>2. ASSUME UNCHANGED item PROVE item'[i] = item[i]
    BY <2>2
  <2>3. ASSUME NEW r \in Requests, UpdateTask(r) PROVE item'[i] = item[i]
    <3>1. job[r].id \in Items
      BY <1>1, <2>3 DEF UpdateTask, WInv, TypeOK, Jobs, Idle
    <3> QED BY <2>1, <2>3, <3>1 DEF UpdateTask
  <2>4. ASSUME NEW e \in Items,
               \/ \E r \in Requests : CreateTask(r, e)
               \/ \E d \in Divisions, s \in {"upcoming", "past"}, own \in BOOLEAN :
                    CreateEvent(e, d, s, own)
               \/ \E d \in Divisions, own \in BOOLEAN : CreateTransaction(e, d, own)
        PROVE  item'[i] = item[i]
    BY <2>1, <2>4 DEF CreateTask, CreateEvent, CreateTransaction
  <2>5. ASSUME NEW e \in Items,
               \/ \E s \in TaskStatuses : UpdateStatus(e, s)
               \/ \E s \in {"upcoming", "past"} : UpdateEvent(e, s)
               \/ DeleteItem(e)
               \/ TimePasses(e)
        PROVE  item'[i] = item[i]
    BY <2>1, <2>5 DEF UpdateStatus, UpdateEvent, DeleteItem, TimePasses
  <2> QED
    BY <2>2, <2>3, <2>4, <2>5
    DEF Next, WorkNext, StartCreateTask, StartUpdateTask, StartDelete, CountWork, DeleteDivision,
        GiveUp, AddMembers, RemoveMember
<1> QED BY <1>1, WorkInvariant, PTL DEF Spec, DeletedIsFinal
=============================================================================
