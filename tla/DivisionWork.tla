----------------------------- MODULE DivisionWork -----------------------------
(***************************************************************************)
(* The work kept in a division of sekre-backend (tasks, events and finance *)
(* transactions), and the deletion of a division, which is refused while   *)
(* there is open work in it.                                               *)
(*                                                                         *)
(* The deletion counts the three kinds of work in three statements and     *)
(* writes in a fourth; the handlers that create work never look at         *)
(* deleted_at of the division, its row stays and satisfies the foreign     *)
(* key.  Nor do they look at its organization: a row of work carries the   *)
(* organization of its author, and the counts ask for the division's.  The *)
(* assignee of a task is looked up in division_members in one statement    *)
(* and stored in the next.                                                 *)
(*                                                                         *)
(* Module Divisions has the handlers that change the roster; here only     *)
(* their INSERT and DELETE matter.  Reads that decide nothing are left     *)
(* out, and the read of a task before its update is folded into the look-  *)
(* up of the assignee: the division of a task never changes.               *)
(***************************************************************************)
EXTENDS Naturals, Sequences

CONSTANTS
  Divisions,  \* divisions of one organization
  Users,      \* accounts
  Items,      \* ids of tasks, events and transactions
  Requests,   \* handler goroutines
  None        \* no assignee

ASSUME NoneAssumption == None \notin Users

VARIABLES
  deleted,  \* divisions whose deleted_at is set
  roster,   \* roster[d]: user ids in division_members
  item,     \* item[i]: the row, or Unwritten
  job,      \* job[r]: the handler r is in, with what it has found out
  late,     \* history: open items a deletion could not have counted
  removed   \* history: the <<d, u>> whose roster row was deleted once

vars == <<deleted, roster, item, job, late, removed>>

\* Division.Delete counts in this order.
CountOrder == <<"task", "event", "transaction">>
Kinds == {"task", "event", "transaction"}

TaskStatuses == {"TODO", "IN_PROGRESS", "DONE"}
\* Work that stands against the deletion of its division: a task not done, an
\* event that has yet to start, a transaction of the last 30 days.
OpenStates == {"TODO", "IN_PROGRESS", "upcoming", "recent"}
States == OpenStates \cup {"DONE", "past", "old", "deleted"}

\* own: the organization_id of the row is that of its division.
Row(k, d, s, u, own) ==
  [kind |-> k, div |-> d, state |-> s, assignee |-> u, own |-> own]
Rows == [kind : Kinds, div : Divisions, state : States, assignee : Users \cup {None},
         own : BOOLEAN]
Unwritten == [kind |-> "none"]

Idle == [op |-> "idle"]
Jobs ==
  {Idle}
    \cup [op : {"createTask"}, div : Divisions, user : Users \cup {None}, own : BOOLEAN]
    \cup [op : {"updateTask"}, id : Items, status : TaskStatuses,
          user : Users \cup {None}]
    \cup [op : {"delete"}, div : Divisions, counted : 0 .. 3]

Written(i) == item[i] # Unwritten
Stored(i)  == Written(i) /\ item[i].state # "deleted"
Open(i)    == Written(i) /\ item[i].state \in OpenStates

Init ==
  /\ deleted = {}
  /\ roster = [d \in Divisions |-> {}]
  /\ item = [i \in Items |-> Unwritten]
  /\ job = [r \in Requests |-> Idle]
  /\ late = {}
  /\ removed = {}

Begin(r, j) == job[r] = Idle /\ job' = [job EXCEPT ![r] = j]
End(r) == job' = [job EXCEPT ![r] = Idle]

\* Deletion r has counted the work of kind k in division d.
Counted(r, d, k) ==
  /\ job[r].op = "delete"
  /\ job[r].div = d
  /\ \E n \in 1 .. job[r].counted : CountOrder[n] = k

\* A row opened now is not in the count of a deletion.
TooLate(row) ==
  /\ row.state \in OpenStates
  /\ row.div \in deleted \/ \E r \in Requests : Counted(r, row.div, row.kind)

Put(i, row) ==
  /\ item' = [item EXCEPT ![i] = row]
  /\ late' = IF TooLate(row) THEN late \cup {i} ELSE late \ {i}

-----------------------------------------------------------------------------
(* Tasks *)

\* Mutant of MayAssign: the roster of any division will do.
MayAssignAnywhere(d, u, own) ==
  \/ u = None
  \/ own /\ \E e \in Divisions : u \in roster[e]

\* IsUserMemberOfDivision, in the organization of the author; deleted_at of the
\* division is not looked at.
MayAssign(d, u, own) == u = None \/ (own /\ u \in roster[d])

StartCreateTask(r, d, u, own) ==
  /\ MayAssign(d, u, own)
  /\ Begin(r, [op |-> "createTask", div |-> d, user |-> u, own |-> own])
  /\ UNCHANGED <<deleted, roster, item, late, removed>>

CreateTask(r, i) ==
  /\ job[r].op = "createTask"
  /\ ~Written(i)
  /\ Put(i, Row("task", job[r].div, "TODO", job[r].user, job[r].own))
  /\ End(r)
  /\ UNCHANGED <<deleted, roster, removed>>

StartUpdateTask(r, i, s, u) ==
  /\ Stored(i)
  /\ item[i].kind = "task"
  /\ MayAssign(item[i].div, u, item[i].own)
  /\ Begin(r, [op |-> "updateTask", id |-> i, status |-> s, user |-> u])
  /\ UNCHANGED <<deleted, roster, item, late, removed>>

\* Mutant of UpdateTask: the row is saved even if it was deleted meanwhile.
UpdateTaskSave(r) ==
  /\ job[r].op = "updateTask"
  /\ Put(job[r].id, [item[job[r].id] EXCEPT !.state = job[r].status,
                                            !.assignee = job[r].user])
  /\ End(r)
  /\ UNCHANGED <<deleted, roster, removed>>

\* UPDATE ... WHERE id = ? and not deleted.
UpdateTask(r) ==
  /\ job[r].op = "updateTask"
  /\ LET i == job[r].id
     IN IF Stored(i)
        THEN Put(i, [item[i] EXCEPT !.state = job[r].status, !.assignee = job[r].user])
        ELSE UNCHANGED <<item, late>>
  /\ End(r)
  /\ UNCHANGED <<deleted, roster, removed>>

\* Mutant of UpdateStatus: the status of the request is not validated.
UpdateStatusUnchecked(i, s) ==
  /\ Stored(i)
  /\ item[i].kind = "task"
  /\ Put(i, [item[i] EXCEPT !.state = "CANCELLED"])
  /\ UNCHANGED <<deleted, roster, job, removed>>

\* From any status to any status, in one statement.
UpdateStatus(i, s) ==
  /\ Stored(i)
  /\ item[i].kind = "task"
  /\ Put(i, [item[i] EXCEPT !.state = s])
  /\ UNCHANGED <<deleted, roster, job, removed>>

-----------------------------------------------------------------------------
(* Events and transactions *)

\* An event may be entered after it took place.
CreateEvent(i, d, s, own) ==
  /\ ~Written(i)
  /\ Put(i, Row("event", d, s, None, own))
  /\ UNCHANGED <<deleted, roster, job, removed>>

UpdateEvent(i, s) ==
  /\ Stored(i)
  /\ item[i].kind = "event"
  /\ Put(i, [item[i] EXCEPT !.state = s])
  /\ UNCHANGED <<deleted, roster, job, removed>>

\* Approved at once; Update then refuses it, so it is never written again.
CreateTransaction(i, d, own) ==
  /\ ~Written(i)
  /\ Put(i, Row("transaction", d, "recent", None, own))
  /\ UNCHANGED <<deleted, roster, job, removed>>

DeleteItem(i) ==
  /\ Stored(i)
  /\ Put(i, [item[i] EXCEPT !.state = "deleted"])
  /\ UNCHANGED <<deleted, roster, job, removed>>

\* The event starts, or the transaction is 30 days old.
TimePasses(i) ==
  /\ Stored(i)
  /\ item[i].state \in {"upcoming", "recent"}
  /\ Put(i, [item[i] EXCEPT !.state = IF @ = "upcoming" THEN "past" ELSE "old"])
  /\ UNCHANGED <<deleted, roster, job, removed>>

-----------------------------------------------------------------------------
(* Divisions *)

StartDelete(r, d) ==
  /\ d \notin deleted
  /\ Begin(r, [op |-> "delete", div |-> d, counted |-> 0])
  /\ UNCHANGED <<deleted, roster, item, late, removed>>

\* Mutant of Counts: only tasks nobody has started are active.
CountsTodo(i, d, k) ==
  /\ Open(i) /\ item[i].state # "IN_PROGRESS"
  /\ item[i].own /\ item[i].div = d /\ item[i].kind = k

\* Rows of the division that carry its organization, too.
Counts(i, d, k) == Open(i) /\ item[i].own /\ item[i].div = d /\ item[i].kind = k

\* The next count; anything found ends the handler with a conflict.
CountWork(r) ==
  /\ job[r].op = "delete"
  /\ job[r].counted < 3
  /\ LET k == CountOrder[job[r].counted + 1]
     IN job' = [job EXCEPT ![r] = IF \E i \in Items : Counts(i, job[r].div, k)
                                  THEN Idle ELSE [job[r] EXCEPT !.counted = @ + 1]]
  /\ UNCHANGED <<deleted, roster, item, late, removed>>

\* Soft delete: neither the roster nor the work is touched.
DeleteDivision(r) ==
  /\ job[r].op = "delete"
  /\ job[r].counted = 3
  /\ deleted' = deleted \cup {job[r].div}
  /\ End(r)
  /\ UNCHANGED <<roster, item, late, removed>>

\* The rows of one transaction: one for AddMember, one for each division of a
\* new account, one for each account of an import.
AddMembers(new) ==
  /\ \A d \in Divisions : new[d] \cap roster[d] = {}
  /\ \E d \in Divisions : new[d] # {}
  /\ roster' = [d \in Divisions |-> roster[d] \cup new[d]]
  /\ UNCHANGED <<deleted, item, job, late, removed>>

\* The tasks of the member stay assigned.
RemoveMember(d, u) ==
  /\ u \in roster[d]
  /\ roster' = [roster EXCEPT ![d] = @ \ {u}]
  /\ removed' = removed \cup {<<d, u>>}
  /\ UNCHANGED <<deleted, item, job, late>>

\* A statement fails, the deadline passes or the process stops.
GiveUp(r) ==
  /\ job[r] # Idle
  /\ End(r)
  /\ UNCHANGED <<deleted, roster, item, late, removed>>

\* The handlers of the work and of a division's deletion.
WorkNext ==
  \/ \E r \in Requests :
       \/ \E d \in Divisions, u \in Users \cup {None}, own \in BOOLEAN :
            StartCreateTask(r, d, u, own)
       \/ \E i \in Items : CreateTask(r, i)
       \/ \E i \in Items, s \in TaskStatuses, u \in Users \cup {None} :
            StartUpdateTask(r, i, s, u)
       \/ UpdateTask(r)
       \/ \E d \in Divisions : StartDelete(r, d)
       \/ CountWork(r)
       \/ DeleteDivision(r)
       \/ GiveUp(r)
  \/ \E i \in Items :
       \/ \E s \in TaskStatuses : UpdateStatus(i, s)
       \/ \E d \in Divisions, s \in {"upcoming", "past"}, own \in BOOLEAN :
            CreateEvent(i, d, s, own)
       \/ \E s \in {"upcoming", "past"} : UpdateEvent(i, s)
       \/ \E d \in Divisions, own \in BOOLEAN : CreateTransaction(i, d, own)
       \/ DeleteItem(i)
       \/ TimePasses(i)

Next ==
  \/ WorkNext
  \/ \E new \in [Divisions -> SUBSET Users] : AddMembers(new)
  \/ \E d \in Divisions, u \in Users : RemoveMember(d, u)

Spec == Init /\ [][Next]_vars

-----------------------------------------------------------------------------
(* Properties *)

\* Every row, roster and job has its shape.
TypeOK ==
  /\ deleted \subseteq Divisions
  /\ roster \in [Divisions -> SUBSET Users]
  /\ item \in [Items -> Rows \cup {Unwritten}]
  /\ job \in [Requests -> Jobs]
  /\ late \subseteq Items
  /\ removed \subseteq Divisions \X Users

\* sentinels.go: a division with active tasks, upcoming events or recent
\* transactions cannot be deleted.  What the code keeps of it, for the work that
\* carries the organization of the division: if it is open in a deleted
\* division, it was opened after the deletion had counted its kind, while the
\* handler was still running or later.  Work that another organization's
\* handler put into the division is in no count and can be orphaned any time.
OrphansArriveLate ==
  \A i \in Items : Open(i) /\ item[i].own /\ item[i].div \in deleted => i \in late

\* "assignee must be a member of the task division": an assignee who is not on
\* the roster was on it and has been removed since the check or earlier.
AssigneeHasBeenMember ==
  \A i \in Items :
    Written(i) /\ item[i].assignee # None
      => \/ item[i].assignee \in roster[item[i].div]
         \/ <<item[i].div, item[i].assignee>> \in removed

\* A deleted row is never written again, not even by an update that had read
\* it before.
DeletedIsFinal ==
  [][\A i \in Items : Written(i) /\ ~Stored(i) => item'[i] = item[i]]_vars
=============================================================================
