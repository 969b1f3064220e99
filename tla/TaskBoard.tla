------------------------------ MODULE TaskBoard ------------------------------
(***************************************************************************)
(* The tasks tab of the mobile app: the kanban board, the detail, edit and *)
(* create screens, and the query cache they share.  A row of the cache is  *)
(* shown wherever its query is mounted; it comes from a fetch, from an     *)
(* optimistic status change, from a rollback, or from the answer of a      *)
(* mutation, and the four race.                                            *)
(*                                                                         *)
(* Queries are the lists ['tasks', filter] and the details ['tasks', id].  *)
(* The unfiltered list is mounted under every screen (by the dashboard and *)
(* by the board), a search mounts another one.  The library is modelled    *)
(* from how the hooks use it: an invalidation restarts the fetch of a      *)
(* mounted query that has rows, joins a first fetch that is under way, and *)
(* only marks a query that is not mounted; without a connection requests   *)
(* wait for it, after their optimistic change was made.                    *)
(***************************************************************************)
EXTENDS Integers, Sequences

CONSTANTS
  Tasks,      \* task identifiers
  Lists,      \* list queries, one per search term
  Home,       \* the list without a search term
  Moves,      \* status mutations
  Changes,    \* create, update and delete mutations
  Texts,      \* what a form may hold in place of title, description and date
  MaxOther,   \* writes by other clients
  MaxVisits, \* screens opened and searches made
  MaxLapses, \* refetches nobody asked for, and rows that go stale with age
  Asked,      \* a fetch whose answer has not left the server
  Waiting,    \* a fetch that waits for the connection
  None

ASSUME HomeIsAList == Home \in Lists
ASSUME QueriesAreDistinct == Lists \cap Tasks = {} /\ {Asked, Waiting, None} \cap (Lists \cup Tasks) = {}
ASSUME FetchesAreDistinct == Asked # None /\ Waiting # None /\ Asked # Waiting
ASSUME SomeText == Texts # {}
ASSUME Bounds == MaxOther \in Nat /\ MaxVisits \in Nat /\ MaxLapses \in Nat

VARIABLES
  online,    \* what the app knows of its connection
  hist,      \* per task, the values the server gave it, the last one current
  cache,     \* per query, its entry
  shown,     \* the list the board shows
  screen,    \* the screen on top of the stack
  open,      \* the task of the detail and edit screens
  form,      \* the edit form
  drag,      \* the references of useDragDrop
  moves,     \* the status mutations
  advancing, \* the status mutation the open detail screen observes
  deleting,  \* the delete it observes
  changes,   \* the other mutations
  saving,    \* the mutation the open edit or create form observes
  known,     \* per task, the newest own write whose answer arrived
  others,    \* writes by other clients so far
  visits,    \* screens opened and searches made so far
  lapses     \* refetches on focus, reconnection and pull, and expiries, so far

nav == <<screen, open>>
vars == <<online, hist, cache, shown, nav, form, drag, moves, advancing, deleting, changes,
          saving, known, others, visits, lapses>>

-----------------------------------------------------------------------------
(* Rows and queries *)

Columns == {"TODO", "IN_PROGRESS", "DONE"}
Status == Columns \cup {"CANCELLED"}
Gone == "GONE"
NextStatus(s) == IF s = "TODO" THEN "IN_PROGRESS" ELSE IF s = "IN_PROGRESS" THEN "DONE" ELSE s

\* No status mutation is under way.
Quiet == \A m \in Moves : moves[m].at \in {"idle", "settled"}

Queries == Lists \cup Tasks
Scope(q) == IF q \in Lists THEN Tasks ELSE {q}
Blank == [status |-> Gone, text |-> None, ver |-> 0]

Now(t) == hist[t][Len(hist[t])]
RowOf(t) == [status |-> Now(t).status, text |-> Now(t).text, ver |-> Len(hist[t])]
Answer(q) == [t \in Tasks |-> IF t \in Scope(q) THEN RowOf(t) ELSE Blank]

\* A row as the server had it at some time, not one the client made up.
Genuine(t, row) == row.ver = 0 \/ hist[t][row.ver] = [status |-> row.status, text |-> row.text]

Entry(rows, mark) == [rows |-> rows, mark |-> mark, fetch |-> None, joined |-> "no"]
Settled(e) == e.fetch = None /\ e.mark # "error" /\ e.joined = "no"
Active(q) == q \in {Home, shown} \/ (screen \in {"detail", "edit"} /\ q = open)

-----------------------------------------------------------------------------
(* The query library *)

\* A fetch joined by an invalidation leaves rows that may predate it, until
\* a fetch of its own replaces them.
Predates(e) == IF e.joined = "fetch" THEN "rows" ELSE e.joined
Fetching(e) == [e EXCEPT !.fetch = IF online THEN Asked ELSE Waiting, !.joined = Predates(e)]
Mounted(e) == IF e.mark # "fresh" /\ e.fetch = None THEN Fetching(e) ELSE e
Cancelled(e) == [e EXCEPT !.fetch = None, !.joined = Predates(e)]
Put(e, rows) == [e EXCEPT !.rows = rows, !.mark = "fresh"]
Delivered(e) == [Put(e, e.fetch) EXCEPT !.fetch = None, !.joined = IF @ = "fetch" THEN "rows" ELSE "no"]

Invalidated(e, active) ==
  LET old == [e EXCEPT !.mark = IF @ = "error" THEN @ ELSE "stale"]
  IN  IF active /\ (e.fetch = None \/ e.rows # None) THEN Fetching(old)
      ELSE [old EXCEPT !.joined = IF e.fetch # None THEN "fetch" ELSE @]
\* Mutants: nothing is fetched again; the lists are left out.
InvalidateWithoutRefetch(c) == [q \in Queries |-> [c[q] EXCEPT !.mark = IF @ = "error" THEN @ ELSE "stale"]]
InvalidateDetails(c) == [q \in Queries |-> IF q \in Tasks THEN Invalidated(c[q], Active(q)) ELSE c[q]]
InvalidateTasks(c) == [q \in Queries |-> Invalidated(c[q], Active(q))]

\* The rows of every list in the cache, changed where task t occurs.
MapLists(c, t, row(_)) ==
  [q \in Queries |->
     IF q \in Lists /\ c[q].rows # None
       THEN Put(c[q], [c[q].rows EXCEPT ![t] = IF @.status = Gone THEN @ ELSE row(@)])
       ELSE c[q]]
SetDetail(c, t, row) == [c EXCEPT ![t] = Put(@, [x \in Tasks |-> IF x = t THEN row ELSE Blank])]

-----------------------------------------------------------------------------
(* What rendering does with a new cache: a card whose column changed is    *)
(* mounted anew and the gesture on the old one never ends, so its drag can *)
(* only be overwritten; a board that gives way to the skeleton or to the   *)
(* error loses the drag; the edit form takes over a changed task.  A first *)
(* fetch that waits for the connection shows an empty board.               *)

BoardShown(e) == e.mark # "error" /\ (e.rows = None => e.fetch \in {None, Waiting})
ColumnOf(e, t) == IF e.rows = None THEN Gone ELSE e.rows[t].status

Followed(e) ==
  IF drag # None /\ BoardShown(e) /\ ColumnOf(e, drag.task) = ColumnOf(cache[shown], drag.task)
    THEN drag ELSE None

Reseeded(e) ==
  IF form = None \/ e.rows = None \/ e.rows[open].text = form.seed THEN form
  ELSE [text |-> e.rows[open].text, seed |-> e.rows[open].text]

Render(c) ==
  /\ cache' = c
  /\ drag' = Followed(c[shown])
  /\ form' = IF form = None THEN None ELSE Reseeded(c[open])

-----------------------------------------------------------------------------
Idle == [at |-> "idle"]

\* Where a mutation starts: without a connection its request waits.
Started == IF online THEN "sent" ELSE "paused"

Value == [status : Status \cup {Gone}, text : Texts \cup {None}]
Row == [status : Status \cup {Gone}, text : Texts \cup {None}, ver : Nat]
Rows == [Tasks -> Row] \cup {None}
Entries == [rows : Rows, mark : {"fresh", "stale", "error"}, fetch : Rows \cup {Asked, Waiting},
            joined : {"no", "fetch", "rows"}]
ASSUME RowsAreThere == {Asked, Waiting, None} \cap [Tasks -> Row] = {}
Form == [text : Texts \cup {None}, seed : Texts \cup {None}]

\* A status mutation keeps the rows it overwrote until it is answered.
MoveStates ==
  {Idle, [at |-> "settled"]}
    \cup [at : {"paused", "sent", "stored", "failed"}, task : Tasks, status : Columns, back : [Queries -> Rows]]
    \cup [at : {"read"}, task : Tasks, row : Row]
ChangeStates ==
  {Idle, [at |-> "failed"], [at |-> "settled"]}
    \cup [at : {"paused", "sent"}, kind : {"create", "update", "delete"}, task : Tasks, value : Value, seen : Nat]
    \cup [at : {"stored"}, kind : {"create", "update", "delete"}, task : Tasks, row : Row]

Typed ==
  /\ hist \in [Tasks -> Seq(Value)] /\ \A t \in Tasks : hist[t] # <<>>
  /\ cache \in [Queries -> Entries]
  /\ shown \in Lists
  /\ screen \in {"list", "detail", "edit", "create"}
  /\ open \in Tasks \cup {None} /\ (screen \in {"detail", "edit"} => open # None)
  /\ form \in Form \cup {None}
  /\ drag \in [task : Tasks, source : Columns] \cup {None}
  /\ moves \in [Moves -> MoveStates] /\ advancing \in Moves \cup {None}
  /\ changes \in [Changes -> ChangeStates] /\ {deleting, saving} \subseteq Changes \cup {None}
  /\ known \in [Tasks -> Nat]
  /\ others \in 0..MaxOther /\ visits \in 0..MaxVisits /\ lapses \in 0..MaxLapses
TypeOK == online \in BOOLEAN /\ Typed

Init ==
  /\ online = TRUE
  /\ \E initial \in SUBSET Tasks : hist =
       [t \in Tasks |-> << IF t \in initial THEN [status |-> "TODO", text |-> CHOOSE x \in Texts : TRUE]
                           ELSE [status |-> Gone, text |-> None] >>]
  /\ cache = [q \in Queries |-> IF q = Home THEN Fetching(Entry(None, "stale")) ELSE Entry(None, "stale")]
  /\ shown = Home
  /\ screen = "list" /\ open = None
  /\ form = None /\ drag = None
  /\ moves = [m \in Moves |-> Idle] /\ advancing = None /\ deleting = None
  /\ changes = [c \in Changes |-> Idle] /\ saving = None
  /\ known = [t \in Tasks |-> 0]
  /\ others = 0 /\ visits = 0 /\ lapses = 0

-----------------------------------------------------------------------------
(* Screens *)

Visit == visits < MaxVisits /\ visits' = visits + 1

\* The board, or the detail of the open task, as far as it answers to touch.
OnBoard == screen = "list" /\ BoardShown(cache[shown])
OnDetail == screen = "detail" /\ cache[open].rows # None /\ cache[open].mark # "error"

Search(k) ==
  /\ Visit
  /\ screen = "list" /\ k # shown
  /\ shown' = k
  /\ cache' = [cache EXCEPT ![k] = Mounted(@)]
  /\ drag' = Followed(cache'[k])
  /\ UNCHANGED <<hist, nav, form, moves, advancing, deleting, changes, saving, known, others, lapses>>

OpenTask(t) ==
  /\ Visit
  /\ OnBoard /\ ColumnOf(cache[shown], t) \in Columns
  /\ screen' = "detail" /\ open' = t
  /\ advancing' = None /\ deleting' = None
  /\ Render([cache EXCEPT ![t] = Mounted(@)])
  /\ UNCHANGED <<hist, shown, moves, changes, saving, known, others, lapses>>

OpenEdit ==
  /\ Visit
  /\ OnDetail
  /\ screen' = "edit"
  /\ form' = [text |-> cache[open].rows[open].text, seed |-> cache[open].rows[open].text]
  /\ saving' = None
  /\ cache' = [cache EXCEPT ![open] = Mounted(@)]
  /\ UNCHANGED <<hist, shown, open, drag, moves, advancing, deleting, changes, known, others, lapses>>

OpenCreate ==
  /\ Visit
  /\ screen = "list"
  /\ screen' = "create" /\ saving' = None
  /\ UNCHANGED <<hist, cache, shown, open, form, drag, moves, advancing, deleting, changes, known, others, lapses>>

\* Mutant: leaving the edit form also forgets which task the detail shows.
GoBackFromTask ==
  /\ screen' = IF screen = "edit" THEN "detail" ELSE "list"
  /\ open' = None
  /\ advancing' = None /\ deleting' = None
  /\ saving' = None
GoBack ==
  /\ screen' = IF screen = "edit" THEN "detail" ELSE "list"
  /\ open' = IF screen = "edit" THEN open ELSE None
  /\ advancing' = IF screen = "edit" THEN advancing ELSE None
  /\ deleting' = IF screen = "edit" THEN deleting ELSE None
  /\ saving' = None

Back ==
  /\ screen # "list"
  /\ GoBack
  /\ form' = None
  /\ UNCHANGED <<hist, cache, shown, drag, moves, changes, known, others, visits, lapses>>

\* A keystroke in the edit form.
TypeText(x) ==
  /\ screen = "edit" /\ x # form.text
  /\ form' = [form EXCEPT !.text = x]
  /\ UNCHANGED <<hist, cache, shown, nav, drag, moves, advancing, deleting, changes, saving, known, others, visits, lapses>>

-----------------------------------------------------------------------------
(* Dragging a card *)

LongPress(t) ==
  /\ OnBoard /\ drag = None
  /\ ColumnOf(cache[shown], t) \in Columns
  /\ drag' = [task |-> t, source |-> ColumnOf(cache[shown], t)]
  /\ UNCHANGED <<hist, cache, shown, nav, form, moves, advancing, deleting, changes, saving, known, others, visits, lapses>>

\* The touch is cancelled, or it ends over the column it started from.
LetGo ==
  /\ drag # None
  /\ drag' = None
  /\ UNCHANGED <<hist, cache, shown, nav, form, moves, advancing, deleting, changes, saving, known, others, visits, lapses>>

-----------------------------------------------------------------------------
(* Status mutations *)

OnMutate(m, t, s) ==
  LET idle == [q \in Queries |-> IF q \in Lists THEN Cancelled(cache[q]) ELSE cache[q]]
      optimistic(row) == [row EXCEPT !.status = s]
      lists == MapLists(idle, t, optimistic)
      detail == cache[t].rows
  IN  /\ moves[m].at = "idle"
      /\ moves' = [moves EXCEPT ![m] =
           [at |-> Started, task |-> t, status |-> s,
            back |-> [q \in Queries |-> IF q \in Lists \cup {t} THEN cache[q].rows ELSE None]]]
      /\ cache' = IF detail = None THEN lists ELSE SetDetail(lists, t, optimistic(detail[t]))

Drop(m, s) ==
  /\ drag # None /\ s # drag.source
  /\ OnMutate(m, drag.task, s)
  /\ drag' = None
  /\ UNCHANGED <<hist, shown, nav, form, advancing, deleting, changes, saving, known, others, visits, lapses>>

Advance(m) ==
  /\ OnDetail
  /\ advancing # None => moves[advancing].at = "settled"
  /\ LET s == cache[open].rows[open].status
     IN  /\ NextStatus(s) # s
         /\ OnMutate(m, open, NextStatus(s))
  /\ advancing' = m
  /\ drag' = Followed(cache'[shown])
  /\ form' = form
  /\ UNCHANGED <<hist, shown, nav, deleting, changes, saving, known, others, visits, lapses>>

Written(t, value) == hist' = [hist EXCEPT ![t] = Append(@, value)]
client == <<cache, shown, nav, form, drag, advancing, deleting, saving, known, visits, lapses>>

\* The connection is back.
ResumeMove(m) ==
  /\ online /\ moves[m].at = "paused"
  /\ moves' = [moves EXCEPT ![m].at = "sent"]
  /\ UNCHANGED <<hist, client, changes, others>>

\* The server stores the new status; the answer to the PATCH carries no task.
StoreMove(m) ==
  /\ moves[m].at = "sent"
  /\ LET t == moves[m].task
     IN  /\ Now(t).status # Gone
         /\ Written(t, [Now(t) EXCEPT !.status = moves[m].status])
  /\ \E lost \in BOOLEAN :
       moves' = [moves EXCEPT ![m].at = IF lost THEN "failed" ELSE "stored"]
  /\ UNCHANGED <<client, changes, others>>

RefuseMove(m) ==
  /\ moves[m].at = "sent"
  /\ moves' = [moves EXCEPT ![m].at = "failed"]
  /\ UNCHANGED <<hist, client, changes, others>>

\* The task is read after the PATCH, by a request of its own.
ReadMoved(m) ==
  /\ moves[m].at = "stored"
  /\ LET t == moves[m].task
     IN  \/ /\ Now(t).status # Gone
            /\ moves' = [moves EXCEPT ![m] = [at |-> "read", task |-> t, row |-> RowOf(t)]]
         \/ moves' = [moves EXCEPT ![m].at = "failed"]
  /\ UNCHANGED <<hist, client, changes, others>>

Newest(t, ver) == known' = [known EXCEPT ![t] = IF ver > @ THEN ver ELSE @]

MoveDone(m) ==
  /\ moves[m].at = "read"
  /\ LET t == moves[m].task
         answer(row) == moves[m].row
         synced == SetDetail(MapLists(cache, t, answer), t, moves[m].row)
     IN  /\ Render(InvalidateTasks(synced))
         /\ Newest(t, moves[m].row.ver)
  /\ moves' = [moves EXCEPT ![m] = [at |-> "settled"]]
  /\ UNCHANGED <<hist, shown, nav, advancing, deleting, changes, saving, others, visits, lapses>>

\* Mutant: the rollback is taken for the last word.
MoveFailedForGood(m) ==
  /\ moves[m].at = "failed"
  /\ LET back == moves[m].back
     IN  Render([q \in Queries |-> IF back[q] = None THEN cache[q] ELSE Put(cache[q], back[q])])
  /\ moves' = [moves EXCEPT ![m] = [at |-> "settled"]]
  /\ UNCHANGED <<hist, shown, nav, advancing, deleting, changes, saving, known, others, visits, lapses>>
MoveFailed(m) ==
  /\ moves[m].at = "failed"
  /\ LET back == moves[m].back
         restored == [q \in Queries |-> IF back[q] = None THEN cache[q] ELSE Put(cache[q], back[q])]
     IN  Render(InvalidateTasks(restored))
  /\ moves' = [moves EXCEPT ![m] = [at |-> "settled"]]
  /\ UNCHANGED <<hist, shown, nav, advancing, deleting, changes, saving, known, others, visits, lapses>>

-----------------------------------------------------------------------------
(* Create, update and delete *)

\* A button whose mutation is under way does not answer.
Submit(c, request, pending) ==
  /\ changes[c].at = "idle"
  /\ pending # None => changes[pending].at = "settled"
  /\ changes' = [changes EXCEPT ![c] = request]
  /\ UNCHANGED <<hist, cache, shown, nav, form, drag, moves, advancing, known, others, visits, lapses>>

\* Mutant: the form sends the status a new task has.
SubmitEditWithDefault(c) ==
  /\ screen = "edit" /\ cache[open].rows # None
  /\ Submit(c, [at |-> Started, kind |-> "update", task |-> open,
                value |-> [status |-> "TODO", text |-> form.text],
                seen |-> IF Quiet /\ Settled(cache[open]) THEN known[open] ELSE 0], saving)
  /\ saving' = c /\ UNCHANGED deleting
\* The update sends the fields of the form and the status of the cached task.
SubmitEdit(c) ==
  /\ screen = "edit" /\ cache[open].rows # None
  /\ Submit(c, [at |-> Started, kind |-> "update", task |-> open,
                value |-> [status |-> cache[open].rows[open].status, text |-> form.text],
                seen |-> IF Quiet /\ Settled(cache[open]) THEN known[open] ELSE 0], saving)
  /\ saving' = c /\ UNCHANGED deleting

SubmitCreate(c, t, x) ==
  /\ screen = "create" /\ hist[t] = <<[status |-> Gone, text |-> None]>>
  /\ Submit(c, [at |-> Started, kind |-> "create", task |-> t,
                value |-> [status |-> "TODO", text |-> x], seen |-> 0], saving)
  /\ saving' = c /\ UNCHANGED deleting

Delete(c) ==
  /\ OnDetail
  /\ Submit(c, [at |-> Started, kind |-> "delete", task |-> open,
                value |-> [status |-> Gone, text |-> None], seen |-> 0], deleting)
  /\ deleting' = c /\ UNCHANGED saving

ResumeChange(c) ==
  /\ online /\ changes[c].at = "paused"
  /\ changes' = [changes EXCEPT ![c].at = "sent"]
  /\ UNCHANGED <<hist, client, moves, others>>

StoreChange(c) ==
  /\ changes[c].at = "sent"
  /\ LET t == changes[c].task
     IN  /\ (Now(t).status = Gone) = (changes[c].kind = "create")
         /\ Written(t, changes[c].value)
         /\ \E lost \in BOOLEAN : changes' = [changes EXCEPT ![c] =
              IF lost THEN [at |-> "failed"]
              ELSE [at |-> "stored", kind |-> changes[c].kind, task |-> t,
                    row |-> [status |-> changes[c].value.status, text |-> changes[c].value.text,
                             ver |-> Len(hist[t]) + 1]]]
  /\ UNCHANGED <<client, moves, others>>

RefuseChange(c) ==
  /\ changes[c].at = "sent"
  /\ changes' = [changes EXCEPT ![c] = [at |-> "failed"]]
  /\ UNCHANGED <<hist, client, moves, others>>

\* The hooks write the detail of an updated task and invalidate; then the
\* screen, if it is still there, goes back.
ChangeDone(c) ==
  /\ changes[c].at = "stored"
  /\ LET t == changes[c].task
         synced == IF changes[c].kind = "update" THEN SetDetail(cache, t, changes[c].row) ELSE cache
         next == InvalidateTasks(synced)
     IN  /\ cache' = next
         /\ drag' = Followed(next[shown])
         /\ Newest(t, changes[c].row.ver)
         /\ IF c \in {saving, deleting}
              THEN GoBack /\ form' = None
              ELSE /\ form' = IF form = None THEN None ELSE Reseeded(next[open])
                   /\ UNCHANGED <<nav, advancing, deleting, saving>>
  /\ changes' = [changes EXCEPT ![c] = [at |-> "settled"]]
  /\ UNCHANGED <<hist, shown, moves, others, visits, lapses>>

\* The form shows the error and nothing is invalidated.
ChangeFailed(c) ==
  /\ changes[c].at = "failed"
  /\ changes' = [changes EXCEPT ![c] = [at |-> "settled"]]
  /\ UNCHANGED <<hist, client, moves, others>>

-----------------------------------------------------------------------------
(* Fetches *)

ServerAnswers(q) ==
  /\ cache[q].fetch = Asked
  /\ q \in Tasks => Now(q).status # Gone
  /\ cache' = [cache EXCEPT ![q].fetch = Answer(q)]
  /\ UNCHANGED <<hist, shown, nav, form, drag, moves, advancing, deleting, changes, saving, known, others, visits, lapses>>

\* An attempt fails while the connection is gone: the next one waits for it.
PauseFetch(q) ==
  /\ ~online /\ cache[q].fetch = Asked
  /\ Render([cache EXCEPT ![q].fetch = Waiting])
  /\ UNCHANGED <<hist, shown, nav, moves, advancing, deleting, changes, saving, known, others, visits, lapses>>

ResumeFetch(q) ==
  /\ online /\ cache[q].fetch = Waiting
  /\ Render([cache EXCEPT ![q].fetch = Asked])
  /\ UNCHANGED <<hist, shown, nav, moves, advancing, deleting, changes, saving, known, others, visits, lapses>>

FetchDone(q) ==
  /\ cache[q].fetch \notin {None, Asked, Waiting}
  /\ Render([cache EXCEPT ![q] = Delivered(@)])
  /\ UNCHANGED <<hist, shown, nav, moves, advancing, deleting, changes, saving, known, others, visits, lapses>>

FetchFailed(q) ==
  /\ cache[q].fetch = Asked
  /\ Render([cache EXCEPT ![q] = [Cancelled(@) EXCEPT !.mark = "error"]])
  /\ UNCHANGED <<hist, shown, nav, moves, advancing, deleting, changes, saving, known, others, visits, lapses>>

\* Coming back to the foreground, a reconnection, a pull or the retry button.
Refetch(q) ==
  /\ lapses < MaxLapses /\ Active(q)
  /\ cache[q].fetch = None
  /\ lapses' = lapses + 1
  /\ Render([cache EXCEPT ![q] = Fetching(@)])
  /\ UNCHANGED <<hist, shown, nav, moves, advancing, deleting, changes, saving, known, others, visits>>

\* The minute of staleTime passes.
Expire(q) ==
  /\ lapses < MaxLapses /\ cache[q].mark = "fresh"
  /\ lapses' = lapses + 1
  /\ cache' = [cache EXCEPT ![q].mark = "stale"]
  /\ UNCHANGED <<hist, shown, nav, form, drag, moves, advancing, deleting, changes, saving, known, others, visits>>

\* Somebody else sets a status that no step of this client sets.
OtherClient(t) ==
  /\ others < MaxOther /\ Now(t).status \in Columns
  /\ others' = others + 1
  /\ Written(t, [Now(t) EXCEPT !.status = "CANCELLED"])
  /\ UNCHANGED <<client, moves, changes>>

-----------------------------------------------------------------------------
\* What the phone tells the app of its connection.
Connect ==
  /\ online' = ~online
  /\ UNCHANGED <<hist, client, moves, changes, others>>

User ==
  \/ \E k \in Lists : Search(k)
  \/ \E t \in Tasks : OpenTask(t) \/ LongPress(t)
  \/ OpenEdit \/ OpenCreate \/ Back \/ LetGo
  \/ \E x \in Texts : TypeText(x)
  \/ \E m \in Moves : Advance(m) \/ \E s \in Columns : Drop(m, s)
  \/ \E c \in Changes : SubmitEdit(c) \/ Delete(c) \/ \E t \in Tasks, x \in Texts : SubmitCreate(c, t, x)

MoveStep(m) ==
  /\ UNCHANGED online
  /\ ResumeMove(m) \/ StoreMove(m) \/ RefuseMove(m) \/ ReadMoved(m) \/ MoveDone(m) \/ MoveFailed(m)
ChangeStep(c) ==
  /\ UNCHANGED online
  /\ ResumeChange(c) \/ StoreChange(c) \/ RefuseChange(c) \/ ChangeDone(c) \/ ChangeFailed(c)
FetchStep(q) ==
  /\ UNCHANGED online
  /\ ServerAnswers(q) \/ PauseFetch(q) \/ ResumeFetch(q) \/ FetchDone(q) \/ FetchFailed(q)

Next ==
  \/ \E m \in Moves : MoveStep(m)
  \/ \E c \in Changes : ChangeStep(c)
  \/ \E q \in Queries : FetchStep(q)
  \/ UNCHANGED online /\ (User \/ \E q \in Queries : Refetch(q) \/ Expire(q))
  \/ UNCHANGED online /\ \E t \in Tasks : OtherClient(t)
  \/ Connect

Spec == Init /\ [][Next]_vars

\* Requests on the wire end, with an answer, an error or a timeout, online or
\* not; those that wait go on once there is a connection, and only then.
\* Nobody has to touch the screen.
Fairness ==
  /\ \A m \in Moves : WF_vars(MoveStep(m))
  /\ \A c \in Changes : WF_vars(ChangeStep(c))
  /\ \A q \in Queries : WF_vars(FetchStep(q))
FairSpec == Spec /\ Fairness

-----------------------------------------------------------------------------
(* Properties *)

\* A status the client made up, by an optimistic change or by rolling back
\* to somebody else's optimistic change, is never taken for fresh data once
\* all status mutations have settled: the next look at it refetches.
NoFreshPhantom ==
  Quiet => \A q \in Queries : cache[q].rows # None /\ cache[q].mark = "fresh" =>
             \A t \in Scope(q) : Genuine(t, cache[q].rows[t])

\* Reading your own writes: with no status mutation under way (one cancels
\* the refetches of the lists), a mounted query that is fresh and at rest
\* shows no version older than a write of this client whose answer arrived,
\* unless the invalidation found a first or unmounted fetch under way, which
\* the library joins instead of restarting it.
ReadYourWrites ==
  Quiet => \A q \in Queries :
    Active(q) /\ cache[q].rows # None /\ cache[q].mark = "fresh" /\ Settled(cache[q])
      => \A t \in Scope(q) : cache[q].rows[t].ver >= known[t]

\* A full update carries the cached status.  If it is sent from a detail at
\* rest, with no move under way, and nobody wrote the task since the last own
\* write confirmed before, it leaves the status alone: it never undoes a
\* confirmed own move.  (A rollback that meets a later move, or a detail that
\* could not be refetched, may undo one.)
EditKeepsOwnMoves ==
  \A c \in Changes :
    (/\ changes[c].at = "sent" /\ changes[c].kind = "update"
     /\ changes[c].seen = Len(hist[changes[c].task]))
      => changes[c].value.status = Now(changes[c].task).status

\* Once the connection stays, a made-up status does not stay on the board: the
\* mutation goes on and settles, and the refetch it asks for, waiting or not,
\* replaces the row or gives way to the error.  (Without a connection both
\* wait, and the status stays for as long.)
Phantom(q) ==
  /\ cache[q].rows # None /\ cache[q].mark # "error"
  /\ \E t \in Scope(q) : ~Genuine(t, cache[q].rows[t])
PhantomsResolve == <>[]online => (Phantom(Home) ~> ~Phantom(Home))
=============================================================================
