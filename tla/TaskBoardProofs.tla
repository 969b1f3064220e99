---------------------------- MODULE TaskBoardProofs ----------------------------
(***************************************************************************)
(* Safety of TaskBoard for any tasks, lists, mutations, forms and bounds.  *)
(* BInv is the inductive invariant.                                        *)
(***************************************************************************)
EXTENDS TaskBoard, TLAPS

\* The form is filled in exactly while the edit screen is open.
FormInv ==
  /\ screen = "edit" => form \in Form
  /\ form # None => screen = "edit"

\* Nothing the app holds is newer than what the server has.
Bounded(rows) == rows # None => \A t \in Tasks : rows[t].ver <= Len(hist[t])
VersionInv ==
  /\ \A t \in Tasks : known[t] <= Len(hist[t])
  /\ \A q \in Queries : Bounded(cache[q].rows) /\ (cache[q].fetch \notin {Asked, Waiting} => Bounded(cache[q].fetch))
MoveInv(m) ==
  /\ moves[m].at \in {"paused", "sent", "stored", "failed"} => \A q \in Queries : Bounded(moves[m].back[q])
  /\ moves[m].at = "read" => moves[m].row.ver <= Len(hist[moves[m].task])

\* Rows as the server had them, and no older than the own writes known.
Real(q, rows) == \A t \in Scope(q) : Genuine(t, rows[t])
UpToDate(q, rows) == \A t \in Scope(q) : rows[t].ver >= known[t]

\* An answer on its way is real, and up to date unless it was joined.
FetchInv ==
  \A q \in Queries : cache[q].fetch \notin {None, Asked, Waiting} =>
    /\ Real(q, cache[q].fetch)
    /\ cache[q].joined # "fetch" => UpToDate(q, cache[q].fetch)

\* With no move under way fresh rows are real, and up to date unless their
\* fetch was joined; and so are the stale ones of an open detail that is not
\* being fetched.
OpenDetail(q) == q = open /\ screen \in {"detail", "edit"}
RestInv ==
  Quiet => \A q \in Queries : cache[q].rows # None =>
    /\ cache[q].mark = "fresh" =>
         /\ Real(q, cache[q].rows)
         /\ cache[q].joined = "no" => UpToDate(q, cache[q].rows)
    /\ OpenDetail(q) /\ Settled(cache[q]) => Real(q, cache[q].rows) /\ UpToDate(q, cache[q].rows)

\* What an update claims to have seen is no newer than what there is, and is
\* what it carries if it is all there is.
ChangeInv(c) ==
  /\ changes[c].at \in {"paused", "sent"} =>
       /\ changes[c].seen <= Len(hist[changes[c].task])
       /\ changes[c].kind = "update" /\ changes[c].seen = Len(hist[changes[c].task])
            => changes[c].value.status = Now(changes[c].task).status
  /\ changes[c].at = "stored" => changes[c].row.ver <= Len(hist[changes[c].task])

BInv ==
  /\ Typed /\ FormInv /\ VersionInv /\ FetchInv /\ RestInv
  /\ \A m \in Moves : MoveInv(m)
  /\ \A c \in Changes : ChangeInv(c)

-----------------------------------------------------------------------------
(* The server and its answers *)

LEMMA Basics ==
  /\ Home \in Lists /\ Home \in Queries /\ None \notin Queries /\ Asked # None /\ Waiting # None
  /\ \A k \in Lists : k \in Queries /\ k \notin Tasks
  /\ \A t \in Tasks : t \in Queries /\ t \notin Lists /\ Scope(t) = {t}
  /\ \A q \in Queries : Scope(q) \subseteq Tasks
  /\ Columns \subseteq Status /\ Status \subseteq Status \cup {Gone}
  /\ Blank \in Row
BY HomeIsAList, QueriesAreDistinct, FetchesAreDistinct DEF Queries, Scope, Columns, Status, Gone, Blank, Row

LEMMA HistTyped ==
  ASSUME Typed, NEW t \in Tasks
  PROVE  /\ hist[t] \in Seq(Value) /\ Len(hist[t]) \in Nat /\ Len(hist[t]) >= 1
         /\ Now(t) \in Value
         /\ \A i \in 1..Len(hist[t]) : hist[t][i] \in Value
<1>1. hist[t] \in Seq(Value) /\ hist[t] # <<>> BY DEF Typed
<1>2. Len(hist[t]) \in Nat /\ Len(hist[t]) >= 1 BY <1>1
<1>3. \A i \in 1..Len(hist[t]) : hist[t][i] \in Value BY <1>1
<1> QED BY <1>1, <1>2, <1>3 DEF Now

LEMMA RowOfTyped ==
  ASSUME Typed, NEW t \in Tasks
  PROVE  /\ RowOf(t) \in Row /\ RowOf(t).ver = Len(hist[t])
         /\ Genuine(t, RowOf(t))
<1>1. Now(t) \in [status : Status \cup {Gone}, text : Texts \cup {None}] /\ Len(hist[t]) \in Nat
  BY HistTyped DEF Value
<1>2. RowOf(t) \in Row /\ RowOf(t).ver = Len(hist[t]) BY <1>1 DEF RowOf, Row
<1>3. RowOf(t).status = Now(t).status /\ RowOf(t).text = Now(t).text BY DEF RowOf
<1>4. Now(t) = [status |-> RowOf(t).status, text |-> RowOf(t).text] BY <1>1, <1>3
<1>5. Genuine(t, RowOf(t)) BY <1>2, <1>4 DEF Genuine, Now
<1> QED BY <1>2, <1>5

\* What the server answers is its current state.
LEMMA AnswerTyped ==
  ASSUME Typed, NEW q \in Queries
  PROVE  /\ Answer(q) \in [Tasks -> Row]
         /\ Real(q, Answer(q)) /\ Bounded(Answer(q))
         /\ \A t \in Scope(q) : Answer(q)[t].ver = Len(hist[t])
<1>1. \A t \in Tasks : /\ RowOf(t) \in Row /\ RowOf(t).ver = Len(hist[t]) /\ Genuine(t, RowOf(t))
                       /\ Len(hist[t]) \in Nat
  <2> SUFFICES ASSUME NEW t \in Tasks
               PROVE  /\ RowOf(t) \in Row /\ RowOf(t).ver = Len(hist[t]) /\ Genuine(t, RowOf(t))
                      /\ Len(hist[t]) \in Nat
    OBVIOUS
  <2> QED BY RowOfTyped, HistTyped
<1>2. Answer(q) \in [Tasks -> Row]
  <2>1. \A t \in Tasks : (IF t \in Scope(q) THEN RowOf(t) ELSE Blank) \in Row BY <1>1, Basics
  <2> QED BY <2>1 DEF Answer
<1>3. \A t \in Scope(q) : Answer(q)[t] = RowOf(t)
  <2> SUFFICES ASSUME NEW t \in Scope(q) PROVE Answer(q)[t] = RowOf(t) OBVIOUS
  <2>1. t \in Tasks BY Basics
  <2> QED BY <2>1 DEF Answer
<1>4. \A t \in Tasks : Answer(q)[t].ver <= Len(hist[t])
  <2> SUFFICES ASSUME NEW t \in Tasks PROVE Answer(q)[t].ver <= Len(hist[t]) OBVIOUS
  <2>1. Answer(q)[t] \in {RowOf(t), Blank} BY DEF Answer
  <2>2. Blank.ver = 0 BY DEF Blank
  <2> QED BY <1>1, <2>1, <2>2
<1> QED BY <1>1, <1>2, <1>3, <1>4, Basics DEF Real, Bounded

\* A write on the server appends.
LEMMA WrittenGrows ==
  ASSUME Typed, NEW t \in Tasks, NEW v \in Value, Written(t, v)
  PROVE  /\ hist' \in [Tasks -> Seq(Value)] /\ \A u \in Tasks : hist'[u] # <<>>
         /\ \A u \in Tasks : u # t => hist'[u] = hist[u]
         /\ Len(hist'[t]) = Len(hist[t]) + 1
         /\ hist'[t][Len(hist[t]) + 1] = v
         /\ \A i \in 1..Len(hist[t]) : hist'[t][i] = hist[t][i]
<1>1. hist[t] \in Seq(Value) /\ \A u \in Tasks : hist[u] \in Seq(Value) /\ hist[u] # <<>> BY DEF Typed
<1>2. hist' = [hist EXCEPT ![t] = Append(hist[t], v)] /\ hist \in [Tasks -> Seq(Value)]
  BY DEF Written, Typed
<1>3. Append(hist[t], v) \in Seq(Value) BY <1>1
<1>4. Len(Append(hist[t], v)) = Len(hist[t]) + 1 /\ Len(hist[t]) \in Nat BY <1>1
<1>5. Append(hist[t], v) # <<>> BY <1>1, <1>4
<1>6. \A i \in 1..Len(hist[t]) : Append(hist[t], v)[i] = hist[t][i] BY <1>1
<1>7. Append(hist[t], v)[Len(hist[t]) + 1] = v BY <1>1
<1>8. hist'[t] = Append(hist[t], v) /\ \A u \in Tasks : u # t => hist'[u] = hist[u] BY <1>2
<1>9. hist' \in [Tasks -> Seq(Value)] BY <1>2, <1>3
<1>10. \A u \in Tasks : hist'[u] # <<>> BY <1>1, <1>5, <1>8
<1> QED BY <1>4, <1>6, <1>7, <1>8, <1>9, <1>10

\* The past stays.
Grown == /\ hist' \in [Tasks -> Seq(Value)]
         /\ \A t \in Tasks : /\ hist'[t] # <<>> /\ Len(hist[t]) <= Len(hist'[t])
                             /\ \A i \in 1..Len(hist[t]) : hist'[t][i] = hist[t][i]

LEMMA WrittenGrown ==
  ASSUME Typed, NEW t \in Tasks, NEW v \in Value, Written(t, v)
  PROVE  Grown
<1>1. \A u \in Tasks : Len(hist[u]) \in Nat BY HistTyped
<1>2. \A u \in Tasks : Len(hist[u]) <= Len(hist'[u]) BY <1>1, WrittenGrows
<1> QED BY <1>2, WrittenGrows DEF Grown

LEMMA SameGrown ==
  ASSUME Typed, hist' = hist
  PROVE  Grown
<1>1. \A u \in Tasks : Len(hist[u]) \in Nat /\ hist[u] # <<>> BY HistTyped DEF Typed
<1> QED BY <1>1 DEF Grown, Typed

\* A real row that is no newer than the server stays real.
LEMMA GenuineStays ==
  ASSUME Typed, Grown, NEW t \in Tasks, NEW row \in Row, row.ver <= Len(hist[t]), Genuine(t, row)
  PROVE  Genuine(t, row)' /\ row.ver <= Len(hist'[t])
<1>1. Len(hist[t]) \in Nat /\ row.ver \in Nat BY HistTyped DEF Row
<1>2. Len(hist'[t]) \in Nat BY DEF Grown
<1>3. row.ver = 0 \/ row.ver \in 1..Len(hist[t]) BY <1>1
<1>4. row.ver <= Len(hist'[t]) BY <1>1, <1>2 DEF Grown
<1>5. CASE row.ver = 0 BY <1>5, <1>4 DEF Genuine
<1>6. CASE row.ver \in 1..Len(hist[t]) BY <1>6, <1>4, <1>1 DEF Genuine, Grown
<1> QED BY <1>3, <1>5, <1>6

-----------------------------------------------------------------------------
(* The query library *)

LEMMA EntryTypes ==
  ASSUME NEW e \in Entries
  PROVE  /\ Fetching(e) \in Entries /\ Mounted(e) \in Entries /\ Cancelled(e) \in Entries
         /\ \A rows \in Rows : Put(e, rows) \in Entries
         /\ \A active \in BOOLEAN : Invalidated(e, active) \in Entries
<1> DEFINE R == Rows
<1>1. Entries = [rows : R, mark : {"fresh", "stale", "error"}, fetch : R \cup {Asked, Waiting},
                 joined : {"no", "fetch", "rows"}]
  BY DEF Entries
<1>2. None \in R BY DEF Rows
<1> HIDE DEF R
<1>3. Fetching(e) \in Entries BY <1>1 DEF Fetching, Predates
<1>4. Cancelled(e) \in Entries BY <1>1, <1>2 DEF Cancelled, Predates
<1>5. \A rows \in R : Put(e, rows) \in Entries BY <1>1 DEF Put
<1>6. Mounted(e) \in Entries BY <1>3 DEF Mounted
<1>7. [e EXCEPT !.mark = IF @ = "error" THEN @ ELSE "stale"] \in Entries BY <1>1
<1>8. \A active \in BOOLEAN : Invalidated(e, active) \in Entries
  BY <1>1, <1>7 DEF Invalidated, Fetching, Predates
<1> QED BY <1>3, <1>4, <1>5, <1>6, <1>8 DEF R

\* After an invalidation nothing is fresh, a mounted query that has rows is
\* fetched, and an answer on its way to another one is joined.
LEMMA Invalidation ==
  ASSUME NEW e \in Entries, NEW active \in BOOLEAN
  PROVE  LET i == Invalidated(e, active)
         IN  /\ i \in Entries /\ i.rows = e.rows /\ i.mark # "fresh"
             /\ i.fetch \in {e.fetch, Asked, Waiting}
             /\ i.fetch \notin {None, Asked, Waiting} => i.joined = "fetch"
             /\ active /\ i.rows # None => i.fetch \in {Asked, Waiting}
BY DEF Entries, Invalidated, Fetching, Predates, Rows

\* A mutation holds what its stage says.
LEMMA MoveKinds ==
  ASSUME Typed, NEW m \in Moves
  PROVE  /\ moves[m].at \in {"paused", "sent", "stored", "failed"} =>
              /\ moves[m].task \in Tasks /\ moves[m].status \in Columns
              /\ moves[m].back \in [Queries -> Rows]
              /\ moves[m] \in [at : {"paused", "sent", "stored", "failed"}, task : Tasks, status : Columns,
                               back : [Queries -> Rows]]
         /\ moves[m].at = "read" => moves[m].task \in Tasks /\ moves[m].row \in Row
<1>1. moves[m] \in MoveStates BY DEF Typed
<1> QED BY <1>1 DEF MoveStates, Idle

LEMMA ChangeKinds ==
  ASSUME Typed, NEW c \in Changes
  PROVE  /\ changes[c].at \in {"paused", "sent"} =>
              /\ changes[c].kind \in {"create", "update", "delete"} /\ changes[c].task \in Tasks
              /\ changes[c].value \in Value /\ changes[c].seen \in Nat
         /\ changes[c].at = "stored" =>
              /\ changes[c].kind \in {"create", "update", "delete"} /\ changes[c].task \in Tasks
              /\ changes[c].row \in Row
<1>1. changes[c] \in ChangeStates BY DEF Typed
<1> QED BY <1>1 DEF ChangeStates, Idle

\* What the app holds of the server stays as good as it was when the server
\* goes on, as long as the cache and what it knows stay.
LEMMA HeldStays ==
  ASSUME BInv, Grown, UNCHANGED <<cache, known>>
  PROVE  /\ \A t \in Tasks : known'[t] <= Len(hist'[t])
         /\ \A q \in Queries : Bounded(cache[q].rows)' /\ (cache[q].fetch \notin {Asked, Waiting} => Bounded(cache[q].fetch))'
         /\ FetchInv'
<1>1. \A t \in Tasks : /\ Len(hist[t]) \in Nat /\ Len(hist'[t]) \in Nat /\ Len(hist[t]) <= Len(hist'[t])
                       /\ known[t] \in Nat
  BY HistTyped DEF Grown, BInv, Typed
<1>2. \A q \in Queries : cache[q] \in Entries /\ cache'[q] = cache[q] BY DEF BInv, Typed
<1>3. ASSUME NEW rows \in Rows, Bounded(rows) PROVE Bounded(rows)'
  <2>1. SUFFICES ASSUME rows # None, NEW t \in Tasks PROVE rows[t].ver <= Len(hist'[t])
    BY DEF Bounded
  <2>2. rows[t] \in Row /\ rows[t].ver <= Len(hist[t]) BY <1>3, <2>1 DEF Bounded, Rows
  <2> QED BY <2>2, <1>1 DEF Row
<1>4. \A q \in Queries : Bounded(cache[q].rows)' /\ (cache[q].fetch \notin {Asked, Waiting} => Bounded(cache[q].fetch))'
  BY <1>2, <1>3 DEF BInv, VersionInv, Entries, Bounded
<1>5. FetchInv'
  <2>1. SUFFICES ASSUME NEW q \in Queries, cache[q].fetch \notin {None, Asked, Waiting}
                 PROVE  /\ Real(q, cache[q].fetch)'
                        /\ cache[q].joined # "fetch" => UpToDate(q, cache[q].fetch)'
    BY <1>2 DEF FetchInv
  <2>2. cache[q].fetch \in [Tasks -> Row] BY <1>2, <2>1 DEF Entries, Rows
  <2>3. \A t \in Scope(q) : /\ t \in Tasks /\ cache[q].fetch[t] \in Row
                            /\ cache[q].fetch[t].ver <= Len(hist[t]) /\ Genuine(t, cache[q].fetch[t])
    BY <2>1, <2>2, Basics DEF BInv, VersionInv, FetchInv, Bounded, Real
  <2>4. \A t \in Scope(q) : Genuine(t, cache[q].fetch[t])'
    BY <1>2, <2>3, GenuineStays DEF BInv
  <2> QED BY <2>1, <2>4 DEF BInv, FetchInv, Real, UpToDate
<1>6. \A t \in Tasks : known'[t] <= Len(hist'[t]) BY <1>1 DEF BInv, VersionInv
<1> QED BY <1>4, <1>5, <1>6

\* The rows at rest stay real when the server goes on, too.
LEMMA RestStays ==
  ASSUME BInv, Grown, UNCHANGED <<cache, known>>,
         Quiet' => Quiet, \A q \in Queries : OpenDetail(q)' => OpenDetail(q)
  PROVE  RestInv'
<1>1. SUFFICES ASSUME Quiet, NEW q \in Queries, cache[q].rows # None
               PROVE  /\ cache[q].mark = "fresh" =>
                           /\ Real(q, cache[q].rows)'
                           /\ cache[q].joined = "no" => UpToDate(q, cache[q].rows)'
                      /\ OpenDetail(q)' /\ Settled(cache[q])' => Real(q, cache[q].rows)' /\ UpToDate(q, cache[q].rows)'
  BY DEF RestInv
<1>2. cache[q].rows \in [Tasks -> Row] BY <1>1 DEF BInv, Typed, Entries, Rows
<1>3. \A t \in Scope(q) : t \in Tasks /\ cache[q].rows[t] \in Row
  BY <1>2, Basics
<1>4. \A t \in Scope(q) : cache[q].rows[t].ver <= Len(hist[t])
  BY <1>1, <1>3 DEF BInv, VersionInv, Bounded
<1> QED BY <1>1, <1>3, <1>4, GenuineStays DEF BInv, RestInv, Real, UpToDate, Settled

\* A mutation that stays as it is stays in order when the server goes on.
LEMMA MoveStays ==
  ASSUME BInv, Grown, NEW m \in Moves, moves'[m] = moves[m]
  PROVE  MoveInv(m)'
<1>1. \A t \in Tasks : Len(hist[t]) \in Nat /\ Len(hist'[t]) \in Nat /\ Len(hist[t]) <= Len(hist'[t])
  BY HistTyped DEF Grown, BInv
<1>2. CASE moves[m].at = "read"
  <2>1. moves[m].task \in Tasks /\ moves[m].row.ver \in Nat BY <1>2, MoveKinds DEF BInv, Row
  <2>2. moves[m].row.ver <= Len(hist[moves[m].task]) BY <1>2 DEF BInv, MoveInv
  <2> QED BY <1>1, <1>2, <2>1, <2>2 DEF MoveInv
<1>3. CASE moves[m].at \in {"paused", "sent", "stored", "failed"}
  <2>1. moves[m].back \in [Queries -> Rows] BY <1>3, MoveKinds DEF BInv
  <2>2. SUFFICES ASSUME NEW q \in Queries, moves[m].back[q] # None, NEW t \in Tasks
                 PROVE  moves[m].back[q][t].ver <= Len(hist'[t])
    BY <1>3 DEF MoveInv, Bounded
  <2>3. moves[m].back[q][t] \in Row BY <2>1, <2>2 DEF Rows
  <2>4. moves[m].back[q][t].ver <= Len(hist[t]) BY <1>3, <2>2 DEF BInv, MoveInv, Bounded
  <2> QED BY <2>3, <2>4, <1>1 DEF Row
<1> QED BY <1>2, <1>3 DEF MoveInv

\* The server goes on by whole writes: an update that has seen everything has
\* then not seen everything any more.
Advanced == \A t \in Tasks : hist'[t] = hist[t] \/ Len(hist[t]) < Len(hist'[t])

LEMMA ChangeStays ==
  ASSUME BInv, Grown, Advanced, NEW c \in Changes, changes'[c] = changes[c]
  PROVE  ChangeInv(c)'
<1>1. \A t \in Tasks : Len(hist[t]) \in Nat /\ Len(hist'[t]) \in Nat /\ Len(hist[t]) <= Len(hist'[t])
  BY HistTyped DEF Grown, BInv
<1>2. CASE changes[c].at \in {"paused", "sent"}
  <2> DEFINE t == changes[c].task
  <2>1. t \in Tasks /\ changes[c].seen \in Nat BY <1>2, ChangeKinds DEF BInv
  <2>2. changes[c].seen <= Len(hist[t]) BY <1>2 DEF BInv, ChangeInv
  <2>3. CASE hist'[t] = hist[t] BY <1>2, <2>1, <2>3 DEF BInv, ChangeInv, Now
  <2>4. CASE Len(hist[t]) < Len(hist'[t]) BY <1>1, <1>2, <2>1, <2>2, <2>4 DEF ChangeInv
  <2> QED BY <2>1, <2>3, <2>4 DEF Advanced
<1>3. CASE changes[c].at = "stored"
  <2>1. changes[c].task \in Tasks /\ changes[c].row.ver \in Nat BY <1>3, ChangeKinds DEF BInv, Row
  <2>2. changes[c].row.ver <= Len(hist[changes[c].task]) BY <1>3 DEF BInv, ChangeInv
  <2> QED BY <1>1, <1>3, <2>1, <2>2 DEF ChangeInv
<1> QED BY <1>2, <1>3 DEF ChangeInv

LEMMA SameAdvances ==
  ASSUME Typed, hist' = hist
  PROVE  Grown /\ Advanced
BY SameGrown DEF Advanced

LEMMA WrittenAdvances ==
  ASSUME Typed, NEW t \in Tasks, NEW v \in Value, Written(t, v)
  PROVE  Grown /\ Advanced
<1>1. \A u \in Tasks : Len(hist[u]) \in Nat BY HistTyped
<1>2. Advanced BY <1>1, WrittenGrows DEF Advanced
<1> QED BY <1>2, WrittenGrown

\* A step of the server or of one mutation, behind the back of the app.
LEMMA BehindTheBack ==
  ASSUME BInv, Grown, Advanced, UNCHANGED client, Quiet' => Quiet, others' \in 0..MaxOther,
         moves' \in [Moves -> MoveStates], changes' \in [Changes -> ChangeStates],
         \A m \in Moves : moves'[m] = moves[m] \/ MoveInv(m)',
         \A c \in Changes : changes'[c] = changes[c] \/ ChangeInv(c)'
  PROVE  BInv'
<1>1. /\ UNCHANGED <<cache, known>> /\ screen' = screen /\ open' = open /\ form' = form /\ drag' = drag
      /\ shown' = shown /\ advancing' = advancing /\ deleting' = deleting /\ saving' = saving
      /\ visits' = visits /\ lapses' = lapses
  BY DEF client, nav
<1>2. Typed' BY <1>1 DEF BInv, Typed, Grown
<1>3. FormInv' BY <1>1 DEF BInv, FormInv
<1>4. VersionInv' /\ FetchInv' BY <1>1, HeldStays DEF VersionInv
<1>5. RestInv'
  <2>1. \A q \in Queries : OpenDetail(q)' => OpenDetail(q) BY <1>1 DEF OpenDetail
  <2> QED BY <1>1, <2>1, RestStays
<1>6. \A m \in Moves : MoveInv(m)' BY MoveStays
<1>7. \A c \in Changes : ChangeInv(c)' BY ChangeStays
<1> QED BY <1>2, <1>3, <1>4, <1>5, <1>6, <1>7 DEF BInv

\* Mutations under way or not.
LEMMA StillBusy ==
  ASSUME NEW m \in Moves, moves'[m].at \notin {"idle", "settled"}
  PROVE  ~Quiet'
BY DEF Quiet

LEMMA ResumeMoveBInv ==
  ASSUME BInv, NEW m \in Moves, ResumeMove(m)
  PROVE  BInv'
<1>1. /\ moves[m].at = "paused" /\ moves' = [moves EXCEPT ![m].at = "sent"]
      /\ UNCHANGED <<hist, client, changes, others>>
  BY DEF ResumeMove
<1>2. moves \in [Moves -> MoveStates]
      /\ moves[m] \in [at : {"paused", "sent", "stored", "failed"}, task : Tasks, status : Columns, back : [Queries -> Rows]]
  BY <1>1, MoveKinds DEF BInv, Typed
<1>3. [moves[m] EXCEPT !.at = "sent"] \in MoveStates BY <1>2 DEF MoveStates
<1>4. moves' \in [Moves -> MoveStates] /\ moves'[m].at = "sent" /\ moves'[m].back = moves[m].back
  BY <1>1, <1>2, <1>3
<1>5. ~Quiet' BY <1>4, StillBusy
<1>6. MoveInv(m)' BY <1>1, <1>4 DEF BInv, MoveInv, Bounded
<1>7. \A n \in Moves : moves'[n] = moves[n] \/ MoveInv(n)' BY <1>1, <1>2, <1>6
<1>8. Grown /\ Advanced BY <1>1, SameAdvances DEF BInv
<1>9. changes' = changes /\ others' \in 0..MaxOther /\ changes' \in [Changes -> ChangeStates]
  BY <1>1 DEF BInv, Typed
<1> QED BY <1>1, <1>4, <1>5, <1>7, <1>8, <1>9, BehindTheBack

LEMMA ResumeChangeBInv ==
  ASSUME BInv, NEW c \in Changes, ResumeChange(c)
  PROVE  BInv'
<1> DEFINE s == [changes[c] EXCEPT !.at = "sent"]
<1>1. changes[c].at = "paused" /\ changes' = [changes EXCEPT ![c] = s] /\ UNCHANGED <<hist, client, moves, others>>
  BY DEF ResumeChange
<1>2. changes \in [Changes -> ChangeStates] BY DEF BInv, Typed
<1>3. s \in ChangeStates /\ s.at = "sent" /\ s.seen = changes[c].seen /\ s.kind = changes[c].kind
      /\ s.task = changes[c].task /\ s.value = changes[c].value
  BY <1>1, <1>2 DEF ChangeStates, Idle
<1> HIDE DEF s
<1>4. changes' \in [Changes -> ChangeStates] /\ changes'[c] = s /\ \A d \in Changes : d # c => changes'[d] = changes[d]
  BY <1>1, <1>2, <1>3
<1>5. ChangeInv(c)' BY <1>1, <1>3, <1>4 DEF BInv, ChangeInv, Now
<1>6. \A d \in Changes : changes'[d] = changes[d] \/ ChangeInv(d)' BY <1>4, <1>5
<1>7. moves' = moves /\ (Quiet' => Quiet) /\ others' \in 0..MaxOther /\ moves' \in [Moves -> MoveStates]
  BY <1>1 DEF BInv, Typed, Quiet
<1>8. Grown /\ Advanced BY <1>1, SameAdvances DEF BInv
<1> QED BY <1>1, <1>4, <1>6, <1>7, <1>8, BehindTheBack

\* A connection that comes or goes changes nothing else.
LEMMA ConnectBInv ==
  ASSUME BInv, Connect
  PROVE  BInv'
<1>1. UNCHANGED <<hist, client, moves, changes, others>> BY DEF Connect
<1>2. moves' = moves /\ changes' = changes /\ others' \in 0..MaxOther /\ (Quiet' => Quiet)
      /\ changes' \in [Changes -> ChangeStates] /\ moves' \in [Moves -> MoveStates]
  BY <1>1 DEF BInv, Typed, Quiet
<1>3. Grown /\ Advanced BY <1>1, SameAdvances DEF BInv
<1> QED BY <1>1, <1>2, <1>3, BehindTheBack

LEMMA StoreMoveBInv ==
  ASSUME BInv, NEW m \in Moves, StoreMove(m)
  PROVE  BInv'
<1> DEFINE t == moves[m].task
           v == [Now(t) EXCEPT !.status = moves[m].status]
<1>1. moves[m].at = "sent" /\ Written(t, v) /\ UNCHANGED <<client, changes, others>> BY DEF StoreMove
<1>2. PICK at \in {"stored", "failed"} : moves' = [moves EXCEPT ![m].at = at] BY DEF StoreMove
<1>3. t \in Tasks /\ moves[m].status \in Columns /\ moves \in [Moves -> MoveStates]
      /\ moves[m] \in [at : {"paused", "sent", "stored", "failed"}, task : Tasks, status : Columns, back : [Queries -> Rows]]
  BY <1>1, MoveKinds DEF BInv, Typed
<1>4. v \in Value BY <1>3, HistTyped, Basics DEF BInv, Value
<1>5. Grown /\ Advanced BY <1>1, <1>3, <1>4, WrittenAdvances DEF BInv
<1>6. [moves[m] EXCEPT !.at = at] \in MoveStates BY <1>3 DEF MoveStates
<1>7. moves' \in [Moves -> MoveStates] BY <1>2, <1>3, <1>6
<1>8. ~Quiet' BY <1>2, <1>3, StillBusy
<1>9. MoveInv(m)'
  <2>1. moves'[m].at = at /\ moves'[m].back = moves[m].back BY <1>2, <1>3
  <2>2. SUFFICES ASSUME NEW q \in Queries, moves[m].back[q] # None, NEW u \in Tasks
                 PROVE  moves[m].back[q][u].ver <= Len(hist'[u])
    BY <2>1 DEF MoveInv, Bounded
  <2>3. moves[m].back[q][u] \in Row BY <1>3, <2>2 DEF Rows
  <2>4. moves[m].back[q][u].ver <= Len(hist[u]) BY <1>1, <2>2 DEF BInv, MoveInv, Bounded
  <2>5. Len(hist[u]) \in Nat /\ Len(hist'[u]) \in Nat /\ Len(hist[u]) <= Len(hist'[u])
    BY <1>5, HistTyped DEF Grown, BInv
  <2> QED BY <2>3, <2>4, <2>5 DEF Row
<1>10. \A n \in Moves : moves'[n] = moves[n] \/ MoveInv(n)' BY <1>2, <1>3, <1>9
<1>11. changes' = changes /\ others' \in 0..MaxOther /\ changes' \in [Changes -> ChangeStates]
  BY <1>1 DEF BInv, Typed
<1> QED BY <1>1, <1>5, <1>7, <1>8, <1>10, <1>11, BehindTheBack

LEMMA RefuseMoveBInv ==
  ASSUME BInv, NEW m \in Moves, RefuseMove(m)
  PROVE  BInv'
<1>1. moves[m].at = "sent" /\ moves' = [moves EXCEPT ![m].at = "failed"] /\ UNCHANGED <<hist, client, changes, others>>
  BY DEF RefuseMove
<1>2. moves \in [Moves -> MoveStates]
      /\ moves[m] \in [at : {"paused", "sent", "stored", "failed"}, task : Tasks, status : Columns, back : [Queries -> Rows]]
  BY <1>1, MoveKinds DEF BInv, Typed
<1>3. [moves[m] EXCEPT !.at = "failed"] \in MoveStates BY <1>2 DEF MoveStates
<1>4. moves' \in [Moves -> MoveStates] /\ moves'[m].at = "failed" /\ moves'[m].back = moves[m].back
  BY <1>1, <1>2, <1>3
<1>5. ~Quiet' BY <1>4, StillBusy
<1>6. MoveInv(m)' BY <1>1, <1>4 DEF BInv, MoveInv, Bounded
<1>7. \A n \in Moves : moves'[n] = moves[n] \/ MoveInv(n)' BY <1>1, <1>2, <1>6
<1>8. Grown /\ Advanced BY <1>1, SameAdvances DEF BInv
<1>9. changes' = changes /\ others' \in 0..MaxOther /\ changes' \in [Changes -> ChangeStates]
  BY <1>1 DEF BInv, Typed
<1> QED BY <1>1, <1>4, <1>5, <1>7, <1>8, <1>9, BehindTheBack

LEMMA ReadMovedBInv ==
  ASSUME BInv, NEW m \in Moves, ReadMoved(m)
  PROVE  BInv'
<1> DEFINE t == moves[m].task
<1>1. moves[m].at = "stored" /\ UNCHANGED <<hist, client, changes, others>> BY DEF ReadMoved
<1>2. moves \in [Moves -> MoveStates] /\ t \in Tasks
      /\ moves[m] \in [at : {"paused", "sent", "stored", "failed"}, task : Tasks, status : Columns, back : [Queries -> Rows]]
  BY <1>1, MoveKinds DEF BInv, Typed
<1>3. RowOf(t) \in Row /\ RowOf(t).ver = Len(hist[t]) /\ Len(hist[t]) \in Nat
  BY <1>2, RowOfTyped, HistTyped DEF BInv
<1>4. PICK s : /\ moves' = [moves EXCEPT ![m] = s]
               /\ s \in {[at |-> "read", task |-> t, row |-> RowOf(t)], [moves[m] EXCEPT !.at = "failed"]}
  BY DEF ReadMoved
<1>5. s \in MoveStates /\ s.at \notin {"idle", "settled"} BY <1>2, <1>3, <1>4 DEF MoveStates
<1>6. moves' \in [Moves -> MoveStates] /\ moves'[m] = s BY <1>2, <1>4, <1>5
<1>7. ~Quiet' BY <1>5, <1>6, StillBusy
<1>8. MoveInv(m)'
  <2>1. CASE s = [at |-> "read", task |-> t, row |-> RowOf(t)]
    BY <1>1, <1>3, <1>6, <2>1 DEF MoveInv
  <2>2. CASE s = [moves[m] EXCEPT !.at = "failed"]
    <3>1. s.at = "failed" /\ s.back = moves[m].back BY <1>2, <2>2
    <3> QED BY <1>1, <1>6, <3>1 DEF BInv, MoveInv, Bounded
  <2> QED BY <1>4, <2>1, <2>2
<1>9. \A n \in Moves : moves'[n] = moves[n] \/ MoveInv(n)' BY <1>2, <1>4, <1>8
<1>10. Grown /\ Advanced BY <1>1, SameAdvances DEF BInv
<1>11. changes' = changes /\ others' \in 0..MaxOther /\ changes' \in [Changes -> ChangeStates]
  BY <1>1 DEF BInv, Typed
<1> QED BY <1>1, <1>6, <1>7, <1>9, <1>10, <1>11, BehindTheBack

LEMMA OtherClientBInv ==
  ASSUME BInv, NEW t \in Tasks, OtherClient(t)
  PROVE  BInv'
<1> DEFINE v == [Now(t) EXCEPT !.status = "CANCELLED"]
<1>1. Written(t, v) /\ UNCHANGED <<client, moves, changes>> /\ others < MaxOther /\ others' = others + 1
  BY DEF OtherClient
<1>2. v \in Value BY HistTyped DEF BInv, Value, Status
<1>3. Grown /\ Advanced BY <1>1, <1>2, WrittenAdvances DEF BInv
<1>4. moves' = moves /\ changes' = changes /\ others' \in 0..MaxOther /\ (Quiet' => Quiet)
      /\ changes' \in [Changes -> ChangeStates] /\ moves' \in [Moves -> MoveStates]
  BY <1>1, Bounds DEF BInv, Typed, Quiet
<1> QED BY <1>1, <1>3, <1>4, BehindTheBack

LEMMA StoreChangeBInv ==
  ASSUME BInv, NEW c \in Changes, StoreChange(c)
  PROVE  BInv'
<1> DEFINE t == changes[c].task
           v == changes[c].value
           done == [at |-> "stored", kind |-> changes[c].kind, task |-> t,
                    row |-> [status |-> v.status, text |-> v.text, ver |-> Len(hist[t]) + 1]]
<1>1. changes[c].at = "sent" /\ Written(t, v) /\ UNCHANGED <<client, moves, others>> BY DEF StoreChange
<1>2. PICK s \in {[at |-> "failed"], done} : changes' = [changes EXCEPT ![c] = s] BY DEF StoreChange
<1>3. t \in Tasks /\ v \in Value /\ changes[c].kind \in {"create", "update", "delete"}
      /\ changes \in [Changes -> ChangeStates]
  BY <1>1, ChangeKinds DEF BInv, Typed
<1>4. Grown /\ Advanced BY <1>1, <1>3, WrittenAdvances DEF BInv
<1>5. Len(hist'[t]) = Len(hist[t]) + 1 /\ Len(hist[t]) \in Nat BY <1>1, <1>3, WrittenGrows, HistTyped DEF BInv
<1>6. s \in ChangeStates BY <1>2, <1>3, <1>5 DEF ChangeStates, Row, Value
<1>7. changes' \in [Changes -> ChangeStates] /\ changes'[c] = s BY <1>2, <1>3, <1>6
<1>8. ChangeInv(c)' BY <1>2, <1>5, <1>7 DEF ChangeInv
<1>9. \A d \in Changes : changes'[d] = changes[d] \/ ChangeInv(d)' BY <1>2, <1>3, <1>8
<1>10. moves' = moves /\ (Quiet' => Quiet) /\ others' \in 0..MaxOther /\ moves' \in [Moves -> MoveStates]
  BY <1>1 DEF BInv, Typed, Quiet
<1> QED BY <1>1, <1>4, <1>7, <1>9, <1>10, BehindTheBack

\* A refusal, and its end on the screen.
LEMMA ChangeOverBInv ==
  ASSUME BInv, NEW c \in Changes, RefuseChange(c) \/ ChangeFailed(c)
  PROVE  BInv'
<1>1. PICK s \in {[at |-> "failed"], [at |-> "settled"]} : changes' = [changes EXCEPT ![c] = s]
  BY DEF RefuseChange, ChangeFailed
<1>2. UNCHANGED <<hist, client, moves, others>> BY DEF RefuseChange, ChangeFailed
<1>3. changes \in [Changes -> ChangeStates] /\ s \in ChangeStates BY <1>1 DEF BInv, Typed, ChangeStates
<1>4. changes' \in [Changes -> ChangeStates] /\ changes'[c] = s BY <1>1, <1>3
<1>5. ChangeInv(c)' BY <1>1, <1>4 DEF ChangeInv
<1>6. \A d \in Changes : changes'[d] = changes[d] \/ ChangeInv(d)' BY <1>1, <1>3, <1>5
<1>7. moves' = moves /\ (Quiet' => Quiet) /\ others' \in 0..MaxOther /\ moves' \in [Moves -> MoveStates]
  BY <1>2 DEF BInv, Typed, Quiet
<1>8. Grown /\ Advanced BY <1>2, SameAdvances DEF BInv
<1> QED BY <1>2, <1>4, <1>6, <1>7, <1>8, BehindTheBack

-----------------------------------------------------------------------------
(* The screens *)

LEMMA DragFollows ==
  ASSUME Typed, NEW e, drag' = Followed(e)
  PROVE  drag' \in [task : Tasks, source : Columns] \cup {None}
BY DEF Typed, Followed

LEMMA FormFollows ==
  ASSUME Typed, FormInv, NEW c \in [Queries -> Entries],
         form' = IF form = None THEN None ELSE Reseeded(c[open])
  PROVE  /\ form' \in Form \cup {None} /\ (form = None => form' = None)
         /\ screen = "edit" => form' \in Form
<1>1. CASE form = None BY <1>1 DEF FormInv
<1>2. CASE form # None
  <2>1. screen = "edit" /\ open \in Tasks /\ form \in Form BY <1>2 DEF Typed, FormInv
  <2>2. c[open] \in Entries BY <2>1, Basics
  <2>3. c[open].rows # None => c[open].rows[open] \in Row BY <2>1, <2>2 DEF Entries, Rows
  <2>4. c[open].rows # None => [text |-> c[open].rows[open].text, seed |-> c[open].rows[open].text] \in Form
    BY <2>3 DEF Row, Form
  <2> QED BY <1>2, <2>1, <2>4 DEF Reseeded
<1> QED BY <1>1, <1>2

\* What an entry has to be for the invariant.
GoodEntry(q, e) ==
  /\ e \in Entries
  /\ Bounded(e.rows) /\ (e.fetch \notin {Asked, Waiting} => Bounded(e.fetch))
  /\ e.fetch \notin {None, Asked, Waiting} =>
       Real(q, e.fetch) /\ (e.joined # "fetch" => UpToDate(q, e.fetch))

LEMMA CacheGood ==
  ASSUME BInv, NEW q \in Queries
  PROVE  GoodEntry(q, cache[q])
BY DEF BInv, Typed, VersionInv, FetchInv, GoodEntry

\* One entry of the cache changes.
LEMMA EntryStep ==
  ASSUME BInv, NEW q \in Queries, NEW e, GoodEntry(q, e),
         cache' = [cache EXCEPT ![q] = e], UNCHANGED <<hist, known, moves, changes>>,
         \A r \in Queries \ {q} : OpenDetail(r)' => OpenDetail(r),
         Quiet /\ e.rows # None =>
           /\ e.mark = "fresh" => Real(q, e.rows) /\ (e.joined = "no" => UpToDate(q, e.rows))
           /\ OpenDetail(q)' /\ Settled(e) => Real(q, e.rows) /\ UpToDate(q, e.rows)
  PROVE  /\ cache' \in [Queries -> Entries] /\ VersionInv' /\ FetchInv' /\ RestInv'
         /\ \A m \in Moves : MoveInv(m)'
         /\ \A c \in Changes : ChangeInv(c)'
<1>1. cache \in [Queries -> Entries] /\ e \in Entries BY DEF BInv, Typed, GoodEntry
<1>2. cache' \in [Queries -> Entries] /\ cache'[q] = e /\ \A r \in Queries \ {q} : cache'[r] = cache[r]
  BY <1>1
<1>3. VersionInv' BY <1>2 DEF BInv, VersionInv, GoodEntry, Bounded
<1>4. FetchInv'
  <2>1. \A r \in Queries : cache'[r].fetch \notin {None, Asked, Waiting} =>
          Real(r, cache'[r].fetch) /\ (cache'[r].joined # "fetch" => UpToDate(r, cache'[r].fetch))
    BY <1>2 DEF BInv, FetchInv, GoodEntry
  <2> QED BY <2>1 DEF FetchInv, Real, UpToDate, Genuine
<1>5. RestInv'
  <2>1. Quiet' = Quiet BY DEF Quiet
  <2>2. \A r \in Queries : Quiet /\ cache'[r].rows # None =>
          /\ cache'[r].mark = "fresh" =>
               Real(r, cache'[r].rows) /\ (cache'[r].joined = "no" => UpToDate(r, cache'[r].rows))
          /\ OpenDetail(r)' /\ Settled(cache'[r]) => Real(r, cache'[r].rows) /\ UpToDate(r, cache'[r].rows)
    BY <1>2 DEF BInv, RestInv
  <2> QED BY <2>1, <2>2 DEF RestInv, Real, UpToDate, Genuine, Settled
<1>6. Grown /\ Advanced BY SameAdvances DEF BInv
<1>7. \A m \in Moves : MoveInv(m)' BY <1>6, MoveStays
<1>8. \A c \in Changes : ChangeInv(c)' BY <1>6, ChangeStays
<1> QED BY <1>2, <1>3, <1>4, <1>5, <1>7, <1>8

\* Mounting a query fetches it unless it is fresh or being fetched.
LEMMA MountedGood ==
  ASSUME BInv, NEW q \in Queries
  PROVE  LET e == Mounted(cache[q])
         IN  /\ GoodEntry(q, e) /\ e.rows = cache[q].rows /\ e.mark = cache[q].mark
             /\ e.mark = "fresh" => e = cache[q]
             /\ e.fetch = None => e.mark = "fresh"
<1>1. GoodEntry(q, cache[q]) /\ cache[q] \in Entries BY CacheGood DEF GoodEntry
<1>2. CASE cache[q].mark # "fresh" /\ cache[q].fetch = None
  <2>1. Mounted(cache[q]) = Fetching(cache[q]) BY <1>2 DEF Mounted
  <2>2. Fetching(cache[q]) \in Entries BY <1>1, EntryTypes
  <2>3. /\ Fetching(cache[q]).rows = cache[q].rows /\ Fetching(cache[q]).mark = cache[q].mark
        /\ Fetching(cache[q]).fetch \in {Asked, Waiting}
    BY <1>1 DEF Fetching, Entries
  <2> QED BY <1>1, <1>2, <2>1, <2>2, <2>3, Basics DEF GoodEntry
<1>3. CASE ~(cache[q].mark # "fresh" /\ cache[q].fetch = None)
  BY <1>1, <1>3 DEF Mounted
<1> QED BY <1>2, <1>3

\* The rest of a mounted query is as it was: a stale one is being fetched.
LEMMA MountedRest ==
  ASSUME BInv, NEW q \in Queries, Quiet, Mounted(cache[q]).rows # None
  PROVE  LET e == Mounted(cache[q])
         IN  /\ e.mark = "fresh" => Real(q, e.rows) /\ (e.joined = "no" => UpToDate(q, e.rows))
             /\ Settled(e) => Real(q, e.rows) /\ UpToDate(q, e.rows)
<1> DEFINE e == Mounted(cache[q])
<1>1. /\ e.rows = cache[q].rows /\ e.mark = cache[q].mark /\ (e.mark = "fresh" => e = cache[q])
      /\ (e.fetch = None => e.mark = "fresh")
  BY MountedGood
<1> HIDE DEF e
<1>2. e.mark = "fresh" => Real(q, e.rows) /\ (e.joined = "no" => UpToDate(q, e.rows))
  BY <1>1 DEF BInv, RestInv, e
<1>3. Settled(e) => e.mark = "fresh" /\ e.joined = "no" BY <1>1 DEF Settled
<1> QED BY <1>2, <1>3 DEF e

LEMMA SearchBInv ==
  ASSUME BInv, NEW k \in Lists, Search(k)
  PROVE  BInv'
<1> DEFINE e == Mounted(cache[k])
<1>1. /\ cache' = [cache EXCEPT ![k] = e] /\ k \in Queries /\ shown' = k
      /\ UNCHANGED <<hist, nav, form, moves, advancing, deleting, changes, saving, known, others, lapses>>
      /\ visits < MaxVisits /\ visits' = visits + 1 /\ drag' = Followed(cache'[k])
  BY Basics DEF Search, Visit
<1>2. GoodEntry(k, e) BY <1>1, MountedGood
<1>3. \A r \in Queries : OpenDetail(r)' <=> OpenDetail(r) BY <1>1 DEF OpenDetail, nav
<1>4. Quiet /\ e.rows # None =>
        /\ e.mark = "fresh" => Real(k, e.rows) /\ (e.joined = "no" => UpToDate(k, e.rows))
        /\ OpenDetail(k)' /\ Settled(e) => Real(k, e.rows) /\ UpToDate(k, e.rows)
  BY <1>1, MountedRest
<1> HIDE DEF e
<1>5. /\ cache' \in [Queries -> Entries] /\ VersionInv' /\ FetchInv' /\ RestInv'
      /\ \A m \in Moves : MoveInv(m)'
      /\ \A c \in Changes : ChangeInv(c)'
  BY <1>1, <1>2, <1>3, <1>4, EntryStep
<1>6. drag' \in [task : Tasks, source : Columns] \cup {None} BY <1>1, DragFollows DEF BInv
<1>7. visits' \in 0..MaxVisits BY <1>1, Bounds DEF BInv, Typed
<1>8. Typed' BY <1>1, <1>5, <1>6, <1>7 DEF BInv, Typed, nav
<1>9. FormInv' BY <1>1 DEF BInv, FormInv, nav
<1> QED BY <1>5, <1>8, <1>9 DEF BInv

LEMMA OpenTaskBInv ==
  ASSUME BInv, NEW t \in Tasks, OpenTask(t)
  PROVE  BInv'
<1> DEFINE e == Mounted(cache[t])
           c == [cache EXCEPT ![t] = e]
<1>1. /\ cache' = c /\ t \in Queries /\ screen' = "detail" /\ open' = t
      /\ advancing' = None /\ deleting' = None /\ screen = "list"
      /\ UNCHANGED <<hist, shown, moves, changes, saving, known, others, lapses>>
      /\ visits < MaxVisits /\ visits' = visits + 1 /\ drag' = Followed(c[shown])
      /\ form' = IF form = None THEN None ELSE Reseeded(c[open])
  BY Basics DEF OpenTask, Visit, Render, OnBoard
<1>2. GoodEntry(t, e) BY <1>1, MountedGood
<1>3. \A r \in Queries \ {t} : OpenDetail(r)' => OpenDetail(r) BY <1>1 DEF OpenDetail
<1>4. Quiet /\ e.rows # None =>
        /\ e.mark = "fresh" => Real(t, e.rows) /\ (e.joined = "no" => UpToDate(t, e.rows))
        /\ OpenDetail(t)' /\ Settled(e) => Real(t, e.rows) /\ UpToDate(t, e.rows)
  BY <1>1, MountedRest
<1> HIDE DEF e
<1>5. /\ cache' \in [Queries -> Entries] /\ VersionInv' /\ FetchInv' /\ RestInv'
      /\ \A m \in Moves : MoveInv(m)'
      /\ \A d \in Changes : ChangeInv(d)'
  BY <1>1, <1>2, <1>3, <1>4, EntryStep
<1>6. drag' \in [task : Tasks, source : Columns] \cup {None} BY <1>1, DragFollows DEF BInv
<1>7. visits' \in 0..MaxVisits BY <1>1, Bounds DEF BInv, Typed
<1>8. form = None BY <1>1 DEF BInv, FormInv
<1>9. t # None BY <1>1, Basics
<1>10. Typed' BY <1>1, <1>5, <1>6, <1>7, <1>8, <1>9 DEF BInv, Typed
<1>11. FormInv' BY <1>1, <1>8 DEF FormInv
<1> QED BY <1>5, <1>10, <1>11 DEF BInv

LEMMA OpenEditBInv ==
  ASSUME BInv, OpenEdit
  PROVE  BInv'
<1> DEFINE e == Mounted(cache[open])
           f == [text |-> cache[open].rows[open].text, seed |-> cache[open].rows[open].text]
<1>1. /\ cache' = [cache EXCEPT ![open] = e] /\ screen = "detail" /\ screen' = "edit" /\ form' = f
      /\ saving' = None /\ cache[open].rows # None
      /\ UNCHANGED <<hist, shown, open, drag, moves, advancing, deleting, changes, known, others, lapses>>
      /\ visits < MaxVisits /\ visits' = visits + 1
  BY DEF OpenEdit, Visit, OnDetail
<1>2. open \in Tasks /\ open \in Queries BY <1>1, Basics DEF BInv, Typed
<1>3. GoodEntry(open, e) BY <1>2, MountedGood
<1>4. \A r \in Queries : OpenDetail(r)' => OpenDetail(r) BY <1>1 DEF OpenDetail
<1>5. Quiet /\ e.rows # None =>
        /\ e.mark = "fresh" => Real(open, e.rows) /\ (e.joined = "no" => UpToDate(open, e.rows))
        /\ OpenDetail(open)' /\ Settled(e) => Real(open, e.rows) /\ UpToDate(open, e.rows)
  BY <1>2, MountedRest
<1> HIDE DEF e
<1>6. /\ cache' \in [Queries -> Entries] /\ VersionInv' /\ FetchInv' /\ RestInv'
      /\ \A m \in Moves : MoveInv(m)'
      /\ \A d \in Changes : ChangeInv(d)'
  BY <1>1, <1>2, <1>3, <1>4, <1>5, EntryStep
<1>7. f \in Form
  <2>1. cache[open] \in Entries BY <1>2 DEF BInv, Typed
  <2>2. cache[open].rows[open] \in Row BY <1>1, <1>2, <2>1 DEF Entries, Rows
  <2> QED BY <2>2 DEF Row, Form
<1>8. visits' \in 0..MaxVisits BY <1>1, Bounds DEF BInv, Typed
<1>9. Typed' BY <1>1, <1>2, <1>6, <1>7, <1>8 DEF BInv, Typed
<1>10. FormInv' BY <1>1, <1>7 DEF FormInv
<1> QED BY <1>6, <1>9, <1>10 DEF BInv

-----------------------------------------------------------------------------
(* Fetches *)

\* One entry changes under the screens, which follow it or do not look.
LEMMA EntryStepBInv ==
  ASSUME BInv, NEW q \in Queries, NEW e, GoodEntry(q, e),
         cache' = [cache EXCEPT ![q] = e], Render(cache') \/ UNCHANGED <<drag, form>>,
         UNCHANGED <<hist, shown, nav, moves, advancing, deleting, changes, saving, known, others, visits>>,
         lapses' \in 0..MaxLapses,
         Quiet /\ e.rows # None =>
           /\ e.mark = "fresh" => Real(q, e.rows) /\ (e.joined = "no" => UpToDate(q, e.rows))
           /\ OpenDetail(q) /\ Settled(e) => Real(q, e.rows) /\ UpToDate(q, e.rows)
  PROVE  BInv'
<1>1. \A r \in Queries : OpenDetail(r)' <=> OpenDetail(r) BY DEF OpenDetail, nav
<1>2. /\ cache' \in [Queries -> Entries] /\ VersionInv' /\ FetchInv' /\ RestInv'
      /\ \A m \in Moves : MoveInv(m)'
      /\ \A c \in Changes : ChangeInv(c)'
  BY <1>1, EntryStep
<1>3. drag' \in [task : Tasks, source : Columns] \cup {None}
  <2>1. CASE Render(cache') BY <2>1, DragFollows DEF BInv, Render
  <2> QED BY <2>1 DEF BInv, Typed
<1>4. form' \in Form \cup {None} /\ (form = None => form' = None) /\ (screen = "edit" => form' \in Form)
  <2>1. CASE Render(cache') BY <1>2, <2>1, FormFollows DEF BInv, Render
  <2> QED BY <2>1 DEF BInv, Typed, FormInv
<1>5. Typed' BY <1>2, <1>3, <1>4 DEF BInv, Typed, nav
<1>6. FormInv' BY <1>4 DEF BInv, FormInv, nav
<1> QED BY <1>2, <1>5, <1>6 DEF BInv

LEMMA ServerAnswersBInv ==
  ASSUME BInv, NEW q \in Queries, ServerAnswers(q)
  PROVE  BInv'
<1> DEFINE e == [cache[q] EXCEPT !.fetch = Answer(q)]
<1>1. /\ cache[q].fetch = Asked /\ cache' = [cache EXCEPT ![q] = e]
      /\ UNCHANGED <<hist, shown, nav, form, drag, moves, advancing, deleting, changes, saving, known, others, visits, lapses>>
  BY DEF ServerAnswers
<1>2. /\ Answer(q) \in Rows /\ Real(q, Answer(q)) /\ Bounded(Answer(q))
      /\ \A t \in Scope(q) : t \in Tasks /\ Answer(q)[t].ver = Len(hist[t])
  BY AnswerTyped, Basics DEF BInv, Rows
<1>3. UpToDate(q, Answer(q)) BY <1>2 DEF BInv, VersionInv, UpToDate, Typed
<1>4. GoodEntry(q, cache[q]) /\ cache[q] \in Entries BY CacheGood DEF GoodEntry
<1>5. e \in Entries /\ e.rows = cache[q].rows /\ e.mark = cache[q].mark /\ e.joined = cache[q].joined
      /\ e.fetch = Answer(q)
  BY <1>2, <1>4 DEF Entries
<1>6. Answer(q) \notin {None, Asked, Waiting} BY AnswerTyped, RowsAreThere DEF BInv
<1>7. GoodEntry(q, e) BY <1>2, <1>3, <1>4, <1>5, <1>6 DEF GoodEntry
<1>8. ~Settled(e) BY <1>5, <1>6 DEF Settled
<1>9. Quiet /\ e.rows # None /\ e.mark = "fresh" => Real(q, e.rows) /\ (e.joined = "no" => UpToDate(q, e.rows))
  BY <1>5 DEF BInv, RestInv
<1>10. lapses' \in 0..MaxLapses BY <1>1 DEF BInv, Typed
<1> HIDE DEF e
<1> QED BY <1>1, <1>7, <1>8, <1>9, <1>10, EntryStepBInv

\* A fetch that waits, or goes on, has no answer yet.
LEMMA WaitingBInv ==
  ASSUME BInv, NEW q \in Queries, PauseFetch(q) \/ ResumeFetch(q)
  PROVE  BInv'
<1>1. PICK f \in {Asked, Waiting} :
        /\ cache[q].fetch \in {Asked, Waiting} /\ Render([cache EXCEPT ![q].fetch = f])
        /\ UNCHANGED <<hist, shown, nav, moves, advancing, deleting, changes, saving, known, others, visits, lapses>>
  BY DEF PauseFetch, ResumeFetch
<1> DEFINE e == [cache[q] EXCEPT !.fetch = f]
<1>2. cache' = [cache EXCEPT ![q] = e] /\ Render(cache') BY <1>1 DEF Render
<1>3. GoodEntry(q, cache[q]) /\ cache[q] \in Entries BY CacheGood DEF GoodEntry
<1>4. e \in Entries /\ e.rows = cache[q].rows /\ e.mark = cache[q].mark /\ e.joined = cache[q].joined
      /\ e.fetch = f
  BY <1>3 DEF Entries
<1>5. GoodEntry(q, e) BY <1>3, <1>4 DEF GoodEntry, Bounded
<1>6. ~Settled(e) BY <1>4, Basics DEF Settled
<1>7. Quiet /\ e.rows # None /\ e.mark = "fresh" => Real(q, e.rows) /\ (e.joined = "no" => UpToDate(q, e.rows))
  BY <1>4 DEF BInv, RestInv
<1>8. lapses' \in 0..MaxLapses BY <1>1 DEF BInv, Typed
<1> HIDE DEF e
<1> QED BY <1>1, <1>2, <1>5, <1>6, <1>7, <1>8, EntryStepBInv

\* The rows of an answer that was joined are known to be old.
LEMMA FetchDoneBInv ==
  ASSUME BInv, NEW q \in Queries, FetchDone(q)
  PROVE  BInv'
<1> DEFINE f == cache[q].fetch
           e == Delivered(cache[q])
<1>1. /\ f \notin {None, Asked, Waiting} /\ Render([cache EXCEPT ![q] = e])
      /\ UNCHANGED <<hist, shown, nav, moves, advancing, deleting, changes, saving, known, others, visits, lapses>>
  BY DEF FetchDone
<1>2. cache' = [cache EXCEPT ![q] = e] /\ Render(cache') BY <1>1 DEF Render
<1>3. GoodEntry(q, cache[q]) /\ cache[q] \in Entries BY CacheGood DEF GoodEntry
<1>4. f \in Rows /\ f \notin {Asked, Waiting, None} BY <1>1, <1>3 DEF Entries
<1>5. /\ e \in Entries /\ e.rows = f /\ e.mark = "fresh" /\ e.fetch = None
      /\ e.joined = "no" => cache[q].joined # "fetch"
  BY <1>3, <1>4 DEF Entries, Delivered, Put, Rows
<1>6. Bounded(f) /\ Real(q, f) /\ (e.joined = "no" => UpToDate(q, f)) BY <1>3, <1>4, <1>5 DEF GoodEntry
<1>7. GoodEntry(q, e) BY <1>5, <1>6 DEF GoodEntry, Bounded
<1>8. Settled(e) => e.joined = "no" BY DEF Settled
<1>9. lapses' \in 0..MaxLapses BY <1>1 DEF BInv, Typed
<1> HIDE DEF e, f
<1> QED BY <1>1, <1>2, <1>5, <1>6, <1>7, <1>8, <1>9, EntryStepBInv

\* A failed fetch leaves the rows and says so.
LEMMA FetchFailedBInv ==
  ASSUME BInv, NEW q \in Queries, FetchFailed(q)
  PROVE  BInv'
<1> DEFINE e == [Cancelled(cache[q]) EXCEPT !.mark = "error"]
<1>1. /\ Render([cache EXCEPT ![q] = e])
      /\ UNCHANGED <<hist, shown, nav, moves, advancing, deleting, changes, saving, known, others, visits, lapses>>
  BY DEF FetchFailed
<1>2. cache' = [cache EXCEPT ![q] = e] /\ Render(cache') BY <1>1 DEF Render
<1>3. GoodEntry(q, cache[q]) /\ cache[q] \in Entries BY CacheGood DEF GoodEntry
<1>4. Cancelled(cache[q]) \in Entries BY <1>3, EntryTypes
<1>5. Cancelled(cache[q]).rows = cache[q].rows /\ Cancelled(cache[q]).fetch = None
  BY <1>3 DEF Cancelled, Entries
<1>6. e \in Entries /\ e.rows = cache[q].rows /\ e.mark = "error" /\ e.fetch = None
  BY <1>4, <1>5 DEF Entries
<1>7. GoodEntry(q, e) BY <1>3, <1>6 DEF GoodEntry, Bounded
<1>8. ~Settled(e) BY <1>6 DEF Settled
<1>9. lapses' \in 0..MaxLapses BY <1>1 DEF BInv, Typed
<1> HIDE DEF e
<1> QED BY <1>1, <1>2, <1>6, <1>7, <1>8, <1>9, EntryStepBInv

LEMMA RefetchBInv ==
  ASSUME BInv, NEW q \in Queries, Refetch(q)
  PROVE  BInv'
<1> DEFINE e == Fetching(cache[q])
<1>1. /\ Render([cache EXCEPT ![q] = e]) /\ lapses < MaxLapses /\ lapses' = lapses + 1
      /\ cache[q].fetch = None
      /\ UNCHANGED <<hist, shown, nav, moves, advancing, deleting, changes, saving, known, others, visits>>
  BY DEF Refetch
<1>2. cache' = [cache EXCEPT ![q] = e] /\ Render(cache') BY <1>1 DEF Render
<1>3. GoodEntry(q, cache[q]) /\ cache[q] \in Entries BY CacheGood DEF GoodEntry
<1>4. e \in Entries BY <1>3, EntryTypes
<1>5. /\ e.rows = cache[q].rows /\ e.fetch \in {Asked, Waiting} /\ e.mark = cache[q].mark
      /\ e.joined = "no" => cache[q].joined = "no"
  BY <1>3 DEF Fetching, Predates, Entries
<1>6. GoodEntry(q, e) BY <1>3, <1>4, <1>5 DEF GoodEntry, Bounded
<1>7. ~Settled(e) BY <1>5, Basics DEF Settled
<1>8. Quiet /\ e.rows # None /\ e.mark = "fresh" => Real(q, e.rows) /\ (e.joined = "no" => UpToDate(q, e.rows))
  BY <1>5 DEF BInv, RestInv
<1>9. lapses' \in 0..MaxLapses BY <1>1, Bounds DEF BInv, Typed
<1> HIDE DEF e
<1> QED BY <1>1, <1>2, <1>6, <1>7, <1>8, <1>9, EntryStepBInv

\* Rows that go stale with age are as true as they were.
LEMMA ExpireBInv ==
  ASSUME BInv, NEW q \in Queries, Expire(q)
  PROVE  BInv'
<1> DEFINE e == [cache[q] EXCEPT !.mark = "stale"]
<1>1. /\ cache' = [cache EXCEPT ![q] = e] /\ cache[q].mark = "fresh"
      /\ lapses < MaxLapses /\ lapses' = lapses + 1
      /\ UNCHANGED <<hist, shown, nav, form, drag, moves, advancing, deleting, changes, saving, known, others, visits>>
  BY DEF Expire
<1>2. GoodEntry(q, cache[q]) /\ cache[q] \in Entries BY CacheGood DEF GoodEntry
<1>3. /\ e \in Entries /\ e.rows = cache[q].rows /\ e.fetch = cache[q].fetch /\ e.mark = "stale"
      /\ e.joined = cache[q].joined
  BY <1>2 DEF Entries
<1>4. GoodEntry(q, e) BY <1>2, <1>3 DEF GoodEntry, Bounded
<1>5. Settled(e) => e.joined = "no" BY DEF Settled
<1>6. Quiet /\ e.rows # None /\ Settled(e) => Real(q, e.rows) /\ UpToDate(q, e.rows)
  BY <1>1, <1>3, <1>5 DEF BInv, RestInv
<1>7. lapses' \in 0..MaxLapses BY <1>1, Bounds DEF BInv, Typed
<1> HIDE DEF e
<1> QED BY <1>1, <1>3, <1>4, <1>6, <1>7, EntryStepBInv

-----------------------------------------------------------------------------
(* Touches that change neither the cache nor a status mutation *)

NavTyped ==
  /\ screen \in {"list", "detail", "edit", "create"}
  /\ open \in Tasks \cup {None} /\ (screen \in {"detail", "edit"} => open # None)
  /\ advancing \in Moves \cup {None} /\ {deleting, saving} \subseteq Changes \cup {None}

LEMMA TouchBInv ==
  ASSUME BInv, UNCHANGED <<hist, cache, shown, moves, known, others, lapses>>, visits' \in 0..MaxVisits,
         NavTyped', \A q \in Queries : OpenDetail(q)' => OpenDetail(q),
         FormInv', form' \in Form \cup {None}, drag' \in [task : Tasks, source : Columns] \cup {None},
         changes' \in [Changes -> ChangeStates],
         \A c \in Changes : changes'[c] = changes[c] \/ ChangeInv(c)'
  PROVE  BInv'
<1>1. Typed' BY DEF BInv, Typed, NavTyped
<1>2. Grown /\ Advanced BY SameAdvances DEF BInv
<1>3. VersionInv' /\ FetchInv' BY <1>2, HeldStays DEF VersionInv
<1>4. RestInv'
  <2>1. Quiet' => Quiet BY DEF Quiet
  <2> QED BY <1>2, <2>1, RestStays
<1>5. \A m \in Moves : MoveInv(m)' BY <1>2, MoveStays
<1>6. \A c \in Changes : ChangeInv(c)' BY <1>2, ChangeStays
<1> QED BY <1>1, <1>3, <1>4, <1>5, <1>6 DEF BInv

\* Leaving a screen: what is open afterwards was open before.
LEMMA GoingBack ==
  ASSUME Typed, GoBack
  PROVE  /\ NavTyped' /\ \A q \in Queries : OpenDetail(q)' => OpenDetail(q)
         /\ screen' # "edit"
BY DEF Typed, GoBack, NavTyped, OpenDetail

LEMMA BackBInv ==
  ASSUME BInv, Back
  PROVE  BInv'
<1>1. /\ GoBack /\ form' = None
      /\ UNCHANGED <<hist, cache, shown, drag, moves, changes, known, others, visits, lapses>>
  BY DEF Back
<1>2. NavTyped' /\ (\A q \in Queries : OpenDetail(q)' => OpenDetail(q)) /\ screen' # "edit"
  BY <1>1, GoingBack DEF BInv
<1>3. FormInv' BY <1>1, <1>2 DEF FormInv
<1>4. visits' \in 0..MaxVisits /\ drag' \in [task : Tasks, source : Columns] \cup {None}
      /\ changes' \in [Changes -> ChangeStates]
  BY <1>1 DEF BInv, Typed
<1> QED BY <1>1, <1>2, <1>3, <1>4, TouchBInv

LEMMA OpenCreateBInv ==
  ASSUME BInv, OpenCreate
  PROVE  BInv'
<1>1. /\ screen = "list" /\ screen' = "create" /\ saving' = None /\ visits < MaxVisits /\ visits' = visits + 1
      /\ UNCHANGED <<hist, cache, shown, open, form, drag, moves, advancing, deleting, changes, known, others, lapses>>
  BY DEF OpenCreate, Visit
<1>2. NavTyped' /\ (\A q \in Queries : OpenDetail(q)' => OpenDetail(q))
  BY <1>1 DEF BInv, Typed, NavTyped, OpenDetail
<1>3. FormInv' BY <1>1 DEF BInv, FormInv
<1>4. /\ visits' \in 0..MaxVisits /\ drag' \in [task : Tasks, source : Columns] \cup {None}
      /\ changes' \in [Changes -> ChangeStates] /\ form' \in Form \cup {None}
  BY <1>1, Bounds DEF BInv, Typed
<1> QED BY <1>1, <1>2, <1>3, <1>4, TouchBInv

LEMMA FingerBInv ==
  ASSUME BInv, (\E x \in Texts : TypeText(x)) \/ (\E t \in Tasks : LongPress(t)) \/ LetGo
  PROVE  BInv'
<1>1. UNCHANGED <<hist, cache, shown, nav, moves, advancing, deleting, changes, saving, known, others, visits, lapses>>
  BY DEF TypeText, LongPress, LetGo
<1>2. NavTyped' /\ (\A q \in Queries : OpenDetail(q)' => OpenDetail(q))
  BY <1>1 DEF BInv, Typed, NavTyped, OpenDetail, nav
<1>3. FormInv' /\ form' \in Form \cup {None}
  <2>1. CASE \E x \in Texts : TypeText(x)
    <3>1. PICK x \in Texts : screen = "edit" /\ form' = [form EXCEPT !.text = x] BY <2>1 DEF TypeText
    <3>2. form \in Form BY <3>1 DEF BInv, FormInv
    <3>3. form' \in Form BY <3>1, <3>2 DEF Form
    <3> QED BY <1>1, <3>1, <3>3 DEF FormInv, nav
  <2>2. CASE form' = form BY <1>1, <2>2 DEF BInv, Typed, FormInv, nav
  <2> QED BY <2>1, <2>2 DEF LongPress, LetGo
<1>4. drag' \in [task : Tasks, source : Columns] \cup {None}
  BY DEF BInv, Typed, TypeText, LongPress, LetGo
<1>5. visits' \in 0..MaxVisits /\ changes' \in [Changes -> ChangeStates] BY <1>1 DEF BInv, Typed
<1> QED BY <1>1, <1>2, <1>3, <1>4, <1>5, TouchBInv

\* A request that is sent.
LEMMA SubmitBInv ==
  ASSUME BInv, NEW c \in Changes, NEW request, NEW pending, Submit(c, request, pending),
         request \in ChangeStates, request.at \in {"paused", "sent"}, request.seen <= Len(hist[request.task]),
         request.kind = "update" /\ request.seen = Len(hist[request.task])
           => request.value.status = Now(request.task).status,
         {deleting', saving'} \subseteq Changes \cup {None}
  PROVE  BInv'
<1>1. /\ changes' = [changes EXCEPT ![c] = request]
      /\ UNCHANGED <<hist, cache, shown, nav, form, drag, moves, advancing, known, others, visits, lapses>>
  BY DEF Submit
<1>2. changes \in [Changes -> ChangeStates] BY DEF BInv, Typed
<1>3. changes' \in [Changes -> ChangeStates] /\ changes'[c] = request /\ \A d \in Changes : d # c => changes'[d] = changes[d]
  BY <1>1, <1>2
<1>4. ChangeInv(c)' BY <1>1, <1>3 DEF ChangeInv, Now
<1>5. NavTyped' /\ (\A q \in Queries : OpenDetail(q)' => OpenDetail(q))
  BY <1>1 DEF BInv, Typed, NavTyped, OpenDetail, nav
<1>6. FormInv' BY <1>1 DEF BInv, FormInv, nav
<1>7. /\ visits' \in 0..MaxVisits /\ drag' \in [task : Tasks, source : Columns] \cup {None}
      /\ form' \in Form \cup {None}
  BY <1>1 DEF BInv, Typed
<1> QED BY <1>1, <1>3, <1>4, <1>5, <1>6, <1>7, TouchBInv

LEMMA SubmitEditBInv ==
  ASSUME BInv, NEW c \in Changes, SubmitEdit(c)
  PROVE  BInv'
<1> DEFINE rows == cache[open].rows
           rest == Quiet /\ Settled(cache[open])
           seen == IF rest THEN known[open] ELSE 0
           value == [status |-> rows[open].status, text |-> form.text]
           request == [at |-> Started, kind |-> "update", task |-> open, value |-> value, seen |-> seen]
<1>1. screen = "edit" /\ rows # None /\ Submit(c, request, saving) /\ saving' = c /\ deleting' = deleting
  BY DEF SubmitEdit
<1>2. open \in Tasks /\ open \in Queries /\ form \in Form /\ Scope(open) = {open}
  BY <1>1, Basics DEF BInv, Typed, FormInv
<1>3. rows \in [Tasks -> Row] /\ rows[open] \in Row BY <1>1, <1>2 DEF BInv, Typed, Entries, Rows
<1>4. Len(hist[open]) \in Nat /\ Len(hist[open]) >= 1 /\ known[open] \in Nat /\ known[open] <= Len(hist[open])
      /\ rows[open].ver \in Nat /\ rows[open].ver <= Len(hist[open])
  BY <1>1, <1>2, <1>3, HistTyped DEF BInv, Typed, VersionInv, Bounded, Row
<1>5. rest => Genuine(open, rows[open]) /\ rows[open].ver >= known[open]
  BY <1>1, <1>2 DEF BInv, RestInv, OpenDetail, Real, UpToDate
<1>6. seen \in Nat /\ seen <= Len(hist[open]) BY <1>4
<1>7. ASSUME seen = Len(hist[open]) PROVE rows[open].status = Now(open).status
  <2>1. rest /\ known[open] = Len(hist[open]) BY <1>4, <1>7
  <2>2. rows[open].ver = Len(hist[open]) /\ rows[open].ver # 0 BY <1>4, <1>5, <2>1
  <2>3. Now(open) = [status |-> rows[open].status, text |-> rows[open].text]
    BY <1>5, <2>1, <2>2 DEF Genuine, Now
  <2> QED BY <2>3
<1>8. value \in Value BY <1>2, <1>3 DEF Value, Row, Form
<1> HIDE DEF seen, value, rows
<1>9. request \in ChangeStates /\ request.at \in {"paused", "sent"} BY <1>2, <1>6, <1>8 DEF ChangeStates, Started
<1>10. value.status = rows[open].status BY DEF value
<1>11. {deleting', saving'} \subseteq Changes \cup {None} BY <1>1 DEF BInv, Typed
<1>12. request.seen = seen /\ request.task = open /\ request.value = value BY DEF request
<1> HIDE DEF request
<1> QED BY <1>1, <1>6, <1>7, <1>9, <1>10, <1>11, <1>12, SubmitBInv

LEMMA SubmitCreateBInv ==
  ASSUME BInv, NEW c \in Changes, NEW t \in Tasks, NEW x \in Texts, SubmitCreate(c, t, x)
  PROVE  BInv'
<1> DEFINE request == [at |-> Started, kind |-> "create", task |-> t,
                       value |-> [status |-> "TODO", text |-> x], seen |-> 0]
<1>1. Submit(c, request, saving) /\ saving' = c /\ deleting' = deleting BY DEF SubmitCreate
<1>2. [status |-> "TODO", text |-> x] \in Value BY DEF Value, Status, Columns
<1>3. request \in ChangeStates BY <1>2 DEF ChangeStates, Started
<1>4. Len(hist[t]) \in Nat BY HistTyped DEF BInv
<1>5. request.at \in {"paused", "sent"} /\ request.kind = "create" /\ request.seen = 0 /\ request.task = t
  BY DEF request, Started
<1>6. {deleting', saving'} \subseteq Changes \cup {None} BY <1>1 DEF BInv, Typed
<1> HIDE DEF request
<1> QED BY <1>1, <1>3, <1>4, <1>5, <1>6, SubmitBInv

LEMMA DeleteBInv ==
  ASSUME BInv, NEW c \in Changes, Delete(c)
  PROVE  BInv'
<1> DEFINE request == [at |-> Started, kind |-> "delete", task |-> open,
                       value |-> [status |-> Gone, text |-> None], seen |-> 0]
<1>1. screen = "detail" /\ Submit(c, request, deleting) /\ deleting' = c /\ saving' = saving
  BY DEF Delete, OnDetail
<1>2. open \in Tasks BY <1>1 DEF BInv, Typed
<1>3. [status |-> Gone, text |-> None] \in Value BY DEF Value
<1>4. request \in ChangeStates BY <1>2, <1>3 DEF ChangeStates, Started
<1>5. Len(hist[open]) \in Nat BY <1>2, HistTyped DEF BInv
<1>6. request.at \in {"paused", "sent"} /\ request.kind = "delete" /\ request.seen = 0 /\ request.task = open
  BY DEF request, Started
<1>7. {deleting', saving'} \subseteq Changes \cup {None} BY <1>1 DEF BInv, Typed
<1> HIDE DEF request
<1> QED BY <1>1, <1>4, <1>5, <1>6, <1>7, SubmitBInv

-----------------------------------------------------------------------------
(* Steps that rewrite the cache *)

\* A step of the app that leaves the server alone.
LEMMA AppBInv ==
  ASSUME BInv, UNCHANGED <<hist, shown, others, visits, lapses>>,
         cache' \in [Queries -> Entries], known' \in [Tasks -> Nat], VersionInv', FetchInv', RestInv',
         NavTyped', FormInv', form' \in Form \cup {None}, drag' \in [task : Tasks, source : Columns] \cup {None},
         moves' \in [Moves -> MoveStates], changes' \in [Changes -> ChangeStates],
         \A m \in Moves : moves'[m] = moves[m] \/ MoveInv(m)',
         \A c \in Changes : changes'[c] = changes[c] \/ ChangeInv(c)'
  PROVE  BInv'
<1>1. Typed' BY DEF BInv, Typed, NavTyped
<1>2. Grown /\ Advanced BY SameAdvances DEF BInv
<1>3. \A m \in Moves : MoveInv(m)' BY <1>2, MoveStays
<1>4. \A c \in Changes : ChangeInv(c)' BY <1>2, ChangeStays
<1> QED BY <1>1, <1>3, <1>4 DEF BInv

\* A row put into a table.
LEMMA RowPut ==
  ASSUME NEW rows \in [Tasks -> Row], Bounded(rows), NEW t \in Tasks, NEW row \in Row,
         row.ver <= Len(hist[t])
  PROVE  [rows EXCEPT ![t] = row] \in [Tasks -> Row] /\ Bounded([rows EXCEPT ![t] = row])
<1>1. [rows EXCEPT ![t] = row] \in [Tasks -> Row] OBVIOUS
<1>2. rows # None BY RowsAreThere
<1>3. \A u \in Tasks : [rows EXCEPT ![t] = row][u].ver <= Len(hist[u]) BY <1>2 DEF Bounded
<1> QED BY <1>1, <1>3 DEF Bounded

LEMMA RowAlone ==
  ASSUME Typed, NEW t \in Tasks, NEW row \in Row, row.ver <= Len(hist[t])
  PROVE  LET rows == [x \in Tasks |-> IF x = t THEN row ELSE Blank]
         IN  rows \in [Tasks -> Row] /\ Bounded(rows)
<1>1. \A u \in Tasks : Len(hist[u]) \in Nat BY HistTyped
<1>2. Blank \in Row /\ Blank.ver = 0 BY Basics DEF Blank
<1> QED BY <1>1, <1>2 DEF Bounded

LEMMA PutGood ==
  ASSUME NEW q \in Queries, NEW e, GoodEntry(q, e), NEW rows \in [Tasks -> Row], Bounded(rows)
  PROVE  GoodEntry(q, Put(e, rows))
<1>1. Put(e, rows) \in Entries BY EntryTypes DEF GoodEntry, Rows
<1>2. Put(e, rows).rows = rows /\ Put(e, rows).fetch = e.fetch /\ Put(e, rows).joined = e.joined
  BY DEF GoodEntry, Put, Entries
<1> QED BY <1>1, <1>2 DEF GoodEntry

LEMMA CancelledGood ==
  ASSUME NEW q \in Queries, NEW e, GoodEntry(q, e)
  PROVE  GoodEntry(q, Cancelled(e)) /\ Cancelled(e).rows = e.rows
<1>1. Cancelled(e) \in Entries BY EntryTypes DEF GoodEntry
<1>2. Cancelled(e).rows = e.rows /\ Cancelled(e).fetch = None BY DEF GoodEntry, Cancelled, Entries
<1> QED BY <1>1, <1>2 DEF GoodEntry, Bounded

\* An optimistic change leaves a cache that is in order except that the
\* status is made up, which the mutation under way accounts for.
LEMMA MutateCache ==
  ASSUME BInv, NEW m \in Moves, NEW t \in Tasks, NEW s \in Columns, OnMutate(m, t, s),
         UNCHANGED <<hist, known>>
  PROVE  /\ cache' \in [Queries -> Entries] /\ VersionInv' /\ FetchInv' /\ RestInv'
         /\ moves' \in [Moves -> MoveStates]
         /\ \A n \in Moves : moves'[n] = moves[n] \/ MoveInv(n)'
<1> DEFINE idle == [q \in Queries |-> IF q \in Lists THEN Cancelled(cache[q]) ELSE cache[q]]
           changed(row) == [row EXCEPT !.status = s]
           seen(row) == IF row.status = Gone THEN row ELSE changed(row)
           lists == [q \in Queries |->
                       IF q \in Lists /\ idle[q].rows # None
                         THEN Put(idle[q], [idle[q].rows EXCEPT ![t] = seen(idle[q].rows[t])])
                         ELSE idle[q]]
           alone == [x \in Tasks |-> IF x = t THEN changed(cache[t].rows[t]) ELSE Blank]
           back == [q \in Queries |-> IF q \in Lists \cup {t} THEN cache[q].rows ELSE None]
           sent == [at |-> Started, task |-> t, status |-> s, back |-> back]
<1>1. /\ moves' = [moves EXCEPT ![m] = sent]
      /\ cache' = IF cache[t].rows = None THEN lists ELSE [lists EXCEPT ![t] = Put(lists[t], alone)]
  BY DEF OnMutate, MapLists, SetDetail
<1>2. \A q \in Queries : GoodEntry(q, cache[q]) BY CacheGood
<1>3. \A q \in Queries : GoodEntry(q, idle[q]) /\ idle[q].rows = cache[q].rows BY <1>2, CancelledGood
<1>4. \A row \in Row : changed(row) \in Row /\ changed(row).ver = row.ver
                       /\ seen(row) \in Row /\ seen(row).ver = row.ver
  BY Basics DEF Row
<1>5. \A q \in Queries : cache[q].rows # None =>
        /\ cache[q].rows \in [Tasks -> Row] /\ cache[q].rows[t] \in Row
        /\ cache[q].rows[t].ver <= Len(hist[t])
  BY <1>2 DEF GoodEntry, Bounded, Entries, Rows
<1> HIDE DEF idle, changed, seen, back
<1>6. \A q \in Queries : GoodEntry(q, lists[q])
  <2> SUFFICES ASSUME NEW q \in Queries PROVE GoodEntry(q, lists[q]) OBVIOUS
  <2>1. CASE q \in Lists /\ idle[q].rows # None
    <3> DEFINE r == idle[q].rows
               row == seen(r[t])
    <3>1. r \in [Tasks -> Row] /\ Bounded(r) /\ row \in Row /\ row.ver <= Len(hist[t])
      BY <1>3, <1>4, <1>5, <2>1 DEF GoodEntry
    <3>2. [r EXCEPT ![t] = row] \in [Tasks -> Row] /\ Bounded([r EXCEPT ![t] = row])
      BY <3>1, RowPut
    <3>3. GoodEntry(q, Put(idle[q], [r EXCEPT ![t] = row])) BY <1>3, <3>2, PutGood
    <3> QED BY <2>1, <3>3
  <2>2. CASE ~(q \in Lists /\ idle[q].rows # None) BY <1>3, <2>2
  <2> QED BY <2>1, <2>2
<1>7. cache[t].rows # None => alone \in [Tasks -> Row] /\ Bounded(alone)
  <2> SUFFICES ASSUME cache[t].rows # None PROVE alone \in [Tasks -> Row] /\ Bounded(alone) OBVIOUS
  <2>1. changed(cache[t].rows[t]) \in Row /\ changed(cache[t].rows[t]).ver <= Len(hist[t])
    BY <1>4, <1>5, Basics
  <2> QED BY <2>1, RowAlone DEF BInv
<1> HIDE DEF alone
<1>8. t \in Queries /\ DOMAIN lists = Queries BY Basics
<1>9. cache' = [q \in Queries |-> cache'[q]] /\ \A q \in Queries : GoodEntry(q, cache'[q])
  <2> HIDE DEF lists
  <2>1. cache[t].rows # None => GoodEntry(t, Put(lists[t], alone)) BY <1>6, <1>7, <1>8, PutGood
  <2>2. lists = [q \in Queries |-> lists[q]] BY DEF lists
  <2> QED BY <1>1, <1>6, <1>8, <2>1, <2>2
<1>10. cache' \in [Queries -> Entries] BY <1>9 DEF GoodEntry
<1>11. VersionInv' BY <1>9 DEF BInv, VersionInv, GoodEntry, Bounded
<1>12. FetchInv' BY <1>9 DEF FetchInv, GoodEntry, Real, UpToDate, Genuine
<1>13. back \in [Queries -> Rows] /\ \A q \in Queries : Bounded(back[q])
  BY <1>2 DEF back, GoodEntry, Entries, Rows, Bounded
<1>14. sent \in MoveStates /\ sent.at \notin {"idle", "settled"} /\ sent.back = back
  BY <1>13 DEF MoveStates, Started
<1>15. moves' \in [Moves -> MoveStates] /\ moves'[m] = sent /\ \A n \in Moves : n # m => moves'[n] = moves[n]
  BY <1>1, <1>14 DEF BInv, Typed
<1>16. RestInv' BY <1>14, <1>15, StillBusy DEF RestInv
<1>17. MoveInv(m)'
  <2>1. moves'[m].at # "read" /\ moves'[m].back = back BY <1>14, <1>15 DEF Started
  <2> QED BY <1>13, <2>1 DEF MoveInv, Bounded
<1> QED BY <1>10, <1>11, <1>12, <1>15, <1>16, <1>17

LEMMA DropBInv ==
  ASSUME BInv, NEW m \in Moves, NEW s \in Columns, Drop(m, s)
  PROVE  BInv'
<1>1. /\ drag # None /\ OnMutate(m, drag.task, s) /\ drag' = None
      /\ UNCHANGED <<hist, shown, nav, form, advancing, deleting, changes, saving, known, others, visits, lapses>>
  BY DEF Drop
<1>2. drag.task \in Tasks BY <1>1 DEF BInv, Typed
<1>3. /\ cache' \in [Queries -> Entries] /\ VersionInv' /\ FetchInv' /\ RestInv'
      /\ moves' \in [Moves -> MoveStates] /\ \A n \in Moves : moves'[n] = moves[n] \/ MoveInv(n)'
  BY <1>1, <1>2, MutateCache
<1>4. NavTyped' /\ FormInv' /\ form' \in Form \cup {None} BY <1>1 DEF BInv, Typed, FormInv, NavTyped, nav
<1>5. known' \in [Tasks -> Nat] /\ changes' \in [Changes -> ChangeStates] BY <1>1 DEF BInv, Typed
<1> QED BY <1>1, <1>3, <1>4, <1>5, AppBInv

LEMMA AdvanceBInv ==
  ASSUME BInv, NEW m \in Moves, Advance(m)
  PROVE  BInv'
<1> DEFINE s == NextStatus(cache[open].rows[open].status)
<1>1. /\ screen = "detail" /\ s # cache[open].rows[open].status /\ OnMutate(m, open, s)
      /\ advancing' = m /\ drag' = Followed(cache'[shown]) /\ form' = form
      /\ UNCHANGED <<hist, shown, nav, deleting, changes, saving, known, others, visits, lapses>>
  BY DEF Advance, OnDetail
<1>2. s \in Columns BY <1>1 DEF NextStatus, Columns
<1>3. open \in Tasks BY <1>1 DEF BInv, Typed
<1> HIDE DEF s
<1>4. /\ cache' \in [Queries -> Entries] /\ VersionInv' /\ FetchInv' /\ RestInv'
      /\ moves' \in [Moves -> MoveStates] /\ \A n \in Moves : moves'[n] = moves[n] \/ MoveInv(n)'
  BY <1>1, <1>2, <1>3, MutateCache
<1>5. NavTyped' /\ FormInv' /\ form' \in Form \cup {None} BY <1>1 DEF BInv, Typed, FormInv, NavTyped, nav
<1>6. drag' \in [task : Tasks, source : Columns] \cup {None} BY <1>1, DragFollows DEF BInv
<1>7. known' \in [Tasks -> Nat] /\ changes' \in [Changes -> ChangeStates] BY <1>1 DEF BInv, Typed
<1> QED BY <1>1, <1>4, <1>5, <1>6, <1>7, AppBInv

\* Whatever was put into the cache, after the invalidation nothing is fresh,
\* the open detail is being fetched and answers on their way are joined.
LEMMA InvalidatedCache ==
  ASSUME BInv, NEW c \in [Queries -> Entries], cache' = InvalidateTasks(c), UNCHANGED hist,
         \A q \in Queries : Bounded(c[q].rows) /\ c[q].fetch = cache[q].fetch,
         \A t \in Tasks : known'[t] <= Len(hist[t]),
         \A q \in Queries : OpenDetail(q)' => OpenDetail(q)
  PROVE  cache' \in [Queries -> Entries] /\ VersionInv' /\ FetchInv' /\ RestInv'
<1>1. \A q \in Queries : LET i == cache'[q]
        IN  /\ i \in Entries /\ i.rows = c[q].rows /\ i.mark # "fresh"
            /\ i.fetch \in {cache[q].fetch, Asked, Waiting}
            /\ i.fetch \notin {None, Asked, Waiting} => i.joined = "fetch"
            /\ Active(q) /\ i.rows # None => i.fetch \in {Asked, Waiting}
  <2> SUFFICES ASSUME NEW q \in Queries
               PROVE  LET i == cache'[q]
                      IN  /\ i \in Entries /\ i.rows = c[q].rows /\ i.mark # "fresh"
                          /\ i.fetch \in {cache[q].fetch, Asked, Waiting}
                          /\ i.fetch \notin {None, Asked, Waiting} => i.joined = "fetch"
                          /\ Active(q) /\ i.rows # None => i.fetch \in {Asked, Waiting}
    OBVIOUS
  <2>1. cache'[q] = Invalidated(c[q], Active(q)) /\ c[q] \in Entries /\ Active(q) \in BOOLEAN
    BY DEF InvalidateTasks, Active
  <2> QED BY <2>1, Invalidation
<1>2. cache' \in [Queries -> Entries]
  <2>1. cache' = [q \in Queries |-> cache'[q]] BY DEF InvalidateTasks
  <2> QED BY <1>1, <2>1
<1>3. VersionInv' BY <1>1 DEF BInv, VersionInv, Bounded
<1>4. FetchInv' BY <1>1 DEF BInv, FetchInv, Real, Genuine
<1>5. RestInv'
  <2>1. \A q \in Queries : OpenDetail(q) => Active(q) BY DEF OpenDetail, Active
  <2>2. \A q \in Queries : cache'[q].fetch \in {Asked, Waiting} => ~Settled(cache'[q]) BY Basics DEF Settled
  <2> QED BY <1>1, <2>1, <2>2 DEF RestInv, Settled
<1> QED BY <1>2, <1>3, <1>4, <1>5

LEMMA NewestKnown ==
  ASSUME BInv, NEW t \in Tasks, NEW ver \in Nat, ver <= Len(hist[t]), Newest(t, ver)
  PROVE  known' \in [Tasks -> Nat] /\ \A u \in Tasks : known'[u] <= Len(hist[u])
BY DEF BInv, Typed, VersionInv, Newest

\* The row of an answer, as the detail of its task.
LEMMA DetailPut ==
  ASSUME BInv, NEW c \in [Queries -> Entries], \A q \in Queries : Bounded(c[q].rows),
         NEW t \in Tasks, NEW row \in Row, row.ver <= Len(hist[t])
  PROVE  /\ SetDetail(c, t, row) \in [Queries -> Entries]
         /\ \A q \in Queries : /\ Bounded(SetDetail(c, t, row)[q].rows)
                               /\ SetDetail(c, t, row)[q].fetch = c[q].fetch
<1> DEFINE rows == [x \in Tasks |-> IF x = t THEN row ELSE Blank]
           e == Put(c[t], rows)
<1>1. rows \in [Tasks -> Row] /\ Bounded(rows) BY RowAlone DEF BInv
<1>2. rows \in Rows /\ t \in Queries BY <1>1, Basics DEF Rows
<1> HIDE DEF rows
<1>3. e \in Entries BY <1>2, EntryTypes
<1>4. e.rows = rows /\ e.fetch = c[t].fetch BY <1>2 DEF Put, Entries
<1> HIDE DEF e
<1>5. SetDetail(c, t, row) = [c EXCEPT ![t] = e] BY DEF SetDetail, e, rows
<1> QED BY <1>1, <1>2, <1>3, <1>4, <1>5

\* The row of an answer, in every list.
LEMMA ListsPut ==
  ASSUME BInv, NEW t \in Tasks, NEW row \in Row, row.ver <= Len(hist[t])
  PROVE  LET answer(old) == row
             c == MapLists(cache, t, answer)
         IN  /\ c \in [Queries -> Entries]
             /\ \A q \in Queries : Bounded(c[q].rows) /\ c[q].fetch = cache[q].fetch
<1> DEFINE new(q) == [cache[q].rows EXCEPT ![t] = IF cache[q].rows[t].status = Gone THEN cache[q].rows[t] ELSE row]
           e(q) == IF q \in Lists /\ cache[q].rows # None THEN Put(cache[q], new(q)) ELSE cache[q]
           c == [q \in Queries |-> e(q)]
<1>1. SUFFICES /\ c \in [Queries -> Entries]
               /\ \A q \in Queries : Bounded(c[q].rows) /\ c[q].fetch = cache[q].fetch
  BY DEF MapLists
<1>2. ASSUME NEW q \in Queries PROVE GoodEntry(q, e(q)) /\ e(q).fetch = cache[q].fetch
  <2>1. GoodEntry(q, cache[q]) /\ cache[q] \in Entries BY CacheGood DEF GoodEntry
  <2>2. CASE q \in Lists /\ cache[q].rows # None
    <3>1. cache[q].rows \in [Tasks -> Row] /\ Bounded(cache[q].rows)
      BY <2>1, <2>2 DEF GoodEntry, Entries, Rows
    <3>2. \A r \in Row : r.ver <= Len(hist[t]) =>
            [cache[q].rows EXCEPT ![t] = r] \in [Tasks -> Row] /\ Bounded([cache[q].rows EXCEPT ![t] = r])
      BY <3>1, RowPut
    <3>3. cache[q].rows[t] \in Row /\ cache[q].rows[t].ver <= Len(hist[t]) BY <2>2, <3>1 DEF Bounded
    <3>4. new(q) \in [Tasks -> Row] /\ Bounded(new(q)) BY <3>2, <3>3
    <3> HIDE DEF new
    <3>5. Put(cache[q], new(q)).fetch = cache[q].fetch BY <2>1 DEF Put, Entries
    <3> QED BY <2>1, <2>2, <3>4, <3>5, PutGood
  <2>3. CASE ~(q \in Lists /\ cache[q].rows # None) BY <2>1, <2>3
  <2> QED BY <2>2, <2>3
<1> HIDE DEF e
<1>3. c \in [Queries -> Entries] BY <1>2 DEF GoodEntry
<1> QED BY <1>2, <1>3 DEF GoodEntry

LEMMA MoveDoneBInv ==
  ASSUME BInv, NEW m \in Moves, MoveDone(m)
  PROVE  BInv'
<1> DEFINE t == moves[m].task
           row == moves[m].row
           answer(old) == row
           lists == MapLists(cache, t, answer)
           synced == SetDetail(lists, t, row)
<1>1. /\ moves[m].at = "read" /\ Render(InvalidateTasks(synced)) /\ Newest(t, row.ver)
      /\ moves' = [moves EXCEPT ![m] = [at |-> "settled"]]
      /\ UNCHANGED <<hist, shown, nav, advancing, deleting, changes, saving, others, visits, lapses>>
  BY DEF MoveDone
<1>2. t \in Tasks /\ row \in Row /\ row.ver <= Len(hist[t]) /\ row.ver \in Nat
  BY <1>1, MoveKinds DEF BInv, MoveInv, Row
<1>3. lists \in [Queries -> Entries] /\ \A q \in Queries : Bounded(lists[q].rows) /\ lists[q].fetch = cache[q].fetch
  BY <1>2, ListsPut
<1> HIDE DEF lists
<1>4. synced \in [Queries -> Entries] /\ \A q \in Queries : Bounded(synced[q].rows) /\ synced[q].fetch = cache[q].fetch
  BY <1>2, <1>3, DetailPut
<1>5. known' \in [Tasks -> Nat] /\ \A u \in Tasks : known'[u] <= Len(hist[u]) BY <1>1, <1>2, NewestKnown
<1> HIDE DEF synced, t, row
<1>6. cache' = InvalidateTasks(synced) /\ drag' = Followed(cache'[shown])
      /\ form' = IF form = None THEN None ELSE Reseeded(cache'[open])
  BY <1>1 DEF Render
<1>7. \A q \in Queries : OpenDetail(q)' => OpenDetail(q) BY <1>1 DEF OpenDetail, nav
<1>8. cache' \in [Queries -> Entries] /\ VersionInv' /\ FetchInv' /\ RestInv'
  BY <1>1, <1>4, <1>5, <1>6, <1>7, InvalidatedCache
<1>9. form' \in Form \cup {None} /\ FormInv' /\ drag' \in [task : Tasks, source : Columns] \cup {None}
  BY <1>1, <1>6, <1>8, FormFollows, DragFollows DEF BInv, FormInv, nav
<1>10. /\ moves' \in [Moves -> MoveStates] /\ moves'[m] = [at |-> "settled"]
       /\ \A n \in Moves : n # m => moves'[n] = moves[n]
  BY <1>1 DEF BInv, Typed, MoveStates
<1>11. MoveInv(m)' BY <1>10 DEF MoveInv
<1>12. NavTyped' /\ changes' \in [Changes -> ChangeStates] BY <1>1 DEF BInv, Typed, NavTyped, nav
<1> QED BY <1>1, <1>5, <1>8, <1>9, <1>10, <1>11, <1>12, AppBInv

LEMMA MoveFailedBInv ==
  ASSUME BInv, NEW m \in Moves, MoveFailed(m)
  PROVE  BInv'
<1> DEFINE back == moves[m].back
           restored == [q \in Queries |-> IF back[q] = None THEN cache[q] ELSE Put(cache[q], back[q])]
<1>1. /\ moves[m].at = "failed" /\ Render(InvalidateTasks(restored))
      /\ moves' = [moves EXCEPT ![m] = [at |-> "settled"]]
      /\ UNCHANGED <<hist, shown, nav, advancing, deleting, changes, saving, known, others, visits, lapses>>
  BY DEF MoveFailed
<1>2. back \in [Queries -> Rows] /\ \A q \in Queries : Bounded(back[q])
  BY <1>1, MoveKinds DEF BInv, MoveInv
<1> HIDE DEF back
<1>3. ASSUME NEW q \in Queries PROVE GoodEntry(q, restored[q]) /\ restored[q].fetch = cache[q].fetch
  <2>1. GoodEntry(q, cache[q]) /\ cache[q] \in Entries BY CacheGood DEF GoodEntry
  <2>2. CASE back[q] # None
    <3>1. back[q] \in [Tasks -> Row] BY <1>2, <2>2 DEF Rows
    <3>2. Put(cache[q], back[q]).fetch = cache[q].fetch BY <2>1 DEF Put, Entries
    <3> QED BY <1>2, <2>1, <2>2, <3>1, <3>2, PutGood
  <2> QED BY <2>1, <2>2
<1>4. restored = [q \in Queries |-> restored[q]] OBVIOUS
<1> HIDE DEF restored
<1>5. restored \in [Queries -> Entries] /\ \A q \in Queries : Bounded(restored[q].rows) /\ restored[q].fetch = cache[q].fetch
  BY <1>3, <1>4 DEF GoodEntry
<1>6. cache' = InvalidateTasks(restored) /\ drag' = Followed(cache'[shown])
      /\ form' = IF form = None THEN None ELSE Reseeded(cache'[open])
  BY <1>1 DEF Render
<1>7. \A q \in Queries : OpenDetail(q)' => OpenDetail(q) BY <1>1 DEF OpenDetail, nav
<1>8. known' \in [Tasks -> Nat] /\ \A u \in Tasks : known'[u] <= Len(hist[u])
  BY <1>1 DEF BInv, Typed, VersionInv
<1>9. cache' \in [Queries -> Entries] /\ VersionInv' /\ FetchInv' /\ RestInv'
  BY <1>1, <1>5, <1>6, <1>7, <1>8, InvalidatedCache
<1>10. form' \in Form \cup {None} /\ FormInv' /\ drag' \in [task : Tasks, source : Columns] \cup {None}
  BY <1>1, <1>6, <1>9, FormFollows, DragFollows DEF BInv, FormInv, nav
<1>11. /\ moves' \in [Moves -> MoveStates] /\ moves'[m] = [at |-> "settled"]
       /\ \A n \in Moves : n # m => moves'[n] = moves[n]
  BY <1>1 DEF BInv, Typed, MoveStates
<1>12. MoveInv(m)' BY <1>11 DEF MoveInv
<1>13. NavTyped' /\ changes' \in [Changes -> ChangeStates] BY <1>1 DEF BInv, Typed, NavTyped, nav
<1> QED BY <1>1, <1>8, <1>9, <1>10, <1>11, <1>12, <1>13, AppBInv

LEMMA ChangeDoneBInv ==
  ASSUME BInv, NEW c \in Changes, ChangeDone(c)
  PROVE  BInv'
<1> DEFINE t == changes[c].task
           row == changes[c].row
           synced == IF changes[c].kind = "update" THEN SetDetail(cache, t, row) ELSE cache
<1>1. /\ changes[c].at = "stored" /\ cache' = InvalidateTasks(synced)
      /\ drag' = Followed(InvalidateTasks(synced)[shown]) /\ Newest(t, row.ver)
      /\ IF c \in {saving, deleting}
           THEN GoBack /\ form' = None
           ELSE /\ form' = IF form = None THEN None ELSE Reseeded(InvalidateTasks(synced)[open])
                /\ UNCHANGED <<nav, advancing, deleting, saving>>
      /\ changes' = [changes EXCEPT ![c] = [at |-> "settled"]]
      /\ UNCHANGED <<hist, shown, moves, others, visits, lapses>>
  BY DEF ChangeDone
<1>2. t \in Tasks /\ row \in Row /\ row.ver <= Len(hist[t]) /\ row.ver \in Nat
  BY <1>1, ChangeKinds DEF BInv, ChangeInv, Row
<1>3. synced \in [Queries -> Entries] /\ \A q \in Queries : Bounded(synced[q].rows) /\ synced[q].fetch = cache[q].fetch
  <2>1. cache \in [Queries -> Entries] /\ \A q \in Queries : Bounded(cache[q].rows)
    BY DEF BInv, Typed, VersionInv
  <2> QED BY <1>2, <2>1, DetailPut
<1>4. known' \in [Tasks -> Nat] /\ \A u \in Tasks : known'[u] <= Len(hist[u]) BY <1>1, <1>2, NewestKnown
<1> HIDE DEF synced, t, row
<1>5. NavTyped' /\ \A q \in Queries : OpenDetail(q)' => OpenDetail(q)
  <2>1. CASE GoBack BY <2>1, GoingBack DEF BInv
  <2>2. CASE UNCHANGED <<nav, advancing, deleting, saving>>
    BY <2>2 DEF BInv, Typed, NavTyped, OpenDetail, nav
  <2> QED BY <1>1, <2>1, <2>2
<1>6. cache' \in [Queries -> Entries] /\ VersionInv' /\ FetchInv' /\ RestInv'
  BY <1>1, <1>3, <1>4, <1>5, InvalidatedCache
<1>7. form' \in Form \cup {None} /\ FormInv'
  <2>1. CASE GoBack /\ form' = None BY <2>1, GoingBack DEF BInv, FormInv
  <2>2. CASE /\ form' = IF form = None THEN None ELSE Reseeded(cache'[open])
             /\ UNCHANGED <<nav, advancing, deleting, saving>>
    BY <1>6, <2>2, FormFollows DEF BInv, FormInv, nav
  <2> QED BY <1>1, <2>1, <2>2
<1>8. drag' \in [task : Tasks, source : Columns] \cup {None} BY <1>1, DragFollows DEF BInv
<1>9. /\ changes' \in [Changes -> ChangeStates] /\ changes'[c] = [at |-> "settled"]
      /\ \A d \in Changes : d # c => changes'[d] = changes[d]
  BY <1>1 DEF BInv, Typed, ChangeStates
<1>10. ChangeInv(c)' BY <1>9 DEF ChangeInv
<1>11. moves' \in [Moves -> MoveStates] /\ moves' = moves BY <1>1 DEF BInv, Typed
<1> QED BY <1>1, <1>4, <1>5, <1>6, <1>7, <1>8, <1>9, <1>10, <1>11, AppBInv

-----------------------------------------------------------------------------
(* The invariant *)

LEMMA InitBInv ==
  ASSUME Init
  PROVE  BInv
<1>1. PICK initial \in SUBSET Tasks : hist =
        [t \in Tasks |-> << IF t \in initial THEN [status |-> "TODO", text |-> CHOOSE x \in Texts : TRUE]
                            ELSE [status |-> Gone, text |-> None] >>]
  BY DEF Init
<1>2. \A t \in Tasks : \E v \in Value : hist[t] = <<v>>
  <2> DEFINE any == CHOOSE x \in Texts : TRUE
  <2>1. any \in Texts BY SomeText
  <2> SUFFICES ASSUME NEW t \in Tasks PROVE \E v \in Value : hist[t] = <<v>> OBVIOUS
  <2>2. hist[t] = << IF t \in initial THEN [status |-> "TODO", text |-> any] ELSE [status |-> Gone, text |-> None] >>
    BY <1>1
  <2> HIDE DEF any
  <2>3. [status |-> "TODO", text |-> any] \in Value /\ [status |-> Gone, text |-> None] \in Value
    BY <2>1 DEF Value, Status, Columns
  <2> QED BY <2>2, <2>3
<1>3. \A t \in Tasks : hist[t] \in Seq(Value) /\ hist[t] # <<>> /\ Len(hist[t]) = 1
  <2> SUFFICES ASSUME NEW t \in Tasks PROVE hist[t] \in Seq(Value) /\ hist[t] # <<>> /\ Len(hist[t]) = 1
    OBVIOUS
  <2>1. PICK v \in Value : hist[t] = <<v>> BY <1>2
  <2>2. <<v>> \in Seq(Value) /\ <<v>> # <<>> /\ Len(<<v>>) = 1 OBVIOUS
  <2> QED BY <2>1, <2>2
<1>4. hist \in [Tasks -> Seq(Value)]
  <2> DEFINE v(t) == << IF t \in initial THEN [status |-> "TODO", text |-> CHOOSE x \in Texts : TRUE]
                        ELSE [status |-> Gone, text |-> None] >>
  <2>1. hist = [t \in Tasks |-> v(t)] BY <1>1
  <2> HIDE DEF v
  <2> QED BY <1>3, <2>1
<1>5. \A q \in Queries : cache[q] \in {Fetching(Entry(None, "stale")), Entry(None, "stale")}
  BY DEF Init
<1>6. \A q \in Queries : cache[q] \in Entries /\ cache[q].rows = None /\ cache[q].fetch \in {None, Asked, Waiting}
  <2> DEFINE e == Entry(None, "stale")
  <2>1. e \in Entries /\ e.rows = None /\ e.fetch = None BY DEF Entry, Entries, Rows
  <2> HIDE DEF e
  <2>2. Fetching(e) \in Entries BY <2>1, EntryTypes
  <2>3. Fetching(e).rows = None /\ Fetching(e).fetch \in {Asked, Waiting} BY <2>1 DEF Fetching, Entries
  <2> QED BY <1>5, <2>1, <2>2, <2>3 DEF e
<1>7. cache \in [Queries -> Entries]
  <2>1. cache = [q \in Queries |-> cache[q]] BY DEF Init
  <2> QED BY <1>6, <2>1
<1>8. moves \in [Moves -> MoveStates] /\ \A m \in Moves : moves[m] = Idle BY DEF Init, MoveStates
<1>9. changes \in [Changes -> ChangeStates] /\ \A c \in Changes : changes[c] = Idle BY DEF Init, ChangeStates
<1>10. Typed BY <1>3, <1>4, <1>7, <1>8, <1>9, Basics, Bounds DEF Init, Typed
<1>11. FormInv BY DEF Init, FormInv
<1>12. VersionInv BY <1>3, <1>6 DEF Init, VersionInv, Bounded
<1>13. FetchInv BY <1>6 DEF FetchInv
<1>14. RestInv BY <1>6 DEF RestInv
<1>15. \A m \in Moves : MoveInv(m) BY <1>8 DEF MoveInv, Idle
<1>16. \A c \in Changes : ChangeInv(c) BY <1>9 DEF ChangeInv, Idle
<1> QED BY <1>10, <1>11, <1>12, <1>13, <1>14, <1>15, <1>16 DEF BInv

LEMMA StutterBInv ==
  ASSUME BInv, UNCHANGED vars
  PROVE  BInv'
<1>1. /\ UNCHANGED <<hist, cache, shown, nav, moves, advancing, deleting, changes, saving, known, others, visits, lapses>>
      /\ UNCHANGED <<form, drag>>
  BY DEF vars
<1>2. NavTyped' /\ FormInv' /\ visits' \in 0..MaxVisits /\ form' \in Form \cup {None}
      /\ drag' \in [task : Tasks, source : Columns] \cup {None} /\ changes' \in [Changes -> ChangeStates]
      /\ \A q \in Queries : OpenDetail(q)' => OpenDetail(q)
  BY <1>1 DEF BInv, Typed, NavTyped, FormInv, OpenDetail, nav
<1> QED BY <1>1, <1>2, TouchBInv

LEMMA UserBInv ==
  ASSUME BInv, User
  PROVE  BInv'
<1>1. ASSUME NEW k \in Lists, Search(k) PROVE BInv' BY <1>1, SearchBInv
<1>2. ASSUME NEW t \in Tasks, OpenTask(t) PROVE BInv' BY <1>2, OpenTaskBInv
<1>3. CASE OpenEdit BY <1>3, OpenEditBInv
<1>4. CASE OpenCreate BY <1>4, OpenCreateBInv
<1>5. CASE Back BY <1>5, BackBInv
<1>6. CASE (\E x \in Texts : TypeText(x)) \/ (\E t \in Tasks : LongPress(t)) \/ LetGo BY <1>6, FingerBInv
<1>7. ASSUME NEW m \in Moves, Advance(m) PROVE BInv' BY <1>7, AdvanceBInv
<1>8. ASSUME NEW m \in Moves, NEW s \in Columns, Drop(m, s) PROVE BInv' BY <1>8, DropBInv
<1>9. ASSUME NEW c \in Changes, SubmitEdit(c) PROVE BInv' BY <1>9, SubmitEditBInv
<1>10. ASSUME NEW c \in Changes, Delete(c) PROVE BInv' BY <1>10, DeleteBInv
<1>11. ASSUME NEW c \in Changes, NEW t \in Tasks, NEW x \in Texts, SubmitCreate(c, t, x) PROVE BInv'
  BY <1>11, SubmitCreateBInv
<1> QED BY <1>1, <1>2, <1>3, <1>4, <1>5, <1>6, <1>7, <1>8, <1>9, <1>10, <1>11 DEF User

LEMMA MutationBInv ==
  ASSUME BInv, (\E m \in Moves : MoveStep(m)) \/ (\E c \in Changes : ChangeStep(c))
  PROVE  BInv'
<1>1. ASSUME NEW m \in Moves, MoveStep(m) PROVE BInv'
  BY <1>1, ResumeMoveBInv, StoreMoveBInv, RefuseMoveBInv, ReadMovedBInv, MoveDoneBInv, MoveFailedBInv DEF MoveStep
<1>2. ASSUME NEW c \in Changes, ChangeStep(c) PROVE BInv'
  BY <1>2, ResumeChangeBInv, StoreChangeBInv, ChangeOverBInv, ChangeDoneBInv DEF ChangeStep
<1> QED BY <1>1, <1>2

LEMMA QueryBInv ==
  ASSUME BInv, NEW q \in Queries, FetchStep(q) \/ Refetch(q) \/ Expire(q)
  PROVE  BInv'
BY ServerAnswersBInv, WaitingBInv, FetchDoneBInv, FetchFailedBInv, RefetchBInv, ExpireBInv DEF FetchStep

LEMMA NextBInv ==
  ASSUME BInv, [Next]_vars
  PROVE  BInv'
<1>1. CASE User BY <1>1, UserBInv
<1>2. CASE (\E m \in Moves : MoveStep(m)) \/ (\E c \in Changes : ChangeStep(c)) BY <1>2, MutationBInv
<1>3. ASSUME NEW q \in Queries, FetchStep(q) \/ Refetch(q) \/ Expire(q) PROVE BInv' BY <1>3, QueryBInv
<1>4. ASSUME NEW t \in Tasks, OtherClient(t) PROVE BInv' BY <1>4, OtherClientBInv
<1>5. CASE Connect BY <1>5, ConnectBInv
<1>6. CASE UNCHANGED vars BY <1>6, StutterBInv
<1> QED BY <1>1, <1>2, <1>3, <1>4, <1>5, <1>6 DEF Next

\* The board, its screens, its mutations and the query cache never leave the
\* invariant, whatever order the touches, requests and answers come in.
THEOREM BoardInvariant == Spec => []BInv
<1>1. Init => BInv BY InitBInv
<1>2. BInv /\ [Next]_vars => BInv' BY NextBInv
<1> QED BY <1>1, <1>2, PTL DEF Spec

\* There is a connection or there is none.
Known == online \in BOOLEAN

\* Every part of the state has the type the code gives it.
THEOREM BoardTypeCorrect == Spec => []TypeOK
<1>1. Init => Known BY DEF Init, Known
<1>2. Known /\ [Next]_vars => Known'
  <2> SUFFICES ASSUME Known, [Next]_vars PROVE Known' OBVIOUS
  <2>1. Connect \/ UNCHANGED online BY DEF Next, vars, MoveStep, ChangeStep, FetchStep
  <2>2. CASE Connect BY <2>2, Zenon DEF Connect, Known
  <2>3. CASE UNCHANGED online BY <2>3 DEF Known
  <2> QED BY <2>1, <2>2, <2>3
<1>3. BInv /\ Known => TypeOK BY DEF BInv, TypeOK, Known
<1> QED BY <1>1, <1>2, <1>3, BoardInvariant, PTL DEF Spec

\* With all status mutations settled no status the client made up, by an
\* optimistic change or a rollback, is taken for fresh data.
THEOREM PhantomsNeverFresh == Spec => []NoFreshPhantom
<1>1. BInv => NoFreshPhantom BY DEF BInv, RestInv, NoFreshPhantom, Real
<1> QED BY <1>1, BoardInvariant, PTL

\* A mounted query that is fresh and at rest shows every own write whose
\* answer arrived, unless the invalidation joined an older fetch.
THEOREM OwnWritesRead == Spec => []ReadYourWrites
<1>1. BInv => ReadYourWrites BY DEF BInv, RestInv, ReadYourWrites, UpToDate, Settled
<1> QED BY <1>1, BoardInvariant, PTL

\* A full update sent from a detail at rest leaves the status alone when
\* nobody wrote the task since the last own write confirmed before it.
THEOREM EditsKeepMoves == Spec => []EditKeepsOwnMoves
<1>1. BInv => EditKeepsOwnMoves BY DEF BInv, ChangeInv, EditKeepsOwnMoves
<1> QED BY <1>1, BoardInvariant, PTL
============================================================================
