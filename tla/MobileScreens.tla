----------------------------- MODULE MobileScreens -----------------------------
(***************************************************************************)
(* The events, divisions, finance and members tabs of the mobile app: a    *)
(* list, the detail of one of its rows, and the forms that create and edit *)
(* rows, over the query cache.  A behaviour stays in one of the tabs.      *)
(*                                                                         *)
(* The content of a query is the number of the newest write it reflects.   *)
(* Which queries a mutation refreshes is up to its hook; which queries     *)
(* show its effect is up to the screens.  What the screens offer depends   *)
(* on the role they know, what the backend accepts on the role in the      *)
(* access token.  The library is modelled as in TaskBoard.                 *)
(***************************************************************************)
EXTENDS Integers

CONSTANTS Kinds,      \* tabs considered, among "events", "divisions", "finance", "members"
          Calls,      \* mutations that may be under way at once
          MaxWrites,  \* bound on the writes the server accepts
          MaxLapses,  \* bound on refetches by age or by pull, and on requests
                      \* that fail on their way
          Lapsing,    \* tabs in which such lapses are considered
          Choices     \* whether there are divisions to choose from

ASSUME ConstantsAssumption ==
  /\ Kinds \subseteq {"events", "divisions", "finance", "members"}
  /\ Lapsing \subseteq Kinds /\ {MaxWrites, MaxLapses} \subseteq Nat /\ Choices \in BOOLEAN

VARIABLES kind,     \* the tab
          srv,      \* the server: newest write, newest write of the row, its deletion
          role,     \* the user's role in the organization
          claim,    \* the role in the tokens
          session,  \* the role the screens know
          stack,    \* screens that are mounted; the list is under all of them
          cache,    \* the queries
          known,    \* per query, the newest own write it is due to show
          calls,    \* the mutations
          lapses    \* refetches by age or by pull and failures so far

roles == <<role, claim, session>>
vars == <<kind, srv, roles, stack, cache, known, calls, lapses>>

Keys == {"list", "detail", "summary"}
Screens == {"list", "detail", "create", "edit"}
Nothing == -1    \* no data
Gone == -2       \* the answer 404
Broken == -3     \* no answer, retries included

-----------------------------------------------------------------------------
(* What the screens offer.                                                  *)

Manages == session = "manager"
When(condition, offers) == IF condition THEN offers ELSE {}

RowListed == cache["list"].data # Nothing /\ (srv.gone = 0 \/ cache["list"].data < srv.gone)
RowShown == cache["detail"].data # Nothing /\ ~cache["detail"].failed

\* Mutant: every user is offered the actions of the members' rows.
MemberCardForAll == {"edit", "delete"}

\* The rows of the lists.
DivisionCard == {"detail"} \cup When(Manages, {"edit", "delete"})
EventTimelineCard == {"detail"} \cup When(Manages, {"edit", "delete"})
TransactionCard == {"detail"} \cup When(Manages, {"delete"})
MemberCard == When(Manages, {"edit", "delete"})
MemberRow == When(Manages, {"roster"})

DivisionListScreen == When(RowListed, DivisionCard) \cup When(Manages, {"create"})
EventListScreen == When(RowListed, EventTimelineCard) \cup When(Manages, {"create"})
FinanceScreen == When(RowListed, TransactionCard) \cup When(Manages, {"create"})
MemberListScreen == When(RowListed, MemberCard) \cup When(Manages, {"create"})

DivisionDetailScreen == MemberRow \cup When(Manages, {"edit"})
EventDetailScreen == When(Manages, {"edit", "delete"})
\* Editing is for pending transactions, and the backend creates approved ones.
TransactionDetailScreen == When(Manages, {"delete"})

ListOffers == CASE kind = "events" -> EventListScreen [] kind = "divisions" -> DivisionListScreen
                [] kind = "finance" -> FinanceScreen [] kind = "members" -> MemberListScreen
DetailOffers == CASE kind = "events" -> EventDetailScreen [] kind = "divisions" -> DivisionDetailScreen
                  [] kind = "finance" -> TransactionDetailScreen [] kind = "members" -> {}

Top == IF "create" \in stack THEN "create" ELSE IF "edit" \in stack THEN "edit"
       ELSE IF "detail" \in stack THEN "detail" ELSE "list"
Offers == CASE Top = "list" -> ListOffers [] Top = "detail" -> When(RowShown, DetailOffers) [] OTHER -> {}

\* The write that the form of an edit screen starts from: it follows the cached
\* detail.
form == IF "edit" \in stack /\ kind # "members" THEN cache["detail"].data ELSE Nothing

\* When a form may be submitted: filled in, and not already being sent by this
\* screen.  Events and transactions belong to a division.
Pending(screen) == \E c \in Calls : calls[c].stage # "free" /\ calls[c].from = screen
CreateDivisionScreen == ~Pending("create")
CreateEventScreen == Choices /\ ~Pending("create")
CreateTransactionScreen == Choices /\ ~Pending("create")
InviteMemberScreen == ~Pending("create")
EditDivisionScreen == form # Nothing /\ ~Pending("edit")
EditEventScreen == form # Nothing /\ ~Pending("edit")
EditMemberScreen == ~Pending("edit")   \* does not look at the member

MaySubmit ==
  CASE Top = "create" -> (CASE kind = "events" -> CreateEventScreen [] kind = "divisions" -> CreateDivisionScreen
                            [] kind = "finance" -> CreateTransactionScreen [] kind = "members" -> InviteMemberScreen)
    [] Top = "edit" -> (CASE kind = "events" -> EditEventScreen [] kind = "divisions" -> EditDivisionScreen
                          [] kind = "members" -> EditMemberScreen [] OTHER -> FALSE)
    [] OTHER -> FALSE

-----------------------------------------------------------------------------
(* What the mutations refresh.                                              *)

\* Mutant: the totals are forgotten.
FinanceTouchesLists(op) == IF op = "update" THEN {"list", "detail"} ELSE {"list"}

EventsTouch(op) == {"list", "detail"}
DivisionsTouch(op) == IF op = "roster" THEN {"detail"} ELSE {"list", "detail"}
FinanceTouch(op) == IF op = "update" THEN {"list", "detail", "summary"} ELSE {"list", "summary"}
MembersTouch(op) == {"list"}

Touched(op) == CASE kind = "events" -> EventsTouch(op) [] kind = "divisions" -> DivisionsTouch(op)
                 [] kind = "finance" -> FinanceTouch(op) [] kind = "members" -> MembersTouch(op)

\* Mutant: an updated event is left to the refetch.
UpdateEventDiscards(op) == FALSE

\* The answer of an event's update is put into the cache.
UpdateEventStores(op) == kind = "events" /\ op = "update"

\* The queries whose screens show the effect of a write.  The list of divisions
\* also counts members, which a removal does not refresh.
Displays(op) == (IF op = "roster" THEN {} ELSE {"list"})
                  \cup When(op \in {"update", "roster"}, {"detail"})
                  \cup When(kind = "finance", {"summary"})

Lapse == kind \in Lapsing /\ lapses < MaxLapses /\ lapses' = lapses + 1

-----------------------------------------------------------------------------
(* The query cache.                                                         *)

Empty == [data |-> Nothing, stale |-> FALSE, failed |-> FALSE, stage |-> "idle", got |-> Nothing]

Mounted(k) == CASE k = "list" -> TRUE
                [] k = "detail" -> stack \cap {"detail", "edit"} # {} /\ kind # "members"
                [] k = "summary" -> kind = "finance"

AtRest(e) == e.stage = "idle" /\ ~e.stale /\ ~e.failed /\ e.data # Nothing

Asked(e) == [e EXCEPT !.stage = "sent"]
\* A refetch replaces a fetch under way, unless that is the first.
Refetched(e) == IF e.stage = "idle" \/ e.data # Nothing THEN Asked(e) ELSE e

Stored(op, at) ==
  IF UpdateEventStores(op) THEN [cache EXCEPT !["detail"].data = at, !["detail"].failed = FALSE] ELSE cache
Invalidated(stored, op) ==
  [k \in Keys |-> IF k \notin Touched(op) THEN stored[k]
                  ELSE LET e == [stored[k] EXCEPT !.stale = TRUE]
                       IN  IF Mounted(k) THEN Refetched(e) ELSE e]

\* A fetch under way that the invalidation does not restart may answer from
\* before the write, and counts as fresh all the same.
Overtaken(stored, k) == stored[k].stage # "idle" /\ ~(Mounted(k) /\ stored[k].data # Nothing)

\* What a query is due to show after the answer to a write.  Of two answers to
\* updates of an event the cache keeps the one that comes in last.
Due(stored, k, op, at) ==
  IF at < known[k] THEN IF k = "detail" /\ UpdateEventStores(op) THEN at ELSE known[k]
  ELSE IF Overtaken(stored, k) THEN known[k] ELSE at

FetchServed(k) ==
  /\ cache[k].stage = "sent"
  /\ \/ /\ cache' = [cache EXCEPT ![k].stage = "served",
               ![k].got = IF k # "detail" THEN srv.v ELSE IF srv.gone > 0 THEN Gone ELSE srv.row]
        /\ UNCHANGED lapses
     \/ /\ Lapse
        /\ cache' = [cache EXCEPT ![k].stage = "served", ![k].got = Broken]
  /\ UNCHANGED <<kind, srv, roles, stack, known, calls>>

FetchArrives(k) ==
  LET e == cache[k] IN
  /\ e.stage = "served"
  /\ cache' = [cache EXCEPT ![k] =
       IF e.got \in {Gone, Broken} THEN [e EXCEPT !.stage = "idle", !.failed = TRUE, !.got = Nothing]
       ELSE [Empty EXCEPT !.data = e.got]]
  /\ UNCHANGED <<kind, srv, roles, stack, known, calls, lapses>>

\* Data older than a minute, or a pull on the list.
Refetch(k) ==
  /\ Mounted(k) /\ cache[k].data # Nothing /\ cache[k].stage = "idle" /\ Lapse
  /\ cache' = [cache EXCEPT ![k] = Asked(@)]
  /\ UNCHANGED <<kind, srv, roles, stack, known, calls>>

-----------------------------------------------------------------------------
(* Screens.                                                                 *)

\* A query that gets its first observer is fetched if it has no data or stale data.
Mount(k) ==
  cache' = IF k = "detail" /\ kind # "members" /\ ~Mounted(k) /\ cache[k].stage = "idle"
                /\ (cache[k].data = Nothing \/ cache[k].stale)
             THEN [cache EXCEPT ![k] = Asked(@)] ELSE cache

Open(screen) ==
  /\ screen \in Offers \cap {"detail", "create", "edit"}
  /\ stack' = stack \cup {screen}
  /\ IF screen = "create" THEN UNCHANGED cache ELSE Mount("detail")
  /\ UNCHANGED <<kind, srv, roles, known, calls, lapses>>

\* Mutant: a mutation comes back to a screen that is gone.
OrphanedNever(screen) == calls

\* Without its screen a mutation goes on, but brings nobody back.
Orphaned(screen) ==
  [c \in Calls |-> IF calls[c].from = screen THEN [calls[c] EXCEPT !.from = "none"] ELSE calls[c]]

Back ==
  /\ Top # "list"
  /\ stack' = stack \ {Top} /\ calls' = Orphaned(Top)
  /\ UNCHANGED <<kind, srv, roles, cache, known, lapses>>

-----------------------------------------------------------------------------
(* Mutations.                                                               *)

Free == [op |-> "create", from |-> "none", stage |-> "free", result |-> "none", at |-> 0]
Call(c, op, from) ==
  /\ calls[c].stage = "free"
  /\ calls' = [calls EXCEPT ![c] = [Free EXCEPT !.op = op, !.from = from, !.stage = "sent"]]
  /\ UNCHANGED <<kind, srv, roles, stack, cache, known, lapses>>

Submit(c) == MaySubmit /\ Call(c, IF Top = "create" THEN "create" ELSE "update", Top)

\* The lists ask for a confirmation but do not wait for the answer; neither does
\* the removal from a division's roster.
DeleteListed(c) == Top = "list" /\ "delete" \in Offers /\ Call(c, "delete", "none")
DeleteShown(c) == Top = "detail" /\ "delete" \in Offers /\ ~Pending("detail") /\ Call(c, "delete", "detail")
RemoveFromRoster(c) == "roster" \in Offers /\ Call(c, "roster", "none")

\* Divisions and members are for admins and owners, going by the token.
AdminOnly == kind \in {"divisions", "members"}
\* The repository of the members has no update.
UpdateMember(op) == kind = "members" /\ op = "update"

Answered(c, result) == calls' = [calls EXCEPT ![c].stage = "served", ![c].result = result, ![c].at = srv'.v]

Serve(c) ==
  LET op == calls[c].op next == srv.v + 1 IN
  /\ calls[c].stage = "sent"
  /\ \/ /\ AdminOnly /\ claim # "manager" /\ ~UpdateMember(op)
        /\ UNCHANGED srv /\ Answered(c, "refused")
        /\ UNCHANGED lapses
     \/ /\ UpdateMember(op) \/ (op # "create" /\ srv.gone > 0) \/ srv.v = MaxWrites
        /\ UNCHANGED <<srv, lapses>> /\ Answered(c, "error")
     \/ /\ Lapse   \* it does not get there
        /\ UNCHANGED srv /\ Answered(c, "error")
     \/ /\ ~UpdateMember(op) /\ (AdminOnly => claim = "manager")
        /\ op # "create" => srv.gone = 0
        /\ next <= MaxWrites
        /\ srv' = [v |-> next, row |-> IF op \in {"update", "roster"} THEN next ELSE srv.row,
                   gone |-> IF op = "delete" THEN next ELSE srv.gone]
        /\ \/ Answered(c, "ok") /\ UNCHANGED lapses
           \/ Answered(c, "error") /\ Lapse   \* the answer is lost
  /\ UNCHANGED <<kind, roles, stack, cache, known>>

\* The hook refreshes queries; then the screen that is still there goes back.
CallArrives(c) ==
  LET call == calls[c] op == call.op stored == Stored(op, call.at) IN
  /\ call.stage = "served"
  /\ calls' = [(IF call.result = "ok" THEN Orphaned(call.from) ELSE calls) EXCEPT ![c] = Free]
  /\ \/ /\ call.result # "ok"
        /\ UNCHANGED <<cache, known, stack>>
     \/ /\ call.result = "ok"
        /\ cache' = Invalidated(stored, op)
        /\ known' = [k \in Keys |-> IF k \in Displays(op) THEN Due(stored, k, op, call.at) ELSE known[k]]
        /\ stack' = stack \ {call.from}
  /\ UNCHANGED <<kind, srv, roles, lapses>>

-----------------------------------------------------------------------------
(* Other users, and the roles.                                              *)

OtherWrites ==
  /\ srv.v < MaxWrites
  /\ \E row \in BOOLEAN, gone \in BOOLEAN :
       /\ row \/ gone => srv.gone = 0
       /\ srv' = [v |-> srv.v + 1, row |-> IF row THEN srv.v + 1 ELSE srv.row,
                  gone |-> IF gone THEN srv.v + 1 ELSE srv.gone]
  /\ UNCHANGED <<kind, roles, stack, cache, known, calls, lapses>>

\* Considered where the backend tells the roles apart.
RoleChanges ==
  /\ AdminOnly
  /\ role' = IF role = "manager" THEN "member" ELSE "manager"
  /\ UNCHANGED <<kind, srv, claim, session, stack, cache, known, calls, lapses>>

Anew(k) == IF k = "list" \/ (k = "summary" /\ kind = "finance") THEN Asked(Empty) ELSE Empty

\* The app starts again.  It asks for the role; the tokens keep theirs through
\* every refresh, until the user signs in.
Restart(signsIn) ==
  /\ session' = role /\ claim' = IF signsIn THEN role ELSE claim
  /\ stack' = {"list"} /\ calls' = [c \in Calls |-> Free]
  /\ cache' = [k \in Keys |-> Anew(k)] /\ known' = [k \in Keys |-> 0]
  /\ UNCHANGED <<kind, srv, role, lapses>>

-----------------------------------------------------------------------------
Entries == [data : Nothing .. MaxWrites, stale : BOOLEAN, failed : BOOLEAN,
            stage : {"idle", "sent", "served"}, got : Broken .. MaxWrites]
Mutations == [op : {"create", "update", "delete", "roster"}, from : Screens \cup {"none"},
              stage : {"free", "sent", "served"}, result : {"none", "ok", "error", "refused"},
              at : 0 .. MaxWrites]

TypeOK ==
  /\ kind \in Kinds
  /\ srv \in [v : 0 .. MaxWrites, row : 0 .. MaxWrites, gone : 0 .. MaxWrites]
  /\ {role, claim, session} \subseteq {"manager", "member"}
  /\ "list" \in stack /\ stack \subseteq Screens /\ ~({"create", "edit"} \subseteq stack)
  /\ cache \in [Keys -> Entries] /\ known \in [Keys -> 0 .. MaxWrites]
  /\ calls \in [Calls -> Mutations] /\ \A c \in Calls : calls[c].from \in stack \cup {"none"}
  /\ lapses \in 0 .. MaxLapses

Init ==
  /\ kind \in Kinds
  /\ srv = [v |-> 0, row |-> 0, gone |-> 0]
  /\ role \in {"manager", "member"} /\ claim = role /\ session = role
  /\ stack = {"list"}
  /\ cache = [k \in Keys |-> Anew(k)] /\ known = [k \in Keys |-> 0]
  /\ calls = [c \in Calls |-> Free] /\ lapses = 0

Next ==
  \/ \E k \in Keys : FetchServed(k) \/ FetchArrives(k) \/ Refetch(k)
  \/ \E screen \in Screens : Open(screen)
  \/ Back
  \/ \E c \in Calls : \/ Submit(c) \/ DeleteListed(c) \/ DeleteShown(c) \/ RemoveFromRoster(c)
                      \/ Serve(c) \/ CallArrives(c)
  \/ OtherWrites \/ RoleChanges
  \/ \E signsIn \in BOOLEAN : Restart(signsIn)

Spec == Init /\ [][Next]_vars

-----------------------------------------------------------------------------
(* Properties.                                                              *)

\* A query that is mounted and at rest shows every own write of this start of
\* the app that its screen is meant to show and whose answer has come in,
\* unless a first or unmounted fetch was under way then.
OwnWritesShown == \A k \in Keys : Mounted(k) /\ AtRest(cache[k]) => cache[k].data >= known[k]

\* An edit form does not start from before the user's own last edit, lest it
\* undo that edit when it is sent: for events from the moment the answer has
\* come in, for divisions once the detail has been fetched again.
EditStartsFromOwn ==
  form # Nothing /\ (kind = "events" \/ AtRest(cache["detail"])) => form >= known["detail"]

\* The backend refuses, for its role, nothing that the screens offered for the
\* role of the tokens: the guards of the screens cover those of the routes.  A
\* refusal means that the screens have learnt of a role the tokens do not have.
RefusedOnlyIfPromoted == \A c \in Calls : calls[c].result = "refused" => session # claim
=============================================================================
