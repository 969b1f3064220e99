------------------------------ MODULE WebClient ------------------------------
(***************************************************************************)
(* The web client (sekre-frontend): tabs of one browser, the SvelteKit     *)
(* server that renders their pages and runs their form actions, and what   *)
(* the backend contributes: the verdict on each call, the sessions it      *)
(* accepts and the rate limiter in front of its /auth routes.              *)
(*                                                                         *)
(* The browser holds one cookie, the access token.  Every request to the   *)
(* SvelteKit server first asks the backend's /auth/me whether the cookie   *)
(* is good, and drops the cookie in the response when that fails.  All the *)
(* users of the site share the server's address, hence the limiter's       *)
(* bucket.                                                                 *)
(***************************************************************************)
EXTENDS Integers, FiniteSets

CONSTANTS Tabs,         \* tabs of the browser
          Forms,        \* identities of filled-in forms, each filled in once
          None,         \* the absence of a form
          Slots,        \* form submissions that may be on their way at once
          MaxSessions,  \* bound on the sign-ins
          MaxWrites,    \* bound on the writes the backend accepts
          Burst,        \* tokens of the /auth limiter
          Journeys,     \* sets of pages: a behaviour goes to those of one of them
          Trouble       \* whether connections fail and time out

Lists == {"tasks", "events", "finance"}
Settings == {"profile", "security", "organization"}
Public == {"login", "register"}
Pages == Lists \cup Settings \cup Public
           \cup {"dashboard", "divisions", "division", "members", "error"}

ASSUME ConstantsAssumption ==
  /\ Tabs # {} /\ None \notin Forms
  /\ {MaxSessions, MaxWrites, Burst} \subseteq Nat \ {0}
  /\ Journeys \subseteq SUBSET Pages
  /\ Trouble \in BOOLEAN

VARIABLES cookie,  \* the session in the cookie, 0 for no cookie
          issued,  \* sessions created so far
          live,    \* sessions the backend accepts
          bucket,  \* tokens left in the /auth limiter
          db,      \* writes the backend has accepted
          copies,  \* how often each form has been written
          opened,  \* forms filled in so far
          journey, \* the pages the user goes to
          unsure,  \* forms whose answer did not both report success and close them
          reloads, \* tabs that are about to load their page anew
          tab,     \* what each tab shows
          load,    \* the page load of each tab
          post     \* form submissions on their way

vars == <<cookie, issued, live, bucket, db, copies, journey, opened, unsure, reloads, tab, load, post>>
server == <<issued, live, bucket, db, copies>>
fill == <<journey, opened, unsure, reloads>>

-----------------------------------------------------------------------------
(* What each page loads.  "answer" is "ok", "denied" (401) or "failed".     *)

\* Most pages answer a 401 with the way to the sign-in page.
OrLogin(answer, otherwise) ==
  CASE answer = "ok" -> "shown" [] answer = "denied" -> "login" [] OTHER -> otherwise

DashboardLoad(answer) == OrLogin(answer, "flagged")
TasksLoad(answer) == OrLogin(answer, "flagged")
EventsLoad(answer) == OrLogin(answer, "flagged")
FinanceLoad(answer) == OrLogin(answer, "flagged")

\* Every failure, a 401 included, gives an empty list without a message.
DivisionsLoad(answer) == IF answer = "ok" THEN "shown" ELSE "silent"

\* The rosters, tasks, events and transactions of a division are optional:
\* only the call for the division itself decides.
DivisionLoad(answer) == OrLogin(answer, "broken")

MembersLoad(answer) == IF answer = "ok" THEN "shown" ELSE "flagged"

\* Without the list of members the user counts as a plain MEMBER.
OrganizationLoad(answer) == IF answer = "ok" THEN "shown" ELSE "silent"

PageLoad(page, answer) ==
  CASE page = "dashboard" -> DashboardLoad(answer)
    [] page = "tasks" -> TasksLoad(answer)
    [] page = "events" -> EventsLoad(answer)
    [] page = "finance" -> FinanceLoad(answer)
    [] page = "divisions" -> DivisionsLoad(answer)
    [] page = "division" -> DivisionLoad(answer)
    [] page = "members" -> MembersLoad(answer)
    [] page = "organization" -> OrganizationLoad(answer)
    [] OTHER -> "shown"

\* The guards of the layouts and of the public pages.
Guarded(page, signedIn, answer) ==
  CASE page = "logout" -> "login"
    [] page \in Public -> IF signedIn THEN "dashboard" ELSE "shown"
    [] OTHER -> IF signedIn THEN PageLoad(page, answer) ELSE "login"

-----------------------------------------------------------------------------
(* What each page offers to fill in and submit.                             *)

Nothing == -1   \* the data a page shows when its load has failed

\* Calls made by the page itself look for a cookie named "token": there is
\* none, and the session cookie is hidden from scripts.
BrowserToken == 0

Listed(t) == tab[t].shown # Nothing
When(listed, kinds) == IF listed THEN kinds ELSE {}

\* A row opens the dialog that edits and deletes it; a new row needs a division
\* to choose from.  A failed load leaves neither.
TaskCard(listed) == When(listed, {"update", "delete"})
EventCard(listed) == When(listed, {"update", "delete"})
TransactionCard(listed) == When(listed, {"update", "delete"})
TaskForm(listed) == When(listed, {"create"})
EventForm(listed) == When(listed, {"create"})
TransactionForm(listed) == When(listed, {"create"})

TasksOffers(t) == TaskForm(Listed(t)) \cup TaskCard(Listed(t))
EventsOffers(t) == EventForm(Listed(t)) \cup EventCard(Listed(t))
FinanceOffers(t) == TransactionForm(Listed(t)) \cup TransactionCard(Listed(t))

DivisionCard(t) == When(Listed(t), {"delete"})

\* A failed load shows no divisions, hence never the limit of the plan.
DivisionsOffers(t) == {"create"} \cup DivisionCard(t)

\* Users found by the search of the add-member dialog.
SearchResults == IF BrowserToken \in live THEN {"user"} ELSE {}

\* The dialog submits only a user picked from the search.
DivisionOffers(t) == IF SearchResults = {} THEN {} ELSE {"add"}

AddMemberModal == {"create"}
ImportMembersModal == {"import"}
MemberModals(t) == When(Listed(t), {"role", "remove"})
MembersOffers(t) == AddMemberModal \cup ImportMembersModal \cup MemberModals(t)

OrganizationOffers(t) == When(Listed(t), {"update"})
ProfileOffers(t) == {"update"}
SecurityOffers(t) == {"update"}

Offers(t) ==
  CASE tab[t].page = "tasks" -> TasksOffers(t)
    [] tab[t].page = "events" -> EventsOffers(t)
    [] tab[t].page = "finance" -> FinanceOffers(t)
    [] tab[t].page = "divisions" -> DivisionsOffers(t)
    [] tab[t].page = "division" -> DivisionOffers(t)
    [] tab[t].page = "members" -> MembersOffers(t)
    [] tab[t].page = "organization" -> OrganizationOffers(t)
    [] tab[t].page = "profile" -> ProfileOffers(t)
    [] tab[t].page = "security" -> SecurityOffers(t)
    [] OTHER -> {}

\* What disables the button of a form while it is being sent.  The dialogs of
\* the divisions and members pages each know only of their own call; the delete
\* buttons of the lists know of none.
Busy(page, kind) ==
  IF kind \in {"role", "remove"} THEN "edit"
  ELSE IF kind = "delete" /\ page \in Lists THEN "never"
  ELSE IF page \in {"divisions", "members"} THEN kind ELSE "page"

\* Where a page leads to.
AppSidebar == {"dashboard", "divisions", "tasks", "events", "finance", "members", "profile"}
MobileNav == {"dashboard", "divisions", "tasks", "events", "finance", "members", "profile"}
Dashboard == {"tasks", "events", "finance"}
SettingsTabs(page) == IF page \in Settings THEN Settings ELSE {}
DivisionPage(t) == IF tab[t].page = "divisions" THEN When(DivisionCard(t) # {}, {"division"})
                   ELSE IF tab[t].page = "division" THEN {"divisions"} ELSE {}
Links(t) ==
  CASE tab[t].page \in Public -> Public
    [] tab[t].page = "error" -> {"dashboard"}   \* by the address bar
    [] OTHER -> AppSidebar \cup MobileNav \cup SettingsTabs(tab[t].page) \cup DivisionPage(t)
                  \cup When(tab[t].page = "dashboard", Dashboard)

-----------------------------------------------------------------------------
(* What each form action makes of the backend's verdict: the type of the    *)
(* result the page receives and what the page then reports.                 *)

Said(type, note) == [type |-> type, note |-> note]

\* The client treats an answer without data as an error, done or not.
PostSays(done, hasData) == done /\ hasData

\* The answers of the three lists' resources carry the row, if there is one left.
TaskClient(done) == PostSays(done, TRUE)
EventClient(done) == PostSays(done, TRUE)
FinanceClient(done) == PostSays(done, TRUE)

\* Their actions return errors as a plain result, which SvelteKit delivers as a
\* success.
TasksAction(done) == Said("success", IF TaskClient(done) THEN "saved" ELSE "error")
EventsAction(done) == Said("success", IF EventClient(done) THEN "saved" ELSE "error")
FinanceAction(done) == Said("success", IF FinanceClient(done) THEN "saved" ELSE "error")
DivisionsAction(done) == IF done THEN Said("redirect", "none") ELSE Said("failure", "error")
DivisionAction(done) == Said("success", IF PostSays(done, FALSE) THEN "saved" ELSE "error")
ProfileAction(done) == IF done THEN Said("success", "saved") ELSE Said("failure", "error")
OrganizationAction(done) == IF done THEN Said("success", "saved") ELSE Said("failure", "error")
SecurityAction(done) ==
  IF PostSays(done, FALSE) THEN Said("success", "saved") ELSE Said("failure", "error")

\* The endpoint answers with the member itself; the page looks for it under
\* "data", finds nothing and reports an error, done or not.
AddMember(done) == Said("json", "error")
ImportMembers(done) == Said("json", IF done THEN "saved" ELSE "error")

PageAction(page, kind, done) ==
  CASE page = "tasks" -> TasksAction(done)
    [] page = "events" -> EventsAction(done)
    [] page = "finance" -> FinanceAction(done)
    [] page = "divisions" -> DivisionsAction(done)
    [] page = "division" -> DivisionAction(done)
    [] page = "profile" -> ProfileAction(done)
    [] page = "organization" -> OrganizationAction(done)
    [] page = "security" -> SecurityAction(done)
    [] OTHER -> IF kind = "import" THEN ImportMembers(done) ELSE AddMember(done)

\* A transaction is sent as "amount", which the backend does not read, and one
\* that exists is approved, hence fixed; a deleted row is not found a second time.
Accepts(page, kind, again) == /\ ~(page = "finance" /\ kind \in {"create", "update"})
                              /\ kind = "delete" => ~again

-----------------------------------------------------------------------------
(* What the page does with the result: close its form, reload its data.     *)

ClosesOnSuccess(result) == [close |-> result.type = "success",
                            reload |-> result.type = "success", broken |-> FALSE]
TasksSettled(result) == ClosesOnSuccess(result)
EventsSettled(result) == ClosesOnSuccess(result)
FinanceSettled(result) == ClosesOnSuccess(result)
DivisionSettled(result) == ClosesOnSuccess(result)

\* The dialog stays open even when the division has been created.
DivisionsSettled(result) ==
  [close |-> FALSE, reload |-> result.type = "redirect", broken |-> result.type = "error"]

\* An import closes its dialog and opens the result's, which has the page loaded
\* anew when it is closed in turn.
MembersSettled(result) == [close |-> result.note = "saved", reload |-> FALSE, broken |-> FALSE]

\* Mutant: the form of the settings is closed without loading the page anew.
SettingsSettledUnloaded(result) ==
  [close |-> result.type = "success", reload |-> FALSE, broken |-> result.type = "error"]

SettingsSettled(result) ==
  [close |-> result.type = "success", reload |-> result.type = "success",
   broken |-> result.type = "error"]

LoginSettled(result) ==
  [close |-> FALSE, reload |-> result.type = "redirect", broken |-> result.type = "error"]
RegisterSettled(result) ==
  [close |-> FALSE, reload |-> result.type = "redirect", broken |-> result.type = "error"]

Settled(page, result) ==
  CASE page = "tasks" -> TasksSettled(result)
    [] page = "events" -> EventsSettled(result)
    [] page = "finance" -> FinanceSettled(result)
    [] page = "division" -> DivisionSettled(result)
    [] page = "divisions" -> DivisionsSettled(result)
    [] page = "members" -> MembersSettled(result)
    [] page = "login" -> LoginSettled(result)
    [] page = "register" -> RegisterSettled(result)
    [] OTHER -> SettingsSettled(result)

-----------------------------------------------------------------------------
(* State.                                                                   *)

NoLoad == [to |-> "error", stage |-> "idle", jar |-> 0, user |-> FALSE, gives |-> "shown", got |-> 0]
Sent(page) == [NoLoad EXCEPT !.to = page, !.stage = "sent", !.jar = cookie]

NoPost == [tab |-> CHOOSE t \in Tabs : TRUE, form |-> None, kind |-> "create", page |-> "error",
           stage |-> "free", jar |-> 0, user |-> FALSE, mine |-> FALSE, lost |-> FALSE,
           at |-> 0, result |-> Said("error", "none")]

Fresh(page, got) == [page |-> page, shown |-> got, form |-> None, kind |-> "create",
                     sending |-> {}, saved |-> 0]

Kinds == {"create", "update", "delete", "role", "remove", "add", "import", "signin"}
Results == [type : {"success", "failure", "redirect", "json", "error"}, note : {"none", "saved", "error"}]
Stages == {"sent", "checked", "served"}
Outcomes == {"shown", "flagged", "silent", "broken", "login", "dashboard"}

Views == [page : Pages, shown : Nothing..db, form : opened \cup {None}, kind : Kinds \cup {"result"},
          sending : SUBSET (Kinds \cup {"edit", "page"}), saved : 0..db]
Loads == [to : Pages \cup {"logout"}, stage : Stages \cup {"idle"}, jar : 0..issued,
          user : BOOLEAN, gives : Outcomes, got : Nothing..db]
Posts == [tab : Tabs, form : opened \cup {None}, kind : Kinds, page : Pages,
          stage : Stages \cup {"free"}, jar : 0..issued, user : BOOLEAN,
          mine : BOOLEAN, lost : BOOLEAN, at : Nat, result : Results]

TypeOK ==
  /\ cookie \in 0..issued /\ issued \in 0..MaxSessions /\ live \subseteq 1..issued
  /\ bucket \in 0..Burst /\ db \in 0..MaxWrites
  /\ journey \in Journeys /\ copies \in [Forms -> 0..MaxWrites]
  /\ unsure \subseteq opened /\ opened \subseteq Forms /\ reloads \subseteq Tabs
  /\ tab \in [Tabs -> Views] /\ load \in [Tabs -> Loads] /\ post \in [Slots -> Posts]

Init ==
  /\ cookie = 0 /\ issued = 0 /\ live = {} /\ bucket = Burst /\ db = 0
  /\ journey \in Journeys /\ copies = [f \in Forms |-> 0] /\ opened = {} /\ unsure = {} /\ reloads = {}
  /\ tab = [t \in Tabs |-> Fresh("login", 0)]
  /\ load = [t \in Tabs |-> NoLoad]
  /\ post = [s \in Slots |-> NoPost]

-----------------------------------------------------------------------------
(* The SvelteKit server's check of the cookie, on every request.            *)

\* /auth/me through the limiter; "ok" says whether the request has a user.
Check(jar, ok) ==
  \/ jar = 0 /\ ~ok /\ UNCHANGED bucket
  \/ jar # 0 /\ bucket = 0 /\ ~ok /\ UNCHANGED bucket
  \/ /\ jar # 0 /\ bucket > 0 /\ bucket' = bucket - 1
     /\ ok = (jar \in live) \/ (Trouble /\ ~ok)

\* The cookie after the response to a request that came with "jar".
Kept(jar, ok) == IF jar # 0 /\ ~ok THEN 0 ELSE cookie

\* Mutant: the bucket is not capped.
RefillPastBurst == /\ bucket <= Burst /\ bucket' = bucket + 1
                   /\ UNCHANGED <<cookie, issued, live, db, copies, fill, tab, load, post>>

Refill == /\ bucket < Burst /\ bucket' = bucket + 1
          /\ UNCHANGED <<cookie, issued, live, db, copies, fill, tab, load, post>>

\* A request of another user of the site, from the same address.
Neighbour == /\ bucket > 0 /\ bucket' = bucket - 1
             /\ UNCHANGED <<cookie, issued, live, db, copies, fill, tab, load, post>>

\* An access token runs out, or its account or organization is gone.
SessionEnds(c) ==
  /\ c \in live /\ live' = live \ {c}
  /\ UNCHANGED <<cookie, issued, bucket, db, copies, fill, tab, load, post>>

-----------------------------------------------------------------------------
(* Page loads.                                                              *)

Navigate(t, page) ==
  /\ load[t].stage = "idle" /\ page \in (Links(t) \cap journey) \ {tab[t].page}
  /\ load' = [load EXCEPT ![t] = Sent(page)]
  /\ UNCHANGED <<cookie, server, fill, tab, post>>

Logout(t) ==
  /\ load[t].stage = "idle" /\ tab[t].page \notin Public \cup {"error"}
  /\ load' = [load EXCEPT ![t] = Sent("logout")]
  /\ UNCHANGED <<cookie, server, fill, tab, post>>

CheckLoad(t) ==
  /\ load[t].stage = "sent"
  /\ \E ok \in BOOLEAN : /\ Check(load[t].jar, ok)
                         /\ load' = [load EXCEPT ![t].stage = "checked", ![t].user = ok]
  /\ UNCHANGED <<cookie, issued, live, db, copies, fill, tab, post>>

\* The verdict on the calls of a load or of an action.
Answers(jar) == IF jar \notin live THEN {"denied"} ELSE {"ok"} \cup IF Trouble THEN {"failed"} ELSE {}

ServeLoad(t) ==
  /\ load[t].stage = "checked"
  /\ \E answer \in Answers(load[t].jar) :
       LET gives == Guarded(load[t].to, load[t].user, answer)
       IN  load' = [load EXCEPT ![t].stage = "served", ![t].gives = gives,
                      ![t].got = IF gives = "shown" THEN db ELSE Nothing]
  /\ UNCHANGED <<cookie, server, fill, tab, post>>

\* Buttons that a page disabled and whose submissions are still on their way;
\* the others have waited for the page to be loaded.
StillSending(t) == {Busy(post[s].page, post[s].kind) :
                      s \in {r \in Slots : post[r].tab = t /\ post[r].mine /\ post[r].stage # "free"}}

\* Leaving a page drops its forms; answers still on their way find no form.
Leave(t) == post' = [s \in Slots |-> IF post[s].tab = t THEN [post[s] EXCEPT !.mine = FALSE] ELSE post[s]]

LoadArrives(t) ==
  LET l == load[t] page == IF l.gives = "broken" THEN "error" ELSE l.to IN
  /\ l.stage = "served"
  /\ cookie' = IF l.to = "logout" THEN 0 ELSE Kept(l.jar, l.user)
  /\ \/ /\ l.gives \in {"login", "dashboard"}
        /\ load' = [load EXCEPT ![t] = [Sent(l.gives) EXCEPT !.jar = cookie']]
        /\ UNCHANGED <<tab, post>>
     \/ /\ l.gives \notin {"login", "dashboard"}
        /\ load' = [load EXCEPT ![t] = NoLoad]
        /\ \/ /\ page = tab[t].page
              /\ tab' = [tab EXCEPT ![t].shown = l.got,
                           ![t].sending = IF page = "login" THEN @ ELSE @ \cap StillSending(t)]
              /\ UNCHANGED post
           \/ /\ page # tab[t].page
              /\ tab' = [tab EXCEPT ![t] = Fresh(page, l.got)]
              /\ Leave(t)
  /\ UNCHANGED <<server, fill>>

-----------------------------------------------------------------------------
(* Forms.                                                                   *)

Open(t, kind, f) ==
  /\ tab[t].form = None /\ tab[t].kind # "result" /\ kind \in Offers(t) /\ f \in Forms \ opened
  /\ tab' = [tab EXCEPT ![t].form = f, ![t].kind = kind]
  /\ opened' = opened \cup {f}
  /\ UNCHANGED <<cookie, server, journey, unsure, reloads, load, post>>

\* Escape closes a dialog also while its form is being sent.  The form of a new
\* division goes with its dialog, and what disabled its button with it.
Dismiss(t) ==
  /\ tab[t].form # None /\ tab[t].page \notin Settings
  /\ tab' = [tab EXCEPT ![t].form = None, ![t].kind = "create",
               ![t].sending = IF tab[t].page = "divisions" THEN @ \ {"create"} ELSE @]
  /\ UNCHANGED <<cookie, server, fill, load, post>>

Submitted(t, kind) == [NoPost EXCEPT !.tab = t, !.form = tab[t].form, !.kind = kind,
                         !.page = tab[t].page, !.stage = "sent", !.jar = cookie, !.mine = TRUE]

Sending(t, kind) == tab' = [tab EXCEPT ![t].sending = @ \cup ({Busy(tab[t].page, kind)} \ {"never"})]

\* Mutant: a button stays enabled while its form is being sent.
SubmitAgain(t, s) ==
  /\ tab[t].form # None /\ post[s].stage = "free" /\ tab[t].kind \notin {"role", "remove"}
  /\ post' = [post EXCEPT ![s] = Submitted(t, tab[t].kind)]
  /\ Sending(t, tab[t].kind)
  /\ UNCHANGED <<cookie, server, fill, load>>

Submit(t, s) ==
  LET kind == tab[t].kind IN
  /\ tab[t].form # None /\ Busy(tab[t].page, kind) \notin tab[t].sending /\ post[s].stage = "free"
  /\ kind \notin {"role", "remove"}
  /\ post' = [post EXCEPT ![s] = Submitted(t, kind)]
  /\ Sending(t, kind)
  /\ UNCHANGED <<cookie, server, fill, load>>

\* A call of the members page straight to the backend: without a token it is
\* refused.
BrowserCall(t, s) ==
  LET kind == tab[t].kind IN
  /\ tab[t].form # None /\ "edit" \notin tab[t].sending /\ post[s].stage = "free"
  /\ kind \in {"role", "remove"} /\ BrowserToken \notin live
  /\ post' = [post EXCEPT ![s] = [Submitted(t, kind) EXCEPT !.stage = "served", !.jar = BrowserToken,
                                     !.result = Said("json", "error")]]
  /\ Sending(t, kind)
  /\ UNCHANGED <<cookie, server, fill, load>>

\* What the two public pages let through: a form that is valid and not on its way.
LoginPage(t) == tab[t].page = "login" /\ Busy("login", "signin") \notin tab[t].sending
RegisterPage(t) == tab[t].page = "register" /\ Busy("register", "signin") \notin tab[t].sending

SubmitSignIn(t, s) ==
  /\ LoginPage(t) \/ RegisterPage(t)
  /\ post[s].stage = "free"
  /\ post' = [post EXCEPT ![s] = Submitted(t, "signin")]
  /\ Sending(t, "signin")
  /\ UNCHANGED <<cookie, server, fill, load>>

CheckPost(s) ==
  /\ post[s].stage = "sent"
  /\ \E ok \in BOOLEAN : /\ Check(post[s].jar, ok)
                         /\ post' = [post EXCEPT ![s].stage = "checked", ![s].user = ok]
  /\ UNCHANGED <<cookie, issued, live, db, copies, fill, tab, load>>

\* Nobody waits for the answer of a lost submission any more.
Served(s, answered) ==
  post' = [post EXCEPT ![s] = IF @.lost THEN NoPost ELSE [answered EXCEPT !.stage = "served"]]

\* The action calls the backend, which may refuse; its answer may be lost.
ServePost(s) ==
  LET p == post[s] IN
  /\ p.stage = "checked" /\ p.kind # "signin"
  /\ \E done \in BOOLEAN, heard \in BOOLEAN :
       /\ done => /\ p.user /\ p.jar \in live /\ db < MaxWrites
                  /\ Accepts(p.page, p.kind, copies[p.form] > 0)
       /\ heard \/ (Trouble /\ done)
       /\ db' = IF done THEN db + 1 ELSE db
       /\ copies' = IF done THEN [copies EXCEPT ![p.form] = @ + 1] ELSE copies
       /\ Served(s, [p EXCEPT !.at = db',
                        !.result = PageAction(p.page, p.kind, done /\ heard)])
  /\ UNCHANGED <<cookie, issued, live, bucket, fill, tab, load>>

\* Sign-in and registration pass the limiter, too.
ServeSignIn(s) ==
  /\ post[s].stage = "checked" /\ post[s].kind = "signin"
  /\ \/ /\ bucket = 0
        /\ Served(s, [post[s] EXCEPT !.result = Said("failure", "error")])
        /\ UNCHANGED <<issued, live, bucket>>
     \/ /\ bucket > 0 /\ bucket' = bucket - 1
        /\ \E done \in BOOLEAN, heard \in BOOLEAN :
             /\ done => issued < MaxSessions
             /\ heard \/ (Trouble /\ done)
             /\ issued' = IF done THEN issued + 1 ELSE issued
             /\ live' = IF done THEN live \cup {issued'} ELSE live
             /\ Served(s, [post[s] EXCEPT !.at = issued',
                   !.result = IF done /\ heard THEN Said("redirect", "none")
                                              ELSE Said("failure", "error")])
  /\ UNCHANGED <<cookie, db, copies, fill, tab, load>>

\* Mutant: only a success enables the button again.
EnablesOnSuccess(p, result) == result.type = "success"

\* These pages enable their button when the load has ended that the answer asks
\* for.
AwaitsLoad(p, result) ==
  p.page \in Settings \cup {"divisions", "register"} /\ Settled(p.page, result).reload

\* The login page leaves its button disabled when it is redirected; the form of
\* a new division knows only of its own answer.
Enables(p, result) ==
  ~ \/ p.page = "login" /\ result.type = "redirect"
    \/ p.page = "divisions" /\ p.kind = "create" /\ tab[p.tab].form # p.form
    \/ AwaitsLoad(p, result)

\* A row is edited and deleted in one dialog.
Dialog(kind) == IF kind \in {"update", "delete"} THEN "row" ELSE kind

\* A result closes the dialog it belongs to, whichever row that shows by now; an
\* import's takes the place of any other.
Closes(p, result) == /\ Settled(p.page, result).close
                     /\ p.kind = "import" \/ Dialog(p.kind) = Dialog(tab[p.tab].kind)

\* The tab that shows the page when the result comes in.
Shows(p, result) ==
  LET t == tab[p.tab] closes == Closes(p, result) IN
  [t EXCEPT !.form = IF closes THEN None ELSE @,
            !.kind = IF ~closes THEN @ ELSE IF p.kind = "import" THEN "result" ELSE "create",
            !.sending = IF Enables(p, result) THEN @ \ {Busy(p.page, p.kind)} ELSE @,
            !.saved = IF result.note = "saved" THEN p.at ELSE 0]

\* A result reloads the data of the page the tab is on, in place of a load that
\* is on its way.
Settle(s, result, jar) ==
  LET p == post[s] t == p.tab does == Settled(p.page, result)
      to == IF result.type # "redirect" THEN tab[t].page
            ELSE IF p.kind = "signin" THEN "dashboard" ELSE p.page
  IN  /\ tab' = IF does.broken THEN [tab EXCEPT ![t] = Fresh("error", 0)]
                ELSE IF p.mine THEN [tab EXCEPT ![t] = Shows(p, result)] ELSE tab
      /\ load' = IF does.broken THEN [load EXCEPT ![t] = NoLoad]
                 ELSE IF does.reload THEN [load EXCEPT ![t] = [Sent(to) EXCEPT !.jar = jar]] ELSE load
      /\ post' = [r \in Slots |-> IF r = s THEN (IF p.stage = "served" THEN NoPost
                                               ELSE [p EXCEPT !.mine = FALSE, !.lost = TRUE])
                    ELSE IF does.broken /\ post[r].tab = t THEN [post[r] EXCEPT !.mine = FALSE] ELSE post[r]]
      /\ unsure' = unsure \cup (IF does.close /\ result.note = "saved" THEN {} ELSE {p.form} \ {None})

PostArrives(s) ==
  LET p == post[s] IN
  /\ p.stage = "served"
  /\ cookie' = IF p.kind = "signin" /\ p.result.type = "redirect" THEN p.at ELSE Kept(p.jar, p.user)
  /\ Settle(s, p.result, cookie')
  /\ UNCHANGED <<server, journey, opened, reloads>>

\* The connection of the browser fails, whatever the server has done or will do.
PostLost(s) ==
  /\ Trouble /\ post[s].stage # "free" /\ ~post[s].lost
  /\ Settle(s, Said("error", "error"), cookie)
  /\ UNCHANGED <<cookie, server, journey, opened, reloads>>

\* Closing the result of an import starts a timer.
CloseResult(t) ==
  /\ tab[t].kind = "result"
  /\ tab' = [tab EXCEPT ![t].kind = "create"]
  /\ reloads' = reloads \cup {t}
  /\ UNCHANGED <<cookie, server, journey, opened, unsure, load, post>>

\* It loads the page anew that the tab is on by then, forms and all; the error
\* page stands at the address of the page that failed.
Reload(t) ==
  /\ t \in reloads /\ reloads' = reloads \ {t}
  /\ tab' = [tab EXCEPT ![t] = Fresh(@.page, @.shown)]
  /\ \E page \in IF tab[t].page = "error" THEN journey \cup {"error"} ELSE {tab[t].page} :
       load' = [load EXCEPT ![t] = Sent(page)]
  /\ Leave(t)
  /\ UNCHANGED <<cookie, server, journey, opened, unsure>>

-----------------------------------------------------------------------------
TabStep(t) ==
  \/ \E page \in journey : Navigate(t, page)
  \/ Logout(t) \/ CheckLoad(t) \/ ServeLoad(t) \/ LoadArrives(t)
  \/ \E f \in Forms : \E kind \in Offers(t) : Open(t, kind, f)
  \/ Dismiss(t) \/ CloseResult(t) \/ Reload(t)

PostStep(s) ==
  \/ \E t \in Tabs : Submit(t, s) \/ BrowserCall(t, s) \/ SubmitSignIn(t, s)
  \/ CheckPost(s) \/ ServePost(s) \/ ServeSignIn(s) \/ PostArrives(s) \/ PostLost(s)

Next ==
  \/ Refill \/ Neighbour
  \/ \E c \in live : SessionEnds(c)
  \/ \E t \in Tabs : TabStep(t)
  \/ \E s \in Slots : PostStep(s)

Spec == Init /\ [][Next]_vars

\* A request that has been sent is checked, served and answered; nobody has to
\* click, and the limiter has to refill at no particular time.
Answered ==
  /\ \A t \in Tabs : WF_vars(CheckLoad(t)) /\ WF_vars(ServeLoad(t)) /\ WF_vars(LoadArrives(t))
  /\ \A s \in Slots : /\ WF_vars(CheckPost(s)) /\ WF_vars(ServePost(s))
                      /\ WF_vars(ServeSignIn(s)) /\ WF_vars(PostArrives(s))

FairSpec == Spec /\ Answered

-----------------------------------------------------------------------------
(* Properties.                                                              *)

\* A form is written twice only after an answer that did not both report success
\* and close it: one that was lost, a failure reported truly or though the write
\* was done, or the redirect after a new division, which leaves the dialog open
\* and filled in.  Neither an impatient second click nor a dialog closed and
\* opened while another is on its way writes a form again.
NoDoubleRows == \A f \in Forms : copies[f] > 1 => f \in unsure

\* A page that says a form was saved shows data at least as new as that form
\* once its loads have ended, or says that it could not load it.  An import's
\* dialog stands in front of the old list until it is closed and the page is
\* loaded anew.
SavesAreShown ==
  \A t \in Tabs \ reloads : tab[t].saved > 0 /\ tab[t].kind # "result" /\ load[t].stage = "idle"
                    => tab[t].shown = Nothing \/ tab[t].shown >= tab[t].saved

\* Every page load ends, through all the redirects between the guards of the
\* sign-in page and of the pages behind it, and every button that a submission
\* disabled is enabled again, except that of the login page after a redirect.
Settles ==
  \A t \in Tabs :
    /\ load[t].stage # "idle" ~> load[t].stage = "idle"
    /\ tab[t].sending # {} ~> tab[t].sending = {} \/ tab[t].page = "login"

\* Stated by the hook ("Token is invalid, clear the cookie") and violated: a
\* session that the backend accepts is dropped when the check of its cookie
\* meets an empty bucket.
SignedOutOnlyIfInvalid ==
  [][cookie # 0 /\ cookie' = 0
       => cookie \notin live \/ \E t \in Tabs : load[t].to = "logout" /\ load[t].stage = "served"]_vars
=============================================================================
