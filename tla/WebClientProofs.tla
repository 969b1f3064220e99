--------------------------- MODULE WebClientProofs ---------------------------
(***************************************************************************)
(* Safety of WebClient for any number of tabs, forms, submissions, writes  *)
(* and sign-ins.  WInv is the inductive invariant.                         *)
(***************************************************************************)
EXTENDS WebClient, TLAPS

Used(s) == post[s].stage # "free"
Key(s) == Busy(post[s].page, post[s].kind)
Never(s) == post[s].page \in Lists /\ post[s].kind = "delete"

\* A new division's dialog has been closed, and perhaps opened again, since.
Detached(s) ==
  post[s].page = "divisions" /\ post[s].kind = "create" /\ tab[post[s].tab].form # post[s].form

\* The submission keeps its button disabled.
Blocks(s) == Used(s) /\ post[s].mine /\ ~Never(s) /\ ~Detached(s)

\* A form that is open is in one tab, on a page and of a kind that go together.
TabInv ==
  /\ \A t \in Tabs : tab[t].form # None =>
       /\ tab[t].kind \in Kinds \ {"signin"} /\ tab[t].page \notin Public
       /\ tab[t].kind = "import" => tab[t].page = "members"
  /\ \A t, u \in Tabs : tab[t].form = tab[u].form /\ tab[t].form # None => t = u

\* Submissions are of forms, except for sign-ins, whose redirect brings a
\* session; what is reported as saved has been written.
PostInv ==
  \A s \in Slots :
    /\ ~Used(s) => post[s].form = None /\ post[s].result.note = "none"
    /\ Used(s) =>
         /\ (post[s].form = None) <=> (post[s].kind = "signin")
         /\ post[s].kind = "import" => post[s].page = "members"
    /\ post[s].lost => post[s].form \in unsure \cup {None}
    /\ post[s].result.note = "saved" =>
         /\ post[s].at <= db
         /\ \/ /\ post[s].result.type = "success"
               /\ post[s].page \in Lists \cup Settings \cup {"division"}
            \/ post[s].kind = "import" /\ post[s].page = "members"
    /\ post[s].kind = "signin" /\ post[s].result.type = "redirect" => post[s].at <= issued

\* Buttons are disabled while they should be, each for one submission.
BusyInv ==
  /\ \A s \in Slots : Used(s) /\ post[s].mine => post[s].page = tab[post[s].tab].page
  /\ \A s \in Slots : Blocks(s) => Key(s) \in tab[post[s].tab].sending
  /\ \A r, s \in Slots :
       Blocks(r) /\ Blocks(s) /\ r # s /\ post[r].tab = post[s].tab => Key(r) # Key(s)

\* A form of which the tab is not in doubt is written by one submission, or by
\* the first of several deletions; while it is open, that submission is there.
FormInv ==
  /\ \A f \in Forms : /\ copies[f] <= db /\ (copies[f] > 1 => f \in unsure)
                      /\ copies[f] > 0 => f \in opened
  /\ \A t \in Tabs, s \in Slots : post[s].form = tab[t].form /\ tab[t].form # None =>
       /\ post[s].tab = t /\ post[s].page = tab[t].page /\ post[s].kind = tab[t].kind
       /\ post[s].mine \/ post[s].form \in unsure
  /\ \A r, s \in Slots : post[r].form = post[s].form /\ r # s /\ post[s].form \notin unsure \cup {None}
       => Never(s)
  /\ \A s \in Slots : post[s].form \notin unsure \cup {None} /\ post[s].stage \in {"sent", "checked"}
       => Never(s) \/ copies[post[s].form] = 0
  /\ \A t \in Tabs : tab[t].form \notin unsure \cup {None} /\ copies[tab[t].form] > 0
       => \E s \in Slots : post[s].form = tab[t].form

\* What a page says is saved it shows, or its load is on the way and will.
SavedInv ==
  \A t \in Tabs :
    /\ load[t].stage = "served" /\ load[t].to = "logout" => load[t].gives = "login"
    /\ tab[t].saved > 0 /\ tab[t].kind # "result" /\ t \notin reloads =>
         \/ load[t].stage \in {"sent", "checked"}
         \/ load[t].stage = "served" /\ (load[t].got = Nothing \/ load[t].got >= tab[t].saved)
         \/ load[t].stage = "idle" /\ (tab[t].shown = Nothing \/ tab[t].shown >= tab[t].saved)

WInv == TypeOK /\ TabInv /\ PostInv /\ BusyInv /\ FormInv /\ SavedInv

-----------------------------------------------------------------------------
(* Shapes.                                                                  *)

LEMMA Constants ==
  /\ Tabs # {} /\ None \notin Forms
  /\ MaxSessions \in Nat /\ MaxWrites \in Nat /\ Burst \in Nat
  /\ \A page \in Pages : page \notin {"logout"}
  /\ Public \subseteq Pages /\ {"error", "dashboard"} \subseteq Pages
BY ConstantsAssumption DEF Pages, Public, Lists, Settings

\* What the numbers are.
LEMMA Numbers ==
  ASSUME TypeOK
  PROVE  /\ cookie \in Nat /\ issued \in Nat /\ db \in Nat /\ bucket \in Nat
         /\ 0 \in 0..issued /\ cookie \in 0..issued
         /\ 0 \in Nothing..db /\ Nothing \in Nothing..db /\ db \in Nothing..db /\ 0 \in 0..db
         /\ 0..db \subseteq Nat /\ 0..issued \subseteq Nat
         /\ \A f \in Forms : copies[f] \in Nat
BY Constants DEF TypeOK, Nothing

\* More writes, sessions and forms: what was of a shape still is.
LEMMA Monotone ==
  ASSUME TypeOK, issued' \in Nat, issued <= issued', db' \in Nat, db <= db', opened \subseteq opened'
  PROVE  /\ Views \subseteq Views' /\ Loads \subseteq Loads' /\ Posts \subseteq Posts'
         /\ 0..issued \subseteq 0..issued' /\ 0..db \subseteq 0..db'
<1>1. 0..issued \subseteq 0..issued' /\ 0..db \subseteq 0..db' /\ Nothing..db \subseteq Nothing..db'
  BY Numbers DEF Nothing
<1>2. Views \subseteq Views' BY <1>1 DEF Views
<1>3. Loads \subseteq Loads' BY <1>1 DEF Loads
<1>4. Posts \subseteq Posts' BY <1>1 DEF Posts
<1> QED BY <1>1, <1>2, <1>3, <1>4

LEMMA Unchanged ==
  /\ UNCHANGED <<db, opened>> => Views' = Views
  /\ UNCHANGED <<db, issued>> => Loads' = Loads
  /\ UNCHANGED <<issued, opened>> => Posts' = Posts
BY DEF Views, Loads, Posts

\* The records that actions start from.
LEMMA FreshType ==
  ASSUME TypeOK, NEW page \in Pages, NEW got \in Nothing..db
  PROVE  /\ Fresh(page, got) \in Views
         /\ Fresh(page, got).page = page /\ Fresh(page, got).shown = got
         /\ Fresh(page, got).form = None /\ Fresh(page, got).saved = 0
         /\ Fresh(page, got).kind = "create"
BY Numbers DEF Fresh, Views, Kinds

LEMMA NoPostType ==
  ASSUME TypeOK
  PROVE  /\ NoPost \in Posts /\ NoPost.stage = "free" /\ NoPost.form = None
         /\ NoPost.result.note = "none" /\ NoPost.result.type = "error" /\ NoPost.mine = FALSE /\ NoPost.lost = FALSE
         /\ NoPost.kind = "create"
<1>1. (CHOOSE t \in Tabs : TRUE) \in Tabs BY Constants
<1>2. /\ Said("error", "none") \in Results
      /\ Said("error", "none").note = "none" /\ Said("error", "none").type = "error"
  BY DEF Said, Results
<1> DEFINE some == CHOOSE t \in Tabs : TRUE
           said == Said("error", "none")
<1> HIDE DEF some, said
<1>3. NoPost = [tab |-> some, form |-> None, kind |-> "create", page |-> "error",
                stage |-> "free", jar |-> 0, user |-> FALSE, mine |-> FALSE, lost |-> FALSE,
                at |-> 0, result |-> said]
  BY DEF NoPost, some, said
<1>4. some \in Tabs /\ said \in Results /\ said.note = "none" /\ said.type = "error" BY <1>1, <1>2 DEF some, said
<1> QED BY <1>3, <1>4, Numbers, Constants DEF Posts, Kinds, Stages

LEMMA NoLoadType ==
  ASSUME TypeOK
  PROVE  NoLoad \in Loads /\ NoLoad.stage = "idle"
BY Numbers, Constants DEF NoLoad, Loads, Stages, Outcomes

LEMMA SentType ==
  ASSUME TypeOK, NEW page \in Pages \cup {"logout"}, NEW jar \in 0..issued
  PROVE  /\ Sent(page) \in Loads /\ Sent(page).stage = "sent"
         /\ [Sent(page) EXCEPT !.jar = jar] \in Loads
         /\ [Sent(page) EXCEPT !.jar = jar].stage = "sent"
<1>1. \A e \in Loads : LET g == [e EXCEPT !.to = page, !.stage = "sent", !.jar = cookie]
                           h == [g EXCEPT !.jar = jar]
                       IN  g \in Loads /\ g.stage = "sent" /\ h \in Loads /\ h.stage = "sent"
  BY Numbers DEF Loads, Stages
<1> QED BY <1>1, NoLoadType DEF Sent

\* The keys of the buttons.
LEMMA Keys ==
  ASSUME NEW page \in Pages, NEW kind \in Kinds
  PROVE  /\ Busy(page, kind) \in Kinds \cup {"edit", "page", "never"}
         /\ Busy(page, kind) = "never" <=> page \in Lists /\ kind = "delete"
         /\ page = "divisions" => (Busy(page, kind) = "create" <=> kind = "create")
<1>1. CASE kind \in {"role", "remove"} BY <1>1 DEF Busy, Kinds
<1>2. CASE kind = "delete" /\ page \in Lists BY <1>2 DEF Busy, Kinds, Lists
<1>3. CASE kind \notin {"role", "remove"} /\ ~(kind = "delete" /\ page \in Lists)
  BY <1>3 DEF Busy, Kinds, Lists
<1> QED BY <1>1, <1>2, <1>3

LEMMA ActionType ==
  ASSUME NEW page \in Pages, NEW kind \in Kinds, NEW done \in BOOLEAN
  PROVE  /\ PageAction(page, kind, done) \in Results
         /\ PageAction(page, kind, done).note = "saved" =>
              \/ PageAction(page, kind, done).type = "success" /\ page \in Lists \cup Settings \cup {"division"}
              \/ kind = "import"
<1>1. \A type \in {"success", "failure", "redirect", "json", "error"}, note \in {"none", "saved", "error"} :
        /\ Said(type, note) \in Results
        /\ Said(type, note).type = type /\ Said(type, note).note = note
  BY DEF Said, Results
<1>2. CASE page \in Lists
  <2>1. PageAction(page, kind, done) = Said("success", IF done THEN "saved" ELSE "error")
    BY <1>2, "tasks" # "events" DEF Lists, PageAction, TasksAction, EventsAction, FinanceAction,
         TaskClient, EventClient, FinanceClient, PostSays
  <2> QED BY <1>1, <1>2, <2>1
<1>3. CASE page \in Settings
  <2>1. PageAction(page, kind, done) \in {Said("success", "saved"), Said("failure", "error")}
    BY <1>3 DEF Settings, PageAction, ProfileAction, OrganizationAction, SecurityAction
  <2> QED BY <1>1, <1>3, <2>1
<1>4. CASE page \in {"divisions", "division"}
  <2>1. PageAction(page, kind, done) \in
          IF page = "divisions" THEN {Said("redirect", "none"), Said("failure", "error")}
                                ELSE {Said("success", "saved"), Said("success", "error")}
    BY <1>4 DEF PageAction, DivisionsAction, DivisionAction
  <2> QED BY <1>1, <1>4, <2>1
<1>5. CASE page \notin Lists \cup Settings \cup {"divisions", "division"}
  <2>1. PageAction(page, kind, done) = IF kind = "import" THEN ImportMembers(done) ELSE AddMember(done)
    BY <1>5 DEF PageAction, Lists, Settings
  <2> QED BY <1>1, <2>1 DEF ImportMembers, AddMember
<1> QED BY <1>2, <1>3, <1>4, <1>5

LEMMA SettledType ==
  ASSUME NEW page \in Pages, NEW result \in Results
  PROVE  /\ Settled(page, result).close \in BOOLEAN /\ Settled(page, result).reload \in BOOLEAN
         /\ Settled(page, result).broken \in BOOLEAN
         /\ page \in Lists \cup Settings \cup {"division"} /\ result.type = "success" =>
              ~Settled(page, result).broken /\ Settled(page, result).reload /\ Settled(page, result).close
         /\ page = "members" => /\ ~Settled(page, result).broken
                                /\ Settled(page, result).close <=> result.note = "saved"
         /\ page = "divisions" => ~Settled(page, result).close
         /\ result.type = "error" => ~Settled(page, result).reload
<1>1. CASE page \in Lists \cup {"division"}
  BY <1>1 DEF Lists, Settled, TasksSettled, EventsSettled, FinanceSettled, DivisionSettled, ClosesOnSuccess, Settings
<1>2. CASE page \in {"divisions", "members", "login", "register"}
  BY <1>2 DEF Settled, DivisionsSettled, MembersSettled, LoginSettled, RegisterSettled, Lists, Settings
<1>3. CASE page \notin Lists \cup {"division", "divisions", "members", "login", "register"}
  <2>1. Settled(page, result) = SettingsSettled(result) BY <1>3 DEF Settled, Lists
  <2>2. /\ SettingsSettled(result).close = (result.type = "success")
        /\ SettingsSettled(result).reload = (result.type = "success")
        /\ SettingsSettled(result).broken = (result.type = "error")
    BY DEF SettingsSettled
  <2>3. page \notin {"members", "divisions"} BY <1>3
  <2> QED BY <2>1, <2>2, <2>3
<1> QED BY <1>1, <1>2, <1>3

LEMMA GuardedType ==
  ASSUME NEW page \in Pages \cup {"logout"}, NEW signedIn \in BOOLEAN, NEW answer \in {"ok", "denied", "failed"}
  PROVE  /\ Guarded(page, signedIn, answer) \in Outcomes
         /\ page = "logout" => Guarded(page, signedIn, answer) = "login"
<1>1. \A p \in Pages : PageLoad(p, answer) \in Outcomes
  <2> SUFFICES ASSUME NEW p \in Pages PROVE PageLoad(p, answer) \in Outcomes OBVIOUS
  <2>1. \A o \in {"flagged", "broken"} : OrLogin(answer, o) \in Outcomes BY DEF OrLogin, Outcomes
  <2>2. CASE p \in {"dashboard", "tasks", "events", "finance"}
    BY <2>1, <2>2 DEF PageLoad, DashboardLoad, TasksLoad, EventsLoad, FinanceLoad
  <2>3. CASE p \in {"divisions", "division", "members", "organization"}
    BY <2>1, <2>3 DEF PageLoad, DivisionsLoad, DivisionLoad, MembersLoad, OrganizationLoad, Outcomes
  <2>4. CASE p \notin {"dashboard", "tasks", "events", "finance",
                       "divisions", "division", "members", "organization"}
    BY <2>4 DEF PageLoad, Outcomes
  <2> QED BY <2>2, <2>3, <2>4
<1>2. "logout" \notin Public BY DEF Public
<1>3. CASE page = "logout" BY <1>2, <1>3 DEF Guarded, Outcomes
<1>4. CASE page \in Public BY <1>2, <1>4 DEF Guarded, Outcomes
<1>5. CASE page \notin Public \cup {"logout"} BY <1>1, <1>5 DEF Guarded, Outcomes
<1> QED BY <1>3, <1>4, <1>5

-----------------------------------------------------------------------------
(* The limiter, the sessions and the loads.                                 *)

\* What leaves tabs and submissions alone leaves their invariants.
LEMMA Frame ==
  ASSUME WInv, UNCHANGED <<tab, post, copies, unsure, db, issued, opened>>
  PROVE  TabInv' /\ PostInv' /\ BusyInv' /\ FormInv'
<1>1. \A s \in Slots : Used(s)' = Used(s) /\ Key(s)' = Key(s) /\ Never(s)' = Never(s) /\ Blocks(s)' = Blocks(s)
  BY DEF Used, Key, Never, Blocks, Detached
<1>2. TabInv' BY DEF WInv, TabInv
<1>3. PostInv' BY <1>1 DEF WInv, PostInv
<1>4. BusyInv' BY <1>1 DEF WInv, BusyInv
<1>5. FormInv' BY <1>1 DEF WInv, FormInv
<1> QED BY <1>2, <1>3, <1>4, <1>5

LEMMA ServerWInv ==
  ASSUME WInv, Refill \/ Neighbour \/ \E c \in live : SessionEnds(c)
  PROVE  WInv'
<1>1. UNCHANGED <<cookie, issued, db, copies, journey, opened, unsure, reloads, tab, load, post>>
  BY DEF Refill, Neighbour, SessionEnds, fill
<1>2. bucket' \in 0..Burst BY Constants DEF Refill, Neighbour, SessionEnds, WInv, TypeOK
<1>3. live' \subseteq 1..issued BY DEF Refill, Neighbour, SessionEnds, WInv, TypeOK
<1>4. TypeOK' BY <1>1, <1>2, <1>3, Unchanged DEF WInv, TypeOK
<1>5. SavedInv' BY <1>1 DEF WInv, SavedInv
<1> QED BY <1>1, <1>4, <1>5, Frame DEF WInv

\* A load that has been sent shows, when it comes back, what is saved.
LEMMA SentWInv ==
  ASSUME WInv, NEW t \in Tabs, NEW page \in Pages \cup {"logout"}, load' = [load EXCEPT ![t] = Sent(page)],
         UNCHANGED <<cookie, server, fill, tab, post>>
  PROVE  WInv'
<1>1. UNCHANGED <<cookie, issued, live, bucket, db, copies, journey, opened, unsure, reloads, tab, post>>
  BY DEF server, fill
<1>2. load \in [Tabs -> Loads] BY DEF WInv, TypeOK
<1>3. Sent(page) \in Loads /\ Sent(page).stage = "sent" BY SentType, Numbers DEF WInv
<1>4. TypeOK' BY <1>1, <1>2, <1>3, Unchanged DEF WInv, TypeOK
<1>5. SavedInv' BY <1>1, <1>2, <1>3 DEF WInv, SavedInv
<1> QED BY <1>1, <1>4, <1>5, Frame DEF WInv

LEMMA NavigateWInv ==
  ASSUME WInv, NEW t \in Tabs, (\E page \in journey : Navigate(t, page)) \/ Logout(t)
  PROVE  WInv'
<1>1. CASE Logout(t) BY <1>1, SentWInv DEF Logout
<1>2. CASE \E page \in journey : Navigate(t, page)
  <2>1. journey \subseteq Pages BY ConstantsAssumption DEF WInv, TypeOK
  <2> QED BY <1>2, <2>1, SentWInv DEF Navigate
<1> QED BY <1>1, <1>2

LEMMA CheckType ==
  ASSUME WInv, NEW jar, NEW ok \in BOOLEAN, Check(jar, ok)
  PROVE  bucket' \in 0..Burst
BY Constants DEF Check, WInv, TypeOK

LEMMA CheckLoadWInv ==
  ASSUME WInv, NEW t \in Tabs, CheckLoad(t)
  PROVE  WInv'
<1>1. PICK ok \in BOOLEAN : /\ Check(load[t].jar, ok)
                           /\ load' = [load EXCEPT ![t].stage = "checked", ![t].user = ok]
  BY DEF CheckLoad
<1>2. UNCHANGED <<cookie, issued, live, db, copies, journey, opened, unsure, reloads, tab, post>>
  BY DEF CheckLoad, fill
<1>3. bucket' \in 0..Burst BY <1>1, CheckType
<1>4. load \in [Tabs -> Loads] BY DEF WInv, TypeOK
<1>5. load' \in [Tabs -> Loads]
  <2>1. \A l \in Loads : [l EXCEPT !.stage = "checked", !.user = ok] \in Loads
    BY <1>1 DEF Loads, Stages
  <2> QED BY <1>1, <1>4, <2>1
<1>6. load'[t].stage = "checked" /\ \A u \in Tabs \ {t} : load'[u] = load[u]
  BY <1>1, <1>4 DEF Loads
<1>7. TypeOK' BY <1>2, <1>3, <1>5, Unchanged DEF WInv, TypeOK
<1>8. SavedInv' BY <1>2, <1>6 DEF WInv, SavedInv
<1> QED BY <1>2, <1>7, <1>8, Frame DEF WInv

LEMMA ServeLoadWInv ==
  ASSUME WInv, NEW t \in Tabs, ServeLoad(t)
  PROVE  WInv'
<1>1. load \in [Tabs -> Loads] /\ load[t] \in Loads BY DEF WInv, TypeOK
<1>2. Answers(load[t].jar) \subseteq {"ok", "denied", "failed"} BY DEF Answers
<1>3. PICK gives \in Outcomes :
        /\ load' = [load EXCEPT ![t].stage = "served", ![t].gives = gives,
                      ![t].got = IF gives = "shown" THEN db ELSE Nothing]
        /\ load[t].to = "logout" => gives = "login"
  <2>1. load[t].to \in Pages \cup {"logout"} /\ load[t].user \in BOOLEAN BY <1>1 DEF Loads
  <2>2. PICK answer \in {"ok", "denied", "failed"} :
          LET gives == Guarded(load[t].to, load[t].user, answer)
          IN  load' = [load EXCEPT ![t].stage = "served", ![t].gives = gives,
                         ![t].got = IF gives = "shown" THEN db ELSE Nothing]
    BY <1>2 DEF ServeLoad
  <2> QED BY <2>1, <2>2, GuardedType
<1> DEFINE got == IF gives = "shown" THEN db ELSE Nothing
<1>4. UNCHANGED <<cookie, issued, live, bucket, db, copies, journey, opened, unsure, reloads, tab, post>>
  BY DEF ServeLoad, server, fill
<1>5. got \in Nothing..db BY Numbers DEF WInv
<1>6. got = Nothing \/ got = db OBVIOUS
<1>7. load' = [load EXCEPT ![t].stage = "served", ![t].gives = gives, ![t].got = got] BY <1>3
<1> HIDE DEF got
<1>8. load' \in [Tabs -> Loads] BY <1>1, <1>5, <1>7 DEF Loads, Stages
<1>9. /\ load'[t].stage = "served" /\ load'[t].gives = gives /\ load'[t].got = got
      /\ load'[t].to = load[t].to
      /\ \A u \in Tabs \ {t} : load'[u] = load[u]
  BY <1>1, <1>7 DEF Loads
<1>10. TypeOK' BY <1>4, <1>8, Unchanged DEF WInv, TypeOK
<1>11. SavedInv'
  <2>1. tab[t].saved \in 0..db /\ db \in Nat BY Numbers DEF WInv, TypeOK, Views
  <2>2. got = Nothing \/ got >= tab[t].saved BY <1>6, <2>1
  <2>3. load[t].to = "logout" => gives = "login" BY <1>3
  <2>4. \A u \in Tabs \ {t} : /\ load'[u] = load[u] /\ tab'[u] = tab[u]
                            /\ reloads' = reloads
    BY <1>4, <1>9
  <2>5. ASSUME NEW u \in Tabs
        PROVE  (/\ load[u].stage = "served" /\ load[u].to = "logout" => load[u].gives = "login"
                /\ tab[u].saved > 0 /\ tab[u].kind # "result" /\ u \notin reloads =>
                     \/ load[u].stage \in {"sent", "checked"}
                     \/ load[u].stage = "served" /\ (load[u].got = Nothing \/ load[u].got >= tab[u].saved)
                     \/ load[u].stage = "idle" /\ (tab[u].shown = Nothing \/ tab[u].shown >= tab[u].saved))'
    <3>1. CASE u = t BY <1>4, <1>9, <2>2, <2>3, <3>1
    <3>2. CASE u # t BY <2>4, <3>2 DEF WInv, SavedInv
    <3> QED BY <3>1, <3>2
  <2> QED BY <2>5 DEF SavedInv
<1> QED BY <1>4, <1>10, <1>11, Frame DEF WInv

\* What the invariants rest on, one record at a time.
LEMMA Records ==
  ASSUME WInv
  PROVE  /\ tab \in [Tabs -> Views] /\ load \in [Tabs -> Loads] /\ post \in [Slots -> Posts]
         /\ \A t \in Tabs : tab[t] \in Views /\ load[t] \in Loads
         /\ \A t \in Tabs : tab[t].form \in opened \cup {None} /\ tab[t].page \in Pages
         /\ \A s \in Slots : /\ post[s] \in Posts /\ post[s].tab \in Tabs /\ post[s].page \in Pages
                             /\ post[s].kind \in Kinds /\ post[s].form \in opened \cup {None}
         /\ opened \subseteq Forms /\ unsure \subseteq opened /\ None \notin opened
         /\ \A s \in Slots : post[s].form # None => Used(s) /\ post[s].kind # "signin"
<1>1. /\ tab \in [Tabs -> Views] /\ load \in [Tabs -> Loads] /\ post \in [Slots -> Posts]
      /\ opened \subseteq Forms /\ unsure \subseteq opened
  BY DEF WInv, TypeOK
<1>2. \A v \in Views : v.form \in opened \cup {None} /\ v.page \in Pages BY DEF Views
<1>3. \A p \in Posts : /\ p.tab \in Tabs /\ p.page \in Pages /\ p.kind \in Kinds
                       /\ p.form \in opened \cup {None}
  BY DEF Posts
<1>4. None \notin opened BY <1>1, Constants
<1>5. \A s \in Slots : post[s].form # None => Used(s) /\ post[s].kind # "signin"
  BY DEF WInv, PostInv
<1> QED BY <1>1, <1>2, <1>3, <1>4, <1>5

\* A tab that turns to another page forgets its forms and submissions.
LEMMA Left ==
  ASSUME WInv, NEW t \in Tabs, NEW page \in Pages, NEW got \in Nothing..db,
         tab' = [tab EXCEPT ![t] = Fresh(page, got)], Leave(t),
         UNCHANGED <<copies, unsure, db, issued, opened>>
  PROVE  /\ tab' \in [Tabs -> Views] /\ post' \in [Slots -> Posts]
         /\ TabInv' /\ PostInv' /\ BusyInv' /\ FormInv'
         /\ tab'[t].saved = 0 /\ \A u \in Tabs \ {t} : tab'[u] = tab[u]
<1>1. /\ tab' \in [Tabs -> Views] /\ tab'[t].form = None /\ tab'[t].saved = 0
      /\ \A u \in Tabs \ {t} : tab'[u] = tab[u]
  BY Records, FreshType DEF WInv
<1>2. \A p \in Posts : LET q == [p EXCEPT !.mine = FALSE] IN
        /\ q \in Posts /\ q.tab = p.tab /\ q.form = p.form /\ q.kind = p.kind /\ q.page = p.page
        /\ q.stage = p.stage /\ q.lost = p.lost /\ q.at = p.at /\ q.result = p.result /\ q.mine = FALSE
  BY DEF Posts
<1>3. post' \in [Slots -> Posts] BY <1>2, Records DEF Leave
<1>4. \A s \in Slots :
        /\ post'[s].tab = post[s].tab /\ post'[s].form = post[s].form /\ post'[s].kind = post[s].kind
        /\ post'[s].page = post[s].page /\ post'[s].stage = post[s].stage /\ post'[s].lost = post[s].lost
        /\ post'[s].at = post[s].at /\ post'[s].result = post[s].result
        /\ post[s].tab = t => post'[s].mine = FALSE
        /\ post[s].tab # t => post'[s].mine = post[s].mine
  BY <1>2, Records DEF Leave
<1>5. \A s \in Slots : /\ Used(s)' = Used(s) /\ Key(s)' = Key(s) /\ Never(s)' = Never(s)
                       /\ Blocks(s)' => post[s].tab # t /\ Blocks(s)
  BY <1>1, <1>4, Records DEF Used, Key, Never, Blocks, Detached
<1>6. TabInv' BY <1>1 DEF WInv, TabInv
<1>7. PostInv' BY <1>4, <1>5 DEF WInv, PostInv
<1>8. BusyInv'
  <2>1. \A s \in Slots : (Used(s) /\ post[s].mine)' =>
          /\ post[s].tab # t /\ post[s].page = tab[post[s].tab].page
          /\ tab'[post[s].tab] = tab[post[s].tab]
    BY <1>1, <1>4, <1>5, Records DEF WInv, BusyInv
  <2>2. \A s \in Slots : Blocks(s)' => tab'[post[s].tab] = tab[post[s].tab]
    BY <1>1, <1>5, Records
  <2> QED BY <1>4, <1>5, <2>1, <2>2 DEF WInv, BusyInv
<1>9. FormInv'
  <2>1. \A u \in Tabs : tab'[u].form # None => u # t /\ tab'[u] = tab[u] BY <1>1
  <2> QED BY <1>4, <1>5, <2>1 DEF WInv, FormInv
<1> QED BY <1>1, <1>3, <1>6, <1>7, <1>8, <1>9

\* Forms that stay as they are keep their invariant.
LEMMA FormFrame ==
  ASSUME WInv, UNCHANGED <<post, copies, unsure, db, opened>>,
         \A t \in Tabs : tab'[t].form = tab[t].form
           /\ (tab[t].form # None => tab'[t].page = tab[t].page /\ tab'[t].kind = tab[t].kind)
  PROVE  FormInv'
<1>1. \A s \in Slots : Never(s)' = Never(s) BY DEF Never
<1>2. \A f \in Forms : /\ copies'[f] <= db' /\ (copies'[f] > 1 => f \in unsure')
                       /\ copies'[f] > 0 => f \in opened'
  BY DEF WInv, FormInv
<1>3. \A t \in Tabs, s \in Slots : post'[s].form = tab'[t].form /\ tab'[t].form # None =>
        /\ post'[s].tab = t /\ post'[s].page = tab'[t].page /\ post'[s].kind = tab'[t].kind
        /\ post'[s].mine \/ post'[s].form \in unsure'
  BY DEF WInv, FormInv
<1>4. \A r, s \in Slots : post'[r].form = post'[s].form /\ r # s /\ post'[s].form \notin unsure' \cup {None}
        => Never(s)'
  BY <1>1 DEF WInv, FormInv
<1>5. \A s \in Slots : post'[s].form \notin unsure' \cup {None} /\ post'[s].stage \in {"sent", "checked"}
        => Never(s)' \/ copies'[post'[s].form] = 0
  BY <1>1 DEF WInv, FormInv
<1>6. \A t \in Tabs : tab'[t].form \notin unsure' \cup {None} /\ copies'[tab'[t].form] > 0
        => \E s \in Slots : post'[s].form = tab'[t].form
  BY DEF WInv, FormInv
<1> QED BY <1>2, <1>3, <1>4, <1>5, <1>6 DEF FormInv

LEMMA LoadArrivesWInv ==
  ASSUME WInv, NEW t \in Tabs, LoadArrives(t)
  PROVE  WInv'
<1> DEFINE l == load[t]
           page == IF l.gives = "broken" THEN "error" ELSE l.to
<1>1. /\ l \in Loads /\ l.stage = "served" /\ l.gives \in Outcomes /\ l.got \in Nothing..db
      /\ l.to \in Pages \cup {"logout"} /\ (l.to = "logout" => l.gives = "login")
  BY Records DEF LoadArrives, Loads, WInv, SavedInv
<1>2. UNCHANGED <<issued, live, bucket, db, copies, journey, opened, unsure, reloads>>
  BY DEF LoadArrives, server, fill
<1>3. cookie' \in 0..issued BY Numbers DEF LoadArrives, Kept, WInv
<1>4. CASE l.gives \in {"login", "dashboard"}
  <2>1. load' = [load EXCEPT ![t] = [Sent(l.gives) EXCEPT !.jar = cookie']] /\ UNCHANGED <<tab, post>>
    BY <1>4 DEF LoadArrives
  <2>2. l.gives \in Pages \cup {"logout"} BY <1>4 DEF Pages, Public
  <2>3. /\ [Sent(l.gives) EXCEPT !.jar = cookie'] \in Loads
        /\ [Sent(l.gives) EXCEPT !.jar = cookie'].stage = "sent"
    BY <1>3, <2>2, SentType DEF WInv
  <2>4. load' \in [Tabs -> Loads] /\ load'[t].stage = "sent" /\ \A u \in Tabs \ {t} : load'[u] = load[u]
    BY <2>1, <2>3, Records
  <2>5. TypeOK' BY <1>2, <1>3, <2>1, <2>4, Unchanged DEF WInv, TypeOK
  <2>6. SavedInv' BY <1>2, <2>1, <2>4 DEF WInv, SavedInv
  <2> QED BY <1>2, <2>1, <2>5, <2>6, Frame DEF WInv
<1>5. CASE l.gives \notin {"login", "dashboard"}
  <2>1. load' = [load EXCEPT ![t] = NoLoad] BY <1>5 DEF LoadArrives
  <2>2. load' \in [Tabs -> Loads] /\ load'[t].stage = "idle" /\ \A u \in Tabs \ {t} : load'[u] = load[u]
    BY <2>1, NoLoadType, Records DEF WInv
  <2>3. CASE page = tab[t].page
    <3> DEFINE sending == IF page = "login" THEN tab[t].sending ELSE tab[t].sending \cap StillSending(t)
    <3>1. tab' = [tab EXCEPT ![t].shown = l.got, ![t].sending = sending] /\ UNCHANGED post
      BY <1>5, <2>3, Records DEF LoadArrives
    <3>2. sending \subseteq tab[t].sending OBVIOUS
    <3>3. \A s \in Slots : post[s].tab = t /\ Used(s) /\ post[s].mine /\ Key(s) \in tab[t].sending
                          => Key(s) \in sending
      BY DEF StillSending, Used, Key
    <3> HIDE DEF sending
    <3>4. /\ tab' \in [Tabs -> Views] /\ \A u \in Tabs \ {t} : tab'[u] = tab[u]
          /\ tab'[t].shown = l.got /\ tab'[t].form = tab[t].form /\ tab'[t].page = tab[t].page
          /\ tab'[t].kind = tab[t].kind /\ tab'[t].sending = sending
          /\ tab'[t].saved = tab[t].saved
      <4>1. \A v \in Views : sending \subseteq v.sending =>
              LET g == [v EXCEPT !.shown = l.got, !.sending = sending]
              IN  /\ g \in Views /\ g.shown = l.got /\ g.form = v.form /\ g.page = v.page
                  /\ g.kind = v.kind /\ g.sending = sending /\ g.saved = v.saved
        BY <1>1 DEF Views
      <4> DEFINE view == [tab[t] EXCEPT !.shown = l.got, !.sending = sending]
      <4>2. /\ view \in Views /\ view.shown = l.got /\ view.form = tab[t].form
            /\ view.page = tab[t].page /\ view.kind = tab[t].kind /\ view.sending = sending
            /\ view.saved = tab[t].saved
        BY <3>2, <4>1, Records
      <4>3. tab' = [tab EXCEPT ![t] = view] /\ tab \in [Tabs -> Views] BY <3>1, Records
      <4> HIDE DEF view
      <4> QED BY <4>2, <4>3
    <3>5. \A u \in Tabs : /\ tab'[u].form = tab[u].form /\ tab'[u].page = tab[u].page
                          /\ tab'[u].kind = tab[u].kind /\ tab'[u].saved = tab[u].saved
      BY <3>4
    <3>6. \A s \in Slots : /\ Used(s)' = Used(s) /\ Key(s)' = Key(s) /\ Never(s)' = Never(s)
                           /\ Blocks(s)' = Blocks(s) /\ post[s].tab \in Tabs
      BY <3>1, <3>5, Records DEF Used, Key, Never, Blocks, Detached
    <3>7. TypeOK' BY <1>2, <1>3, <2>2, <3>1, <3>4, Unchanged DEF WInv, TypeOK
    <3>8. TabInv' BY <3>5 DEF WInv, TabInv
    <3>9. PostInv' BY <1>2, <3>1, <3>6 DEF WInv, PostInv
    <3>10. \A s \in Slots : Blocks(s) => Key(s) \in tab'[post[s].tab].sending
      BY <3>3, <3>4, <3>6 DEF WInv, BusyInv, Blocks
    <3>11. BusyInv'
      <4>1. \A s \in Slots : (Used(s) /\ post[s].mine => post[s].page = tab[post[s].tab].page)'
        <5> SUFFICES ASSUME NEW s \in Slots, Used(s)', post'[s].mine
                     PROVE  post'[s].page = tab'[post'[s].tab].page
          OBVIOUS
        <5>1. post' = post /\ Used(s) /\ post[s].tab \in Tabs BY <3>1, <3>6
        <5>2. post[s].page = tab[post[s].tab].page BY <5>1 DEF WInv, BusyInv
        <5>3. tab'[post[s].tab].page = tab[post[s].tab].page BY <3>5, <5>1
        <5> QED BY <5>1, <5>2, <5>3
      <4>2. \A s \in Slots : (Blocks(s) => Key(s) \in tab[post[s].tab].sending)'
        BY <3>1, <3>6, <3>10
      <4>3. \A r, s \in Slots : (Blocks(r) /\ Blocks(s) /\ r # s /\ post[r].tab = post[s].tab => Key(r) # Key(s))'
        BY <3>1, <3>6 DEF WInv, BusyInv
      <4> QED BY <4>1, <4>2, <4>3 DEF BusyInv
    <3>12. FormInv' BY <1>2, <3>1, <3>5, FormFrame
    <3>13. SavedInv' BY <1>1, <1>2, <2>2, <3>4 DEF WInv, SavedInv
    <3> QED BY <3>7, <3>8, <3>9, <3>11, <3>12, <3>13 DEF WInv
  <2>4. CASE page # tab[t].page
    <3>1. tab' = [tab EXCEPT ![t] = Fresh(page, l.got)] /\ Leave(t)
      BY <1>5, <2>4 DEF LoadArrives
    <3>2. page \in Pages BY <1>1, <1>5, Constants
    <3>3. /\ tab' \in [Tabs -> Views] /\ post' \in [Slots -> Posts]
          /\ TabInv' /\ PostInv' /\ BusyInv' /\ FormInv'
          /\ tab'[t].saved = 0 /\ \A u \in Tabs \ {t} : tab'[u] = tab[u]
      BY <1>1, <1>2, <3>1, <3>2, Left
    <3>4. TypeOK' BY <1>2, <1>3, <2>2, <3>3, Unchanged DEF WInv, TypeOK
    <3>5. SavedInv' BY <1>2, <2>2, <3>3 DEF WInv, SavedInv
    <3> QED BY <3>3, <3>4, <3>5 DEF WInv
  <2> QED BY <2>3, <2>4
<1> QED BY <1>4, <1>5

\* The result's dialog has no form of its own, and the data of its page is old
\* until the timer has run.
LEMMA CloseResultWInv ==
  ASSUME WInv, NEW t \in Tabs, CloseResult(t)
  PROVE  WInv'
<1>1. /\ UNCHANGED <<cookie, issued, live, bucket, db, copies, journey, opened, unsure, load, post>>
      /\ tab[t].kind = "result" /\ tab' = [tab EXCEPT ![t].kind = "create"] /\ reloads' = reloads \cup {t}
  BY DEF CloseResult, server
<1>2. tab[t].form = None BY <1>1 DEF WInv, TabInv, Kinds
<1>3. /\ tab' \in [Tabs -> Views] /\ \A u \in Tabs \ {t} : tab'[u] = tab[u]
      /\ \A u \in Tabs : /\ tab'[u].form = tab[u].form /\ tab'[u].page = tab[u].page
                         /\ tab'[u].shown = tab[u].shown /\ tab'[u].sending = tab[u].sending
                         /\ tab'[u].saved = tab[u].saved
  BY <1>1, Records DEF Views, Kinds
<1>4. \A s \in Slots : /\ Used(s)' = Used(s) /\ Key(s)' = Key(s) /\ Never(s)' = Never(s)
                       /\ Blocks(s)' = Blocks(s) /\ post[s].tab \in Tabs
  BY <1>1, <1>3, Records DEF Used, Key, Never, Blocks, Detached
<1>5. TypeOK' BY <1>1, <1>3, Unchanged DEF WInv, TypeOK
<1>6. TabInv' BY <1>2, <1>3 DEF WInv, TabInv
<1>7. PostInv' BY <1>1, <1>4 DEF WInv, PostInv
<1>8. BusyInv' BY <1>1, <1>3, <1>4 DEF WInv, BusyInv
<1>9. \A u \in Tabs : tab'[u].form # None => tab'[u] = tab[u] BY <1>2, <1>3
<1>10. FormInv' BY <1>1, <1>3, <1>9, FormFrame
<1>11. SavedInv' BY <1>1, <1>3 DEF WInv, SavedInv
<1> QED BY <1>5, <1>6, <1>7, <1>8, <1>10, <1>11 DEF WInv

LEMMA ReloadWInv ==
  ASSUME WInv, NEW t \in Tabs, Reload(t)
  PROVE  WInv'
<1>1. /\ UNCHANGED <<cookie, issued, live, bucket, db, copies, journey, opened, unsure>>
      /\ reloads' = reloads \ {t}
  BY DEF Reload, server
<1>2. tab[t].page \in Pages /\ tab[t].shown \in Nothing..db BY Records DEF Views
<1>3. tab' = [tab EXCEPT ![t] = Fresh(tab[t].page, tab[t].shown)] /\ Leave(t)
  BY Records DEF Reload
<1>4. /\ tab' \in [Tabs -> Views] /\ post' \in [Slots -> Posts]
      /\ TabInv' /\ PostInv' /\ BusyInv' /\ FormInv'
      /\ tab'[t].saved = 0 /\ \A u \in Tabs \ {t} : tab'[u] = tab[u]
  BY <1>1, <1>2, <1>3, Left
<1>5. PICK page \in Pages : load' = [load EXCEPT ![t] = Sent(page)]
  <2>1. journey \subseteq Pages /\ "error" \in Pages BY ConstantsAssumption, Constants DEF WInv, TypeOK
  <2> QED BY <1>2, <2>1 DEF Reload
<1>6. Sent(page) \in Loads /\ Sent(page).stage = "sent"
  BY SentType, Numbers DEF WInv
<1>7. load' \in [Tabs -> Loads] /\ load'[t].stage = "sent" /\ \A u \in Tabs \ {t} : load'[u] = load[u]
  BY <1>5, <1>6, Records
<1>8. TypeOK' BY <1>1, <1>4, <1>7, Unchanged DEF WInv, TypeOK
<1>9. SavedInv' BY <1>1, <1>4, <1>7 DEF WInv, SavedInv
<1> QED BY <1>4, <1>8, <1>9 DEF WInv

-----------------------------------------------------------------------------
(* Forms.                                                                   *)

LEMMA OffersType ==
  ASSUME NEW t \in Tabs, NEW kind \in Offers(t)
  PROVE  /\ kind \in Kinds \ {"signin"} /\ tab[t].page \notin Public
         /\ kind = "import" => tab[t].page = "members"
<1> DEFINE page == tab[t].page
<1>1. page \in {"tasks", "events", "finance", "divisions", "division", "members",
                "organization", "profile", "security"}
  BY DEF Offers
<1>2. page \notin Public BY <1>1 DEF Public
<1>3. \A c : When(c, {"update", "delete"}) \subseteq {"update", "delete"}
             /\ When(c, {"create"}) \subseteq {"create"} /\ When(c, {"delete"}) \subseteq {"delete"}
             /\ When(c, {"role", "remove"}) \subseteq {"role", "remove"}
             /\ When(c, {"update"}) \subseteq {"update"}
  BY DEF When
<1>4. CASE page \in Lists
  <2>1. Offers(t) \subseteq {"create", "update", "delete"}
    BY <1>3, <1>4 DEF Lists, Offers, TasksOffers, EventsOffers, FinanceOffers, TaskForm, TaskCard,
         EventForm, EventCard, TransactionForm, TransactionCard
  <2> QED BY <1>2, <2>1 DEF Kinds
<1>5. CASE page \in {"divisions", "division"}
  <2>1. Offers(t) \subseteq {"create", "delete", "add"}
    BY <1>3, <1>5 DEF Offers, DivisionsOffers, DivisionCard, DivisionOffers
  <2> QED BY <1>2, <2>1 DEF Kinds
<1>6. CASE page = "members"
  <2>1. Offers(t) \subseteq {"create", "import", "role", "remove"}
    BY <1>3, <1>6 DEF Offers, MembersOffers, AddMemberModal, ImportMembersModal, MemberModals
  <2> QED BY <1>2, <1>6, <2>1 DEF Kinds
<1>7. CASE page \in {"organization", "profile", "security"}
  <2>1. Offers(t) \subseteq {"update"}
    BY <1>3, <1>7 DEF Offers, OrganizationOffers, ProfileOffers, SecurityOffers
  <2> QED BY <1>2, <2>1 DEF Kinds
<1> QED BY <1>1, <1>4, <1>5, <1>6, <1>7 DEF Lists

LEMMA OpenWInv ==
  ASSUME WInv, NEW t \in Tabs, NEW f \in Forms, NEW kind \in Offers(t), Open(t, kind, f)
  PROVE  WInv'
<1>1. /\ UNCHANGED <<cookie, issued, live, bucket, db, copies, journey, unsure, reloads, load, post>>
      /\ tab[t].form = None /\ tab[t].kind # "result" /\ f \notin opened
      /\ tab' = [tab EXCEPT ![t].form = f, ![t].kind = kind] /\ opened' = opened \cup {f}
  BY DEF Open, server, fill
<1>2. /\ kind \in Kinds \ {"signin"} /\ tab[t].page \notin Public
      /\ kind = "import" => tab[t].page = "members"
  BY OffersType
<1>3. Views \subseteq Views' /\ Loads \subseteq Loads' /\ Posts \subseteq Posts'
  BY <1>1, Monotone, Numbers DEF WInv
<1>4. /\ tab'[t].form = f /\ tab'[t].kind = kind /\ tab'[t].page = tab[t].page
      /\ tab'[t].shown = tab[t].shown /\ tab'[t].sending = tab[t].sending
      /\ tab'[t].saved = tab[t].saved /\ \A u \in Tabs \ {t} : tab'[u] = tab[u]
  BY <1>1, Records DEF Views
<1>5. tab' \in [Tabs -> Views']
  <2>1. f \in opened' \cup {None} /\ kind \in Kinds \cup {"result"} BY <1>1, <1>2
  <2>2. \A v \in Views' : [v EXCEPT !.form = f, !.kind = kind] \in Views'
    BY <2>1 DEF Views
  <2>3. tab \in [Tabs -> Views'] /\ [tab[t] EXCEPT !.form = f, !.kind = kind] \in Views'
    BY <1>3, <2>2, Records
  <2> QED BY <1>1, <2>3
<1>6. TypeOK' BY <1>1, <1>3, <1>5 DEF WInv, TypeOK
<1>7. \A u \in Tabs : tab[u].form # f
  BY <1>1, Constants, Records
<1>8. TabInv' BY <1>2, <1>4, <1>7 DEF WInv, TabInv
<1>9. \A s \in Slots : Used(s)' = Used(s) /\ Key(s)' = Key(s) /\ Never(s)' = Never(s)
  BY <1>1 DEF Used, Key, Never
<1>10. \A s \in Slots : Blocks(s)' <=> Blocks(s)
  <2> SUFFICES ASSUME NEW s \in Slots, Used(s), post[s].page = "divisions", post[s].kind = "create"
               PROVE  Detached(s)' <=> Detached(s)
    BY <1>1, <1>9 DEF Blocks, Detached
  <2>1. post[s].form \in opened BY Records DEF WInv, PostInv
  <2> QED BY <1>1, <1>4, <2>1, Records DEF Detached
<1>11. PostInv' BY <1>1, <1>9 DEF WInv, PostInv
<1>12. \A u \in Tabs : tab'[u].page = tab[u].page /\ tab'[u].sending = tab[u].sending BY <1>4
<1>13. BusyInv' BY <1>1, <1>9, <1>10, <1>12, Records DEF WInv, BusyInv
<1>14. FormInv'
  <2>1. copies[f] = 0
    <3>1. ~(copies[f] > 0) /\ copies[f] \in Nat BY <1>1, Numbers DEF WInv, FormInv
    <3> QED BY <3>1
  <2>2. \A s \in Slots : post[s].form # f BY <1>1, Constants, Records
  <2>3. \A g \in Forms : /\ copies'[g] <= db' /\ (copies'[g] > 1 => g \in unsure')
                         /\ copies'[g] > 0 => g \in opened'
    BY <1>1 DEF WInv, FormInv
  <2>4. \A u \in Tabs, s \in Slots : post'[s].form = tab'[u].form /\ tab'[u].form # None =>
          /\ post'[s].tab = u /\ post'[s].page = tab'[u].page /\ post'[s].kind = tab'[u].kind
          /\ post'[s].mine \/ post'[s].form \in unsure'
    <3>1. \A u \in Tabs, s \in Slots : post[s].form = tab[u].form /\ tab[u].form # None =>
            /\ post[s].tab = u /\ post[s].page = tab[u].page /\ post[s].kind = tab[u].kind
            /\ post[s].mine \/ post[s].form \in unsure
      BY DEF WInv, FormInv
    <3>2. \A u \in Tabs, s \in Slots : post[s].form = tab'[u].form => tab'[u] = tab[u]
      BY <1>4, <2>2
    <3>3. UNCHANGED <<post, unsure>> BY <1>1
    <3> QED BY <3>1, <3>2, <3>3
  <2>5. \A u \in Tabs : tab'[u].form \notin unsure' \cup {None} /\ copies'[tab'[u].form] > 0
          => \E s \in Slots : post'[s].form = tab'[u].form
    <3>1. \A u \in Tabs : tab[u].form \notin unsure \cup {None} /\ copies[tab[u].form] > 0
            => \E s \in Slots : post[s].form = tab[u].form
      BY DEF WInv, FormInv
    <3>2. \A u \in Tabs : copies[tab'[u].form] > 0 => tab'[u] = tab[u]
      BY <1>4, <2>1
    <3>3. UNCHANGED <<post, unsure, copies>> BY <1>1
    <3> QED BY <3>1, <3>2, <3>3
  <2>6. \A r, s \in Slots : post'[r].form = post'[s].form /\ r # s /\ post'[s].form \notin unsure' \cup {None}
          => Never(s)'
    <3>1. \A r, s \in Slots : post[r].form = post[s].form /\ r # s /\ post[s].form \notin unsure \cup {None}
            => Never(s)
      BY DEF WInv, FormInv
    <3> QED BY <1>1, <1>9, <3>1
  <2>7. \A s \in Slots : post'[s].form \notin unsure' \cup {None} /\ post'[s].stage \in {"sent", "checked"}
          => Never(s)' \/ copies'[post'[s].form] = 0
    <3>1. \A s \in Slots : post[s].form \notin unsure \cup {None} /\ post[s].stage \in {"sent", "checked"}
            => Never(s) \/ copies[post[s].form] = 0
      BY DEF WInv, FormInv
    <3> QED BY <1>1, <1>9, <3>1
  <2> QED BY <2>3, <2>4, <2>5, <2>6, <2>7 DEF FormInv
<1>15. SavedInv'
  <2>1. \A u \in Tabs : /\ tab'[u].saved = tab[u].saved /\ tab'[u].shown = tab[u].shown
                        /\ tab'[u].kind # "result" => tab[u].kind # "result"
    BY <1>1, <1>4
  <2> QED BY <1>1, <2>1 DEF WInv, SavedInv
<1> QED BY <1>6, <1>8, <1>11, <1>13, <1>14, <1>15 DEF WInv

LEMMA DismissWInv ==
  ASSUME WInv, NEW t \in Tabs, Dismiss(t)
  PROVE  WInv'
<1>1. /\ UNCHANGED <<cookie, issued, live, bucket, db, copies, journey, opened, unsure, reloads, load, post>>
      /\ tab[t].form # None
      /\ tab' = [tab EXCEPT ![t].form = None, ![t].kind = "create",
                   ![t].sending = IF tab[t].page = "divisions" THEN @ \ {"create"} ELSE @]
  BY DEF Dismiss, server, fill
<1>2. /\ tab' \in [Tabs -> Views]
      /\ tab'[t].form = None /\ tab'[t].kind = "create" /\ tab'[t].page = tab[t].page
      /\ tab'[t].shown = tab[t].shown /\ tab'[t].saved = tab[t].saved
      /\ tab'[t].sending = IF tab[t].page = "divisions" THEN tab[t].sending \ {"create"}
                                                        ELSE tab[t].sending
      /\ \A u \in Tabs \ {t} : tab'[u] = tab[u]
  <2> DEFINE rest == IF tab[t].page = "divisions" THEN tab[t].sending \ {"create"} ELSE tab[t].sending
             view == [tab[t] EXCEPT !.form = None, !.kind = "create", !.sending = rest]
  <2>1. tab \in [Tabs -> Views] /\ tab[t] \in Views BY Records
  <2>2. rest \in SUBSET (Kinds \cup {"edit", "page"}) BY <2>1 DEF Views
  <2>3. view \in Views BY <2>1, <2>2 DEF Views, Kinds
  <2>4. /\ view.form = None /\ view.kind = "create" /\ view.sending = rest
        /\ view.page = tab[t].page /\ view.shown = tab[t].shown /\ view.saved = tab[t].saved
    BY <2>1, <2>2 DEF Views
  <2>5. tab' = [tab EXCEPT ![t] = view] BY <1>1, <2>1
  <2> HIDE DEF view
  <2>6. tab' \in [Tabs -> Views] /\ tab'[t] = view /\ \A u \in Tabs \ {t} : tab'[u] = tab[u]
    BY <2>1, <2>3, <2>5
  <2> QED BY <2>4, <2>6
<1>3. TypeOK' BY <1>1, <1>2, Unchanged DEF WInv, TypeOK
<1>4. TabInv' BY <1>2 DEF WInv, TabInv
<1>5. \A s \in Slots : Used(s)' = Used(s) /\ Key(s)' = Key(s) /\ Never(s)' = Never(s)
  BY <1>1 DEF Used, Key, Never
<1>6. PostInv' BY <1>1, <1>5 DEF WInv, PostInv
<1>7. \A s \in Slots : Blocks(s)' => Blocks(s) /\ Key(s) \in tab'[post[s].tab].sending
  <2> SUFFICES ASSUME NEW s \in Slots, Blocks(s)' PROVE Blocks(s) /\ Key(s) \in tab'[post[s].tab].sending
    OBVIOUS
  <2>1. Used(s) /\ post[s].mine /\ ~Never(s) /\ ~Detached(s)' BY <1>1, <1>5 DEF Blocks
  <2>2. CASE post[s].tab # t
    <3>1. tab'[post[s].tab] = tab[post[s].tab] BY <1>2, <2>2, Records
    <3> QED BY <1>1, <2>1, <3>1 DEF Blocks, Detached, WInv, BusyInv
  <2>3. CASE post[s].tab = t
    <3>1. post[s].page = tab[t].page BY <2>1, <2>3 DEF WInv, BusyInv
    <3>2. CASE tab[t].page = "divisions"
      <4>1. post[s].kind # "create"
        BY <1>1, <1>2, <2>1, <2>3, <3>1, <3>2 DEF Detached, WInv, PostInv
      <4>2. Blocks(s) BY <2>1, <4>1 DEF Blocks, Detached
      <4>3. Key(s) # "create" BY <3>1, <3>2, <4>1, Keys, Records DEF Key
      <4> QED BY <1>2, <2>3, <3>2, <4>2, <4>3 DEF WInv, BusyInv
    <3>3. CASE tab[t].page # "divisions"
      <4>1. Blocks(s) BY <2>1, <3>1, <3>3 DEF Blocks, Detached
      <4> QED BY <1>2, <2>3, <3>3, <4>1 DEF WInv, BusyInv
    <3> QED BY <3>2, <3>3
  <2> QED BY <2>2, <2>3
<1>8. BusyInv'
  <2>1. \A s \in Slots : tab'[post[s].tab].page = tab[post[s].tab].page BY <1>2, Records
  <2>2. \A s \in Slots : (Used(s) /\ post[s].mine)' => post'[s].page = tab'[post'[s].tab].page
    BY <1>1, <1>5, <2>1 DEF WInv, BusyInv
  <2>3. \A s \in Slots : Blocks(s)' => Key(s)' \in tab'[post'[s].tab].sending
    BY <1>1, <1>5, <1>7
  <2>4. \A r, s \in Slots :
          (Blocks(r) /\ Blocks(s) /\ r # s /\ post[r].tab = post[s].tab)' => Key(r)' # Key(s)'
    <3> SUFFICES ASSUME NEW r \in Slots, NEW s \in Slots, Blocks(r)', Blocks(s)', r # s,
                        post[r].tab = post[s].tab
                 PROVE  Key(r)' # Key(s)'
      BY <1>1
    <3>1. Blocks(r) /\ Blocks(s) BY <1>7
    <3>2. Key(r) # Key(s) BY <3>1 DEF WInv, BusyInv
    <3> QED BY <1>5, <3>2
  <2> QED BY <2>2, <2>3, <2>4 DEF BusyInv
<1>9. FormInv'
  <2>1. \A u \in Tabs : tab'[u].form # None => u # t /\ tab'[u] = tab[u] BY <1>2
  <2>2. \A f \in Forms : /\ copies'[f] <= db' /\ (copies'[f] > 1 => f \in unsure')
                         /\ copies'[f] > 0 => f \in opened'
    BY <1>1 DEF WInv, FormInv
  <2>3. /\ \A u \in Tabs, s \in Slots : post'[s].form = tab'[u].form /\ tab'[u].form # None =>
             /\ post'[s].tab = u /\ post'[s].page = tab'[u].page /\ post'[s].kind = tab'[u].kind
             /\ post'[s].mine \/ post'[s].form \in unsure'
        /\ \A u \in Tabs : tab'[u].form \notin unsure' \cup {None} /\ copies'[tab'[u].form] > 0
             => \E s \in Slots : post'[s].form = tab'[u].form
    <3>1. /\ \A u \in Tabs, s \in Slots : post[s].form = tab[u].form /\ tab[u].form # None =>
               /\ post[s].tab = u /\ post[s].page = tab[u].page /\ post[s].kind = tab[u].kind
               /\ post[s].mine \/ post[s].form \in unsure
          /\ \A u \in Tabs : tab[u].form \notin unsure \cup {None} /\ copies[tab[u].form] > 0
               => \E s \in Slots : post[s].form = tab[u].form
      BY DEF WInv, FormInv
    <3>2. UNCHANGED <<post, unsure, copies>> BY <1>1
    <3> QED BY <2>1, <3>1, <3>2
  <2>4. \A r, s \in Slots : post'[r].form = post'[s].form /\ r # s /\ post'[s].form \notin unsure' \cup {None}
          => Never(s)'
    <3>1. \A r, s \in Slots : post[r].form = post[s].form /\ r # s /\ post[s].form \notin unsure \cup {None}
            => Never(s)
      BY DEF WInv, FormInv
    <3> QED BY <1>1, <1>5, <3>1
  <2>5. \A s \in Slots : post'[s].form \notin unsure' \cup {None} /\ post'[s].stage \in {"sent", "checked"}
          => Never(s)' \/ copies'[post'[s].form] = 0
    <3>1. \A s \in Slots : post[s].form \notin unsure \cup {None} /\ post[s].stage \in {"sent", "checked"}
            => Never(s) \/ copies[post[s].form] = 0
      BY DEF WInv, FormInv
    <3> QED BY <1>1, <1>5, <3>1
  <2> QED BY <2>2, <2>3, <2>4, <2>5 DEF FormInv
<1>10. SavedInv'
  <2>1. tab[t].kind # "result"
    <3>1. tab[t].kind \in Kinds BY <1>1 DEF WInv, TabInv
    <3> QED BY <3>1 DEF Kinds
  <2>2. \A u \in Tabs : /\ tab'[u].saved = tab[u].saved /\ tab'[u].shown = tab[u].shown
                        /\ tab'[u].kind # "result" => tab[u].kind # "result"
    BY <1>2, <2>1
  <2> QED BY <1>1, <2>2 DEF WInv, SavedInv
<1> QED BY <1>3, <1>4, <1>6, <1>8, <1>9, <1>10 DEF WInv

\* A form is sent only while its button is enabled: no other submission of it
\* can write it, unless its tab is in doubt anyway.
LEMMA SendWInv ==
  ASSUME WInv, NEW t \in Tabs, NEW s \in Slots, NEW q \in Posts,
         post[s].stage = "free", post' = [post EXCEPT ![s] = q], Sending(t, q.kind),
         UNCHANGED <<cookie, server, fill, load>>,
         Busy(tab[t].page, q.kind) \notin tab[t].sending,
         q.tab = t, q.page = tab[t].page, q.form = tab[t].form, q.mine = TRUE, q.lost = FALSE,
         q.stage \in {"sent", "served"}, q.result.note # "saved", q.result.type # "redirect",
         q.form = None <=> q.kind = "signin", q.form # None => q.kind = tab[t].kind,
         q.kind = "import" => q.page = "members"
  PROVE  WInv'
<1> DEFINE key == Busy(tab[t].page, q.kind)
<1>1. UNCHANGED <<cookie, issued, live, bucket, db, copies, journey, opened, unsure, reloads, load>>
  BY DEF server, fill
<1>2. q.kind \in Kinds /\ q.page \in Pages BY DEF Posts
<1>3. key \in Kinds \cup {"edit", "page", "never"} /\ (key = "never" <=> q.page \in Lists /\ q.kind = "delete")
  BY <1>2, Keys
<1>4. tab' = [tab EXCEPT ![t].sending = @ \cup ({key} \ {"never"})] BY DEF Sending
<1> HIDE DEF key
<1>5. /\ tab' \in [Tabs -> Views] /\ tab'[t].sending = tab[t].sending \cup ({key} \ {"never"})
      /\ \A u \in Tabs : /\ tab'[u].form = tab[u].form /\ tab'[u].page = tab[u].page
                         /\ tab'[u].kind = tab[u].kind /\ tab'[u].shown = tab[u].shown
                         /\ tab'[u].saved = tab[u].saved /\ tab[u].sending \subseteq tab'[u].sending
  BY <1>3, <1>4, Records DEF Views
<1>6. /\ post' \in [Slots -> Posts] /\ post'[s] = q /\ \A r \in Slots \ {s} : post'[r] = post[r]
  BY Records
<1>7. TypeOK' BY <1>1, <1>5, <1>6, Unchanged DEF WInv, TypeOK
<1>8. TabInv' BY <1>5 DEF WInv, TabInv
<1>9. \A r \in Slots \ {s} : /\ Used(r)' = Used(r) /\ Key(r)' = Key(r) /\ Never(r)' = Never(r)
                             /\ Blocks(r)' = Blocks(r)
  BY <1>5, <1>6, Records DEF Used, Key, Never, Blocks, Detached
<1>10. Used(s)' /\ Key(s)' = key /\ (Never(s)' <=> key = "never")
  BY <1>3, <1>6 DEF Used, Key, Never, key
<1>11. PostInv' BY <1>1, <1>6, <1>9, <1>10 DEF WInv, PostInv
<1>12. post[s].form = None BY DEF WInv, PostInv, Used
<1>13. BusyInv'
  <2>1. \A r \in Slots : (Used(r) /\ post[r].mine)' => post'[r].page = tab'[post'[r].tab].page
    BY <1>5, <1>6, <1>9, Records DEF WInv, BusyInv
  <2>2. Blocks(s)' => key \in tab'[t].sending BY <1>5, <1>10 DEF Blocks
  <2>3. \A r \in Slots \ {s} : Blocks(r)' => Key(r)' \in tab[post[r].tab].sending
    BY <1>9 DEF WInv, BusyInv
  <2>4. \A r \in Slots : Blocks(r)' => Key(r)' \in tab'[post'[r].tab].sending
    BY <1>5, <1>6, <1>10, <2>2, <2>3, Records
  <2>5. \A r \in Slots \ {s} : (Blocks(r) /\ post[r].tab = t)' => Key(r)' # key
    BY <1>6, <2>3 DEF key
  <2>6. \A r, u \in Slots : (Blocks(r) /\ Blocks(u) /\ r # u /\ post[r].tab = post[u].tab)' => Key(r)' # Key(u)'
    BY <1>6, <1>9, <1>10, <2>5 DEF WInv, BusyInv
  <2> QED BY <2>1, <2>4, <2>6 DEF BusyInv
<1>14. ASSUME NEW r \in Slots, post[r].form = q.form, q.form \notin unsure \cup {None}
       PROVE  /\ Never(r) /\ key = "never"
  <2>1. /\ post[r].tab = t /\ post[r].page = q.page /\ post[r].kind = q.kind /\ post[r].mine
    BY <1>14 DEF WInv, FormInv
  <2>2. Used(r) /\ ~Detached(r) BY <1>14, <2>1, Records DEF Detached
  <2>3. Key(r) = key BY <2>1 DEF Key, key
  <2>4. ~Blocks(r) BY <2>1, <2>3 DEF WInv, BusyInv, key
  <2> QED BY <1>3, <2>1, <2>2, <2>4 DEF Blocks, Never
<1>15. FormInv'
  <2>1. \A f \in Forms : /\ copies'[f] <= db' /\ (copies'[f] > 1 => f \in unsure')
                         /\ copies'[f] > 0 => f \in opened'
    BY <1>1 DEF WInv, FormInv
  <2>2. \A u \in Tabs, r \in Slots : post'[r].form = tab'[u].form /\ tab'[u].form # None =>
          /\ post'[r].tab = u /\ post'[r].page = tab'[u].page /\ post'[r].kind = tab'[u].kind
          /\ post'[r].mine \/ post'[r].form \in unsure'
    <3> SUFFICES ASSUME NEW u \in Tabs, NEW r \in Slots, post'[r].form = tab[u].form, tab[u].form # None
                 PROVE  /\ post'[r].tab = u /\ post'[r].page = tab[u].page /\ post'[r].kind = tab[u].kind
                        /\ post'[r].mine \/ post'[r].form \in unsure
      BY <1>1, <1>5
    <3>1. CASE r # s BY <1>6, <3>1 DEF WInv, FormInv
    <3>2. CASE r = s
      <4>1. u = t BY <1>6, <3>2 DEF WInv, TabInv
      <4> QED BY <1>6, <3>2, <4>1
    <3> QED BY <3>1, <3>2
  <2>3. \A r, u \in Slots : post'[r].form = post'[u].form /\ r # u /\ post'[u].form \notin unsure' \cup {None}
          => Never(u)'
    BY <1>1, <1>6, <1>9, <1>10, <1>14 DEF WInv, FormInv
  <2>4. \A r \in Slots : post'[r].form \notin unsure' \cup {None} /\ post'[r].stage \in {"sent", "checked"}
          => Never(r)' \/ copies'[post'[r].form] = 0
    <3> SUFFICES ASSUME NEW r \in Slots, post'[r].form \notin unsure \cup {None},
                        post'[r].stage \in {"sent", "checked"}, copies[post'[r].form] # 0
                 PROVE  Never(r)'
      BY <1>1
    <3>1. CASE r # s BY <1>6, <1>9, <3>1 DEF WInv, FormInv
    <3>2. CASE r = s
      <4>1. q.form = tab[t].form /\ q.form \notin unsure \cup {None} /\ copies[q.form] # 0
        BY <1>6, <3>2
      <4>2. q.form \in Forms BY <4>1, Records
      <4>3. copies[tab[t].form] > 0 BY <4>1, <4>2, Numbers DEF WInv
      <4>4. PICK w \in Slots : post[w].form = q.form BY <4>1, <4>3 DEF WInv, FormInv
      <4> QED BY <1>10, <1>14, <3>2, <4>1, <4>4
    <3> QED BY <3>1, <3>2
  <2>5. \A u \in Tabs : tab'[u].form \notin unsure' \cup {None} /\ copies'[tab'[u].form] > 0
          => \E r \in Slots : post'[r].form = tab'[u].form
    <3> SUFFICES ASSUME NEW u \in Tabs, tab[u].form \notin unsure \cup {None}, copies[tab[u].form] > 0
                 PROVE  \E r \in Slots : post'[r].form = tab[u].form
      BY <1>1, <1>5
    <3>1. PICK w \in Slots : post[w].form = tab[u].form BY DEF WInv, FormInv
    <3>2. w # s BY <1>12, <3>1
    <3> QED BY <1>6, <3>1, <3>2
  <2> QED BY <2>1, <2>2, <2>3, <2>4, <2>5 DEF FormInv
<1>16. SavedInv' BY <1>1, <1>5 DEF WInv, SavedInv
<1> QED BY <1>7, <1>8, <1>11, <1>13, <1>15, <1>16 DEF WInv

\* A submission as a tab fills it in.
FilledIn(q, t, kind) ==
  /\ q \in Posts /\ q.kind = kind /\ q.tab = t /\ q.page = tab[t].page /\ q.form = tab[t].form
  /\ q.mine = TRUE /\ q.lost = FALSE
  /\ q.stage \in {"sent", "served"} /\ q.result.note # "saved" /\ q.result.type # "redirect"

Refused(q) == [q EXCEPT !.stage = "served", !.jar = BrowserToken, !.result = Said("json", "error")]

LEMMA SubmittedType ==
  ASSUME WInv, NEW t \in Tabs, NEW kind \in Kinds
  PROVE  FilledIn(Submitted(t, kind), t, kind) /\ FilledIn(Refused(Submitted(t, kind)), t, kind)
<1> DEFINE said == Said("json", "error")
<1>1. said \in Results /\ said.note = "error" /\ said.type = "json" BY DEF Said, Results
<1>2. \A q : Refused(q) = [q EXCEPT !.stage = "served", !.jar = BrowserToken, !.result = said]
  BY DEF Refused
<1> HIDE DEF said
<1>3. tab[t].page \in Pages /\ tab[t].form \in opened \cup {None} /\ cookie \in 0..issued
  BY Records, Numbers DEF WInv
<1>4. BrowserToken \in 0..issued BY Numbers DEF BrowserToken, WInv
<1>5. \A e \in Posts :
        LET q == [e EXCEPT !.tab = t, !.form = tab[t].form, !.kind = kind, !.page = tab[t].page,
                    !.stage = "sent", !.jar = cookie, !.mine = TRUE]
        IN  /\ q \in Posts /\ q.kind = kind /\ q.tab = t /\ q.page = tab[t].page /\ q.form = tab[t].form
            /\ q.mine = TRUE /\ q.lost = e.lost /\ q.stage = "sent" /\ q.result = e.result
  BY <1>3 DEF Posts, Stages
<1>6. \A e \in Posts :
        /\ Refused(e) \in Posts /\ Refused(e).kind = e.kind /\ Refused(e).tab = e.tab
        /\ Refused(e).page = e.page /\ Refused(e).form = e.form /\ Refused(e).mine = e.mine
        /\ Refused(e).lost = e.lost /\ Refused(e).stage = "served" /\ Refused(e).result = said
  BY <1>1, <1>2, <1>4 DEF Posts, Stages
<1>7. /\ NoPost \in Posts /\ NoPost.result.note = "none" /\ NoPost.result.type = "error" /\ NoPost.lost = FALSE
  BY NoPostType DEF WInv
<1>8. LET q == Submitted(t, kind)
      IN  /\ q \in Posts /\ q.kind = kind /\ q.tab = t /\ q.page = tab[t].page /\ q.form = tab[t].form
          /\ q.mine = TRUE /\ q.lost = FALSE /\ q.stage = "sent"
          /\ q.result.note = "none" /\ q.result.type = "error"
  BY <1>5, <1>7 DEF Submitted
<1>9. FilledIn(Submitted(t, kind), t, kind) BY <1>8 DEF FilledIn
<1>10. FilledIn(Refused(Submitted(t, kind)), t, kind) BY <1>1, <1>6, <1>8 DEF FilledIn
<1> QED BY <1>9, <1>10

LEMMA SubmitWInv ==
  ASSUME WInv, NEW t \in Tabs, NEW s \in Slots, Submit(t, s) \/ BrowserCall(t, s) \/ SubmitSignIn(t, s)
  PROVE  WInv'
<1>1. tab[t].form # None => tab[t].kind \in Kinds \ {"signin"} /\ tab[t].page \notin Public
                            /\ (tab[t].kind = "import" => tab[t].page = "members")
  BY DEF WInv, TabInv
<1>2. CASE Submit(t, s)
  <2>1. /\ tab[t].form # None /\ Busy(tab[t].page, tab[t].kind) \notin tab[t].sending
        /\ post[s].stage = "free" /\ post' = [post EXCEPT ![s] = Submitted(t, tab[t].kind)]
        /\ Sending(t, tab[t].kind) /\ UNCHANGED <<cookie, server, fill, load>>
    BY <1>2 DEF Submit
  <2>2. FilledIn(Submitted(t, tab[t].kind), t, tab[t].kind) BY <1>1, <2>1, SubmittedType
  <2> QED BY <1>1, <2>1, <2>2, SendWInv DEF FilledIn
<1>3. CASE BrowserCall(t, s)
  <2>1. /\ tab[t].form # None /\ "edit" \notin tab[t].sending /\ tab[t].kind \in {"role", "remove"}
        /\ post[s].stage = "free" /\ post' = [post EXCEPT ![s] = Refused(Submitted(t, tab[t].kind))]
        /\ Sending(t, tab[t].kind) /\ UNCHANGED <<cookie, server, fill, load>>
    BY <1>3, Zenon DEF BrowserCall, Refused
  <2>2. Busy(tab[t].page, tab[t].kind) = "edit" BY <2>1 DEF Busy
  <2> DEFINE q == Refused(Submitted(t, tab[t].kind))
  <2>3. FilledIn(q, t, tab[t].kind) BY <1>1, <2>1, SubmittedType
  <2>4. post' = [post EXCEPT ![s] = q] BY <2>1
  <2> HIDE DEF q
  <2>5. q.kind = tab[t].kind /\ q.form = tab[t].form /\ q.kind \in {"role", "remove"}
    BY <2>1, <2>3 DEF FilledIn
  <2>6. Sending(t, q.kind) /\ Busy(tab[t].page, q.kind) \notin tab[t].sending BY <2>1, <2>2, <2>5
  <2> QED BY <1>1, <2>1, <2>3, <2>4, <2>5, <2>6, SendWInv DEF FilledIn
<1>4. CASE SubmitSignIn(t, s)
  <2>1. /\ post[s].stage = "free" /\ post' = [post EXCEPT ![s] = Submitted(t, "signin")]
        /\ Sending(t, "signin") /\ UNCHANGED <<cookie, server, fill, load>>
        /\ tab[t].page \in Public /\ Busy(tab[t].page, "signin") \notin tab[t].sending
    BY <1>4 DEF SubmitSignIn, LoginPage, RegisterPage, Public
  <2>2. tab[t].form = None BY <1>1, <2>1
  <2>3. FilledIn(Submitted(t, "signin"), t, "signin") BY SubmittedType DEF Kinds
  <2> QED BY <2>1, <2>2, <2>3, SendWInv DEF FilledIn
<1> QED BY <1>2, <1>3, <1>4

LEMMA CheckPostWInv ==
  ASSUME WInv, NEW s \in Slots, CheckPost(s)
  PROVE  WInv'
<1>1. PICK ok \in BOOLEAN : /\ Check(post[s].jar, ok)
                           /\ post' = [post EXCEPT ![s].stage = "checked", ![s].user = ok]
  BY DEF CheckPost
<1>2. UNCHANGED <<cookie, issued, live, db, copies, journey, opened, unsure, reloads, tab, load>>
  BY DEF CheckPost, fill
<1>3. bucket' \in 0..Burst BY <1>1, CheckType
<1>4. post[s].stage = "sent" BY DEF CheckPost
<1>5. /\ post' \in [Slots -> Posts]
      /\ \A r \in Slots :
           /\ post'[r].tab = post[r].tab /\ post'[r].form = post[r].form /\ post'[r].kind = post[r].kind
           /\ post'[r].page = post[r].page /\ post'[r].lost = post[r].lost /\ post'[r].at = post[r].at
           /\ post'[r].result = post[r].result /\ post'[r].mine = post[r].mine
           /\ post'[r].stage = IF r = s THEN "checked" ELSE post[r].stage
  <2>1. \A p \in Posts : LET q == [p EXCEPT !.stage = "checked", !.user = ok] IN
          /\ q \in Posts /\ q.tab = p.tab /\ q.form = p.form /\ q.kind = p.kind /\ q.page = p.page
          /\ q.lost = p.lost /\ q.at = p.at /\ q.result = p.result /\ q.mine = p.mine /\ q.stage = "checked"
    BY DEF Posts, Stages
  <2> DEFINE q == [post[s] EXCEPT !.stage = "checked", !.user = ok]
  <2>2. post' = [post EXCEPT ![s] = q] BY <1>1, Records
  <2>3. /\ q \in Posts /\ q.tab = post[s].tab /\ q.form = post[s].form /\ q.kind = post[s].kind
        /\ q.page = post[s].page /\ q.lost = post[s].lost /\ q.at = post[s].at
        /\ q.result = post[s].result /\ q.mine = post[s].mine /\ q.stage = "checked"
    BY <2>1, Records
  <2> HIDE DEF q
  <2>4. post' \in [Slots -> Posts] /\ post'[s] = q /\ \A r \in Slots \ {s} : post'[r] = post[r]
    BY <2>2, <2>3, Records
  <2> QED BY <2>3, <2>4
<1>6. TypeOK' BY <1>2, <1>3, <1>5, Unchanged DEF WInv, TypeOK
<1>7. TabInv' BY <1>2 DEF WInv, TabInv
<1>8. \A r \in Slots : Used(r)' = Used(r) /\ Key(r)' = Key(r) /\ Never(r)' = Never(r) /\ Blocks(r)' = Blocks(r)
  BY <1>2, <1>4, <1>5 DEF Used, Key, Never, Blocks, Detached
<1>9. PostInv' BY <1>2, <1>5, <1>8 DEF WInv, PostInv
<1>10. BusyInv' BY <1>2, <1>5, <1>8 DEF WInv, BusyInv
<1>11. FormInv'
  <2>1. \A r \in Slots : post'[r].stage \in {"sent", "checked"} => post[r].stage \in {"sent", "checked"}
    BY <1>4, <1>5
  <2> QED BY <1>2, <1>5, <1>8, <2>1 DEF WInv, FormInv
<1>12. SavedInv' BY <1>2 DEF WInv, SavedInv
<1> QED BY <1>6, <1>7, <1>9, <1>10, <1>11, <1>12 DEF WInv

\* A submission that has been served answers, or is forgotten if it was lost.
LEMMA ServedType ==
  ASSUME WInv, NEW s \in Slots, NEW p \in Posts', p.lost = post[s].lost, post[s].lost \in BOOLEAN,
         Served(s, p), issued' \in Nat, issued <= issued', db' \in Nat, db <= db',
         UNCHANGED opened
  PROVE  /\ post' \in [Slots -> Posts'] /\ \A r \in Slots \ {s} : post'[r] = post[r]
         /\ post[s].lost => post'[s] = NoPost
         /\ ~post[s].lost => /\ post'[s].stage = "served" /\ post'[s].tab = p.tab /\ post'[s].form = p.form
                             /\ post'[s].kind = p.kind /\ post'[s].page = p.page /\ post'[s].mine = p.mine
                             /\ post'[s].lost = p.lost /\ post'[s].at = p.at /\ post'[s].result = p.result
<1>1. Posts \subseteq Posts' BY Monotone DEF WInv
<1>2. NoPost \in Posts' BY <1>1, NoPostType DEF WInv
<1>3. LET q == [p EXCEPT !.stage = "served"] IN
        /\ q \in Posts' /\ q.stage = "served" /\ q.tab = p.tab /\ q.form = p.form /\ q.kind = p.kind
        /\ q.page = p.page /\ q.mine = p.mine /\ q.lost = p.lost /\ q.at = p.at /\ q.result = p.result
  BY DEF Posts, Stages
<1>4. post' = [post EXCEPT ![s] = IF post[s].lost THEN NoPost ELSE [p EXCEPT !.stage = "served"]]
  BY Records DEF Served
<1> QED BY <1>1, <1>2, <1>3, <1>4, Records

\* What a served submission leaves of the others.
LEMMA ServedInv ==
  ASSUME WInv, NEW s \in Slots, UNCHANGED <<tab, unsure, opened>>,
         \A r \in Slots \ {s} : post'[r] = post[r],
         \/ post'[s] = NoPost /\ post[s].lost
         \/ /\ post'[s].stage = "served" /\ post'[s].tab = post[s].tab /\ post'[s].form = post[s].form
            /\ post'[s].kind = post[s].kind /\ post'[s].page = post[s].page /\ post'[s].mine = post[s].mine,
         Used(s)
  PROVE  /\ TabInv' /\ BusyInv'
         /\ \A r \in Slots \ {s} : Used(r)' = Used(r) /\ Never(r)' = Never(r)
         /\ ~post[s].lost => Used(s)' /\ Never(s)' = Never(s)
         /\ post'[s].form = post[s].form \/ (post'[s].form = None /\ post[s].lost)
<1>1. TabInv' BY DEF WInv, TabInv
<1>2. NoPost.stage = "free" /\ NoPost.form = None BY NoPostType DEF WInv
<1>3. \A r \in Slots \ {s} : /\ Used(r)' = Used(r) /\ Key(r)' = Key(r) /\ Never(r)' = Never(r)
                             /\ Blocks(r)' = Blocks(r)
  BY DEF Used, Key, Never, Blocks, Detached
<1>4. CASE post'[s] = NoPost
  <2>1. ~Used(s)' /\ ~Blocks(s)' /\ post'[s].form = None BY <1>2, <1>4 DEF Used, Blocks
  <2>2. BusyInv' BY <1>3, <2>1 DEF WInv, BusyInv
  <2>3. post[s].lost \/ (post'[s].form = post[s].form /\ post'[s].stage = "served") OBVIOUS
  <2> QED BY <1>1, <1>2, <1>3, <1>4, <2>1, <2>2, <2>3
<1>5. CASE post'[s] # NoPost
  <2>1. Used(s)' = Used(s) /\ Key(s)' = Key(s) /\ Never(s)' = Never(s) /\ Blocks(s)' = Blocks(s)
    BY <1>5 DEF Used, Key, Never, Blocks, Detached
  <2>2. \A r \in Slots : post'[r].tab = post[r].tab /\ post'[r].page = post[r].page /\ post'[r].mine = post[r].mine
    BY <1>5
  <2>3. BusyInv' BY <1>3, <2>1, <2>2 DEF WInv, BusyInv
  <2> QED BY <1>1, <1>3, <1>5, <2>1, <2>3
<1> QED BY <1>4, <1>5

LEMMA ServePostWInv ==
  ASSUME WInv, NEW s \in Slots, ServePost(s)
  PROVE  WInv'
<1> DEFINE p == post[s]
           f == post[s].form
<1>1. /\ p.stage = "checked" /\ p.kind # "signin"
      /\ UNCHANGED <<cookie, issued, live, bucket, journey, opened, unsure, reloads, tab, load>>
  BY DEF ServePost, fill
<1>2. Used(s) /\ f # None /\ f \in opened /\ f \in Forms
  BY <1>1, Records DEF Used, WInv, PostInv
<1>3. PICK done \in BOOLEAN, heard \in BOOLEAN :
        /\ done => p.user /\ p.jar \in live /\ db < MaxWrites /\ Accepts(p.page, p.kind, copies[f] > 0)
        /\ db' = IF done THEN db + 1 ELSE db
        /\ copies' = IF done THEN [copies EXCEPT ![f] = @ + 1] ELSE copies
        /\ Served(s, [p EXCEPT !.at = db', !.result = PageAction(p.page, p.kind, done /\ heard)])
  BY DEF ServePost
<1> DEFINE result == PageAction(p.page, p.kind, done /\ heard)
<1>4. /\ db' \in 0..MaxWrites /\ db <= db' /\ db \in Nat /\ db' \in Nat /\ issued \in Nat
      /\ copies' \in [Forms -> 0..MaxWrites]
      /\ \A g \in Forms \ {f} : copies'[g] = copies[g]
      /\ copies'[f] = IF done THEN copies[f] + 1 ELSE copies[f]
  <2>1. /\ db \in 0..MaxWrites /\ copies \in [Forms -> 0..MaxWrites] /\ copies[f] <= db /\ MaxWrites \in Nat
        /\ issued \in Nat
    BY <1>2, Constants, Numbers DEF WInv, TypeOK, FormInv
  <2> QED BY <1>2, <1>3, <2>1
<1>5. /\ result \in Results
      /\ result.note = "saved" =>
           \/ result.type = "success" /\ p.page \in Lists \cup Settings \cup {"division"}
           \/ p.kind = "import" /\ p.page = "members"
  BY <1>2, ActionType, Records DEF WInv, PostInv
<1>6. /\ Views \subseteq Views' /\ Loads \subseteq Loads' /\ Posts \subseteq Posts'
  BY <1>1, <1>4, Monotone DEF WInv
<1> HIDE DEF result
<1> DEFINE q == [p EXCEPT !.at = db', !.result = result]
<1>7. /\ q \in Posts' /\ q.tab = p.tab /\ q.form = p.form /\ q.kind = p.kind /\ q.page = p.page
      /\ q.mine = p.mine /\ q.lost = p.lost /\ q.at = db' /\ q.result = result
  <2>1. p \in Posts' BY <1>6, Records
  <2> QED BY <1>4, <1>5, <2>1 DEF Posts
<1>8. Served(s, q) BY <1>3 DEF result
<1>9. p.lost \in BOOLEAN BY Records DEF Posts
<1> HIDE DEF q
<1>10. /\ post' \in [Slots -> Posts'] /\ \A r \in Slots \ {s} : post'[r] = post[r]
       /\ p.lost => post'[s] = NoPost
       /\ ~p.lost => /\ post'[s].stage = "served" /\ post'[s].tab = p.tab /\ post'[s].form = p.form
                     /\ post'[s].kind = p.kind /\ post'[s].page = p.page /\ post'[s].mine = p.mine
                     /\ post'[s].lost = p.lost /\ post'[s].at = db' /\ post'[s].result = result
  <2>1. UNCHANGED opened /\ issued' \in Nat /\ issued <= issued' BY <1>1, <1>4
  <2> QED BY <1>4, <1>7, <1>8, <1>9, <2>1, ServedType
<1>11. /\ TabInv' /\ BusyInv'
       /\ \A r \in Slots \ {s} : Used(r)' = Used(r) /\ Never(r)' = Never(r)
       /\ ~p.lost => Used(s)' /\ Never(s)' = Never(s)
       /\ post'[s].form = f \/ (post'[s].form = None /\ p.lost)
  BY <1>1, <1>2, <1>9, <1>10, ServedInv
<1>12. TypeOK'
  <2>1. tab' \in [Tabs -> Views'] /\ load' \in [Tabs -> Loads'] BY <1>1, <1>6, Records
  <2> QED BY <1>1, <1>4, <1>10, <2>1 DEF WInv, TypeOK
<1>13. PostInv'
  <2> SUFFICES ASSUME NEW r \in Slots
      PROVE  (/\ ~Used(r) => post[r].form = None /\ post[r].result.note = "none"
              /\ Used(r) =>
                   /\ (post[r].form = None) <=> (post[r].kind = "signin")
                   /\ post[r].kind = "import" => post[r].page = "members"
              /\ post[r].lost => post[r].form \in unsure \cup {None}
              /\ post[r].result.note = "saved" =>
                   /\ post[r].at <= db
                   /\ \/ /\ post[r].result.type = "success"
                         /\ post[r].page \in Lists \cup Settings \cup {"division"}
                      \/ post[r].kind = "import" /\ post[r].page = "members"
              /\ post[r].kind = "signin" /\ post[r].result.type = "redirect" => post[r].at <= issued)'
    BY DEF PostInv
  <2>1. CASE r # s
    <3>1. post'[r] = post[r] /\ Used(r)' = Used(r) BY <1>10, <1>11, <2>1
    <3>2. post[r].at \in Nat BY Records DEF Posts
    <3>3. post[r].result.note = "saved" => post[r].at <= db' BY <1>4, <3>2 DEF WInv, PostInv
    <3> QED BY <1>1, <3>1, <3>3 DEF WInv, PostInv
  <2>2. CASE r = s /\ p.lost BY <1>10, <2>2, NoPostType DEF WInv, Used
  <2>3. CASE r = s /\ ~p.lost
    <3>1. db' <= db' BY <1>4
    <3>2. p.kind = "import" => p.page = "members" BY <1>2 DEF WInv, PostInv
    <3> QED BY <1>1, <1>2, <1>5, <1>10, <1>11, <2>3, <3>1, <3>2
  <2> QED BY <1>9, <2>1, <2>2, <2>3
<1>14. \A g \in Forms : copies[g] \in Nat BY Numbers DEF WInv
<1>15. FormInv'
  <2>1. \A g \in Forms : /\ copies'[g] <= db' /\ (copies'[g] > 1 => g \in unsure')
                         /\ copies'[g] > 0 => g \in opened'
    <3> SUFFICES ASSUME NEW g \in Forms
                 PROVE  /\ copies'[g] <= db' /\ (copies'[g] > 1 => g \in unsure)
                        /\ copies'[g] > 0 => g \in opened
      BY <1>1
    <3>1. copies[g] <= db /\ (copies[g] > 1 => g \in unsure) /\ (copies[g] > 0 => g \in opened)
      BY DEF WInv, FormInv
    <3>2. CASE g # f BY <1>4, <1>14, <3>1, <3>2
    <3>3. CASE g = f
      <4>1. done => db' = db + 1 BY <1>3
      <4>2. done /\ f \notin unsure => copies[f] = 0
        <5> SUFFICES ASSUME done, f \notin unsure, copies[f] # 0 PROVE FALSE OBVIOUS
        <5>1. Never(s) BY <1>1, <1>2 DEF WInv, FormInv
        <5>2. ~(copies[f] > 0) BY <1>3, <5>1 DEF Never, Accepts
        <5> QED BY <1>2, <1>14, <5>2
      <4> QED BY <1>2, <1>4, <1>14, <3>1, <3>3, <4>1, <4>2
    <3> QED BY <3>2, <3>3
  <2>2. \A u \in Tabs, r \in Slots : post'[r].form = tab'[u].form /\ tab'[u].form # None =>
          /\ post'[r].tab = u /\ post'[r].page = tab'[u].page /\ post'[r].kind = tab'[u].kind
          /\ post'[r].mine \/ post'[r].form \in unsure'
    <3> SUFFICES ASSUME NEW u \in Tabs, NEW r \in Slots, post'[r].form = tab[u].form, tab[u].form # None
                 PROVE  /\ post'[r].tab = u /\ post'[r].page = tab[u].page /\ post'[r].kind = tab[u].kind
                        /\ post'[r].mine \/ post'[r].form \in unsure
      BY <1>1
    <3>1. CASE r # s BY <1>10, <3>1 DEF WInv, FormInv
    <3>2. CASE r = s
      <4>1. ~p.lost BY <1>10, <3>2, NoPostType DEF WInv
      <4> QED BY <1>10, <3>2, <4>1 DEF WInv, FormInv
    <3> QED BY <3>1, <3>2
  <2>3. \A r, u \in Slots : post[r].form = post[u].form /\ r # u /\ post[u].form \notin unsure \cup {None}
          => Never(u)
    BY DEF WInv, FormInv
  <2>4. \A r \in Slots : post'[r].form # None => post'[r].form = post[r].form /\ Never(r)' = Never(r)
    BY <1>9, <1>10, <1>11, NoPostType DEF WInv
  <2>5. \A r, u \in Slots : post'[r].form = post'[u].form /\ r # u /\ post'[u].form \notin unsure' \cup {None}
          => Never(u)'
    BY <1>1, <2>3, <2>4
  <2>6. \A r \in Slots : post'[r].form \notin unsure' \cup {None} /\ post'[r].stage \in {"sent", "checked"}
          => Never(r)' \/ copies'[post'[r].form] = 0
    <3> SUFFICES ASSUME NEW r \in Slots, post'[r].form \notin unsure \cup {None},
                        post'[r].stage \in {"sent", "checked"}, ~Never(r)'
                 PROVE  copies'[post'[r].form] = 0
      BY <1>1
    <3>1. r # s BY <1>9, <1>10, NoPostType DEF WInv
    <3>2. post'[r] = post[r] /\ ~Never(r) BY <1>10, <1>11, <3>1
    <3>3. copies[post[r].form] = 0 BY <3>2 DEF WInv, FormInv
    <3>4. post[r].form # f BY <2>3, <3>1, <3>2
    <3>5. post[r].form \in Forms BY <3>2, Records
    <3> QED BY <1>4, <3>2, <3>3, <3>4, <3>5
  <2>7. \A u \in Tabs : tab'[u].form \notin unsure' \cup {None} /\ copies'[tab'[u].form] > 0
          => \E r \in Slots : post'[r].form = tab'[u].form
    <3> SUFFICES ASSUME NEW u \in Tabs, tab[u].form \notin unsure \cup {None}, copies'[tab[u].form] > 0
                 PROVE  \E r \in Slots : post'[r].form = tab[u].form
      BY <1>1
    <3>1. CASE tab[u].form = f
      <4>1. ~p.lost BY <3>1 DEF WInv, PostInv
      <4> QED BY <1>10, <3>1, <4>1
    <3>2. CASE tab[u].form # f
      <4>1. tab[u].form \in Forms BY Records
      <4>2. copies[tab[u].form] > 0 BY <1>4, <3>2, <4>1
      <4>3. PICK w \in Slots : post[w].form = tab[u].form BY <4>2 DEF WInv, FormInv
      <4> QED BY <1>10, <3>2, <4>3
    <3> QED BY <3>1, <3>2
  <2> QED BY <2>1, <2>2, <2>5, <2>6, <2>7 DEF FormInv
<1>16. SavedInv' BY <1>1 DEF WInv, SavedInv
<1> QED BY <1>11, <1>12, <1>13, <1>15, <1>16 DEF WInv

LEMMA ServeSignInWInv ==
  ASSUME WInv, NEW s \in Slots, ServeSignIn(s)
  PROVE  WInv'
<1> DEFINE p == post[s]
<1>1. /\ p.stage = "checked" /\ p.kind = "signin"
      /\ UNCHANGED <<cookie, db, copies, journey, opened, unsure, reloads, tab, load>>
  BY DEF ServeSignIn, fill
<1>2. Used(s) /\ p.form = None BY <1>1 DEF Used, WInv, PostInv
<1>3. p \in Posts /\ p.lost \in BOOLEAN /\ p.at \in Nat BY Records DEF Posts
<1>4. db' \in Nat /\ db <= db' /\ issued \in Nat BY <1>1, Numbers DEF WInv
<1>5. PICK q \in Posts' :
        /\ Served(s, q) /\ q.tab = p.tab /\ q.form = p.form /\ q.kind = p.kind /\ q.page = p.page
        /\ q.mine = p.mine /\ q.lost = p.lost /\ q.result.note # "saved"
        /\ q.result.type = "redirect" => q.at <= issued'
        /\ issued' \in 0..MaxSessions /\ issued <= issued' /\ live' \subseteq 1..issued' /\ bucket' \in 0..Burst
  <2>1. /\ Said("failure", "error") \in Results /\ Said("failure", "error").note # "saved"
        /\ Said("failure", "error").type # "redirect"
        /\ Said("redirect", "none") \in Results /\ Said("redirect", "none").note # "saved"
    BY DEF Said, Results
  <2>2. CASE bucket = 0
    <3> DEFINE result == Said("failure", "error")
               q == [p EXCEPT !.result = result]
    <3>1. Served(s, q) /\ UNCHANGED <<issued, live, bucket>> BY <2>2 DEF ServeSignIn
    <3>2. result \in Results /\ result.note # "saved" /\ result.type # "redirect" BY <2>1
    <3>3. Posts' = Posts BY <1>1, <3>1, Unchanged
    <3> HIDE DEF result
    <3>4. /\ q \in Posts /\ q.tab = p.tab /\ q.form = p.form /\ q.kind = p.kind /\ q.page = p.page
          /\ q.mine = p.mine /\ q.lost = p.lost /\ q.result = result
      BY <1>3, <3>2 DEF Posts
    <3>5. /\ issued' \in 0..MaxSessions /\ issued <= issued' /\ live' \subseteq 1..issued' /\ bucket' \in 0..Burst
      BY <1>4, <3>1 DEF WInv, TypeOK
    <3> HIDE DEF q
    <3> QED BY <3>1, <3>2, <3>3, <3>4, <3>5
  <2>3. CASE bucket # 0
    <3>1. PICK done \in BOOLEAN, heard \in BOOLEAN :
            /\ done => issued < MaxSessions
            /\ issued' = IF done THEN issued + 1 ELSE issued
            /\ live' = IF done THEN live \cup {issued'} ELSE live
            /\ Served(s, [p EXCEPT !.at = issued',
                  !.result = IF done /\ heard THEN Said("redirect", "none") ELSE Said("failure", "error")])
      BY <2>3 DEF ServeSignIn
    <3> DEFINE result == IF done /\ heard THEN Said("redirect", "none") ELSE Said("failure", "error")
    <3>2. result \in Results /\ result.note # "saved" BY <2>1
    <3>3. bucket' \in 0..Burst
      <4>1. bucket' = bucket - 1 BY <2>3 DEF ServeSignIn
      <4> QED BY <2>3, <4>1, Constants DEF WInv, TypeOK
    <3>4. /\ issued' \in 0..MaxSessions /\ issued <= issued' /\ live' \subseteq 1..issued'
      BY <1>4, <3>1, Constants DEF WInv, TypeOK
    <3>5. issued' \in Nat BY <3>4
    <3>6. p \in Posts' BY <1>1, <1>3, <1>4, <3>4, <3>5, Monotone DEF WInv
    <3> HIDE DEF result
    <3> DEFINE q == [p EXCEPT !.at = issued', !.result = result]
    <3>7. Served(s, q) BY <3>1 DEF result
    <3>8. /\ q \in Posts' /\ q.tab = p.tab /\ q.form = p.form /\ q.kind = p.kind /\ q.page = p.page
          /\ q.mine = p.mine /\ q.lost = p.lost /\ q.result = result /\ q.at = issued'
      BY <3>2, <3>5, <3>6 DEF Posts
    <3> HIDE DEF q
    <3>9. q.at <= issued' BY <3>5, <3>8
    <3> QED BY <3>2, <3>3, <3>4, <3>7, <3>8, <3>9
  <2> QED BY <2>2, <2>3
<1>6. issued' \in Nat BY <1>5
<1>7. /\ Views' = Views /\ Loads \subseteq Loads'
  BY <1>1, <1>4, <1>5, <1>6, Monotone, Unchanged DEF WInv
<1>8. /\ post' \in [Slots -> Posts'] /\ \A r \in Slots \ {s} : post'[r] = post[r]
      /\ p.lost => post'[s] = NoPost
      /\ ~p.lost => /\ post'[s].stage = "served" /\ post'[s].tab = p.tab /\ post'[s].form = p.form
                    /\ post'[s].kind = p.kind /\ post'[s].page = p.page /\ post'[s].mine = p.mine
                    /\ post'[s].lost = p.lost /\ post'[s].at = q.at /\ post'[s].result = q.result
  <2>1. UNCHANGED opened BY <1>1
  <2> QED BY <1>3, <1>4, <1>5, <1>6, <2>1, ServedType
<1>9. /\ TabInv' /\ BusyInv'
      /\ \A r \in Slots \ {s} : Used(r)' = Used(r) /\ Never(r)' = Never(r)
      /\ ~p.lost => Used(s)' /\ Never(s)' = Never(s)
      /\ post'[s].form = p.form \/ (post'[s].form = None /\ p.lost)
  BY <1>1, <1>2, <1>3, <1>8, ServedInv
<1>10. TypeOK'
  <2>1. tab' \in [Tabs -> Views'] /\ load' \in [Tabs -> Loads'] BY <1>1, <1>7, Records
  <2>2. cookie' \in 0..issued' BY <1>1, <1>4, <1>5, <1>6 DEF WInv, TypeOK
  <2> QED BY <1>1, <1>5, <1>8, <2>1, <2>2 DEF WInv, TypeOK
<1>11. PostInv'
  <2> SUFFICES ASSUME NEW r \in Slots
      PROVE  (/\ ~Used(r) => post[r].form = None /\ post[r].result.note = "none"
              /\ Used(r) =>
                   /\ (post[r].form = None) <=> (post[r].kind = "signin")
                   /\ post[r].kind = "import" => post[r].page = "members"
              /\ post[r].lost => post[r].form \in unsure \cup {None}
              /\ post[r].result.note = "saved" =>
                   /\ post[r].at <= db
                   /\ \/ /\ post[r].result.type = "success"
                         /\ post[r].page \in Lists \cup Settings \cup {"division"}
                      \/ post[r].kind = "import" /\ post[r].page = "members"
              /\ post[r].kind = "signin" /\ post[r].result.type = "redirect" => post[r].at <= issued)'
    BY DEF PostInv
  <2>1. CASE r # s
    <3>1. post'[r] = post[r] /\ Used(r)' = Used(r) BY <1>8, <1>9, <2>1
    <3>2. post[r].at \in Nat BY Records DEF Posts
    <3>3. post[r].kind = "signin" /\ post[r].result.type = "redirect" => post[r].at <= issued'
      BY <1>4, <1>5, <1>6, <3>2 DEF WInv, PostInv
    <3> QED BY <1>1, <3>1, <3>3 DEF WInv, PostInv
  <2>2. CASE r = s /\ p.lost BY <1>8, <2>2, NoPostType DEF WInv, Used
  <2>3. CASE r = s /\ ~p.lost BY <1>1, <1>2, <1>5, <1>8, <1>9, <2>3
  <2> QED BY <1>3, <2>1, <2>2, <2>3
<1>12. post'[s].form = None BY <1>2, <1>9
<1>13. FormInv'
  <2>1. \A r \in Slots : post'[r].form # None => post'[r] = post[r] /\ Never(r)' = Never(r)
    BY <1>8, <1>9, <1>12
  <2>2. \A f \in Forms : /\ copies'[f] <= db' /\ (copies'[f] > 1 => f \in unsure')
                         /\ copies'[f] > 0 => f \in opened'
    BY <1>1 DEF WInv, FormInv
  <2>3. UNCHANGED <<tab, unsure, copies>> BY <1>1
  <2>4. \A u \in Tabs, r \in Slots : post'[r].form = tab'[u].form /\ tab'[u].form # None =>
          /\ post'[r].tab = u /\ post'[r].page = tab'[u].page /\ post'[r].kind = tab'[u].kind
          /\ post'[r].mine \/ post'[r].form \in unsure'
    BY <2>1, <2>3 DEF WInv, FormInv
  <2>5. \A r, u \in Slots : post'[r].form = post'[u].form /\ r # u /\ post'[u].form \notin unsure' \cup {None}
          => Never(u)'
    BY <2>1, <2>3 DEF WInv, FormInv
  <2>6. \A r \in Slots : post'[r].form \notin unsure' \cup {None} /\ post'[r].stage \in {"sent", "checked"}
          => Never(r)' \/ copies'[post'[r].form] = 0
    BY <2>1, <2>3 DEF WInv, FormInv
  <2>7. \A u \in Tabs : tab'[u].form \notin unsure' \cup {None} /\ copies'[tab'[u].form] > 0
          => \E r \in Slots : post'[r].form = tab'[u].form
    <3> SUFFICES ASSUME NEW u \in Tabs, tab[u].form \notin unsure \cup {None}, copies[tab[u].form] > 0
                 PROVE  \E r \in Slots : post'[r].form = tab[u].form
      BY <2>3
    <3>1. PICK w \in Slots : post[w].form = tab[u].form BY DEF WInv, FormInv
    <3>2. w # s BY <1>2, <3>1
    <3> QED BY <1>8, <3>1, <3>2
  <2> QED BY <2>2, <2>4, <2>5, <2>6, <2>7 DEF FormInv
<1>14. SavedInv' BY <1>1 DEF WInv, SavedInv
<1> QED BY <1>9, <1>10, <1>11, <1>13, <1>14 DEF WInv

-----------------------------------------------------------------------------
(* The answers.                                                             *)

\* What the tab that receives an answer makes of it.
LEMMA ShowsType ==
  ASSUME WInv, NEW s \in Slots, NEW result \in Results, result.note = "saved" => post[s].at <= db
  PROVE  LET t == tab[post[s].tab] u == Shows(post[s], result) close == Closes(post[s], result)
         IN  /\ u \in Views /\ u.page = t.page /\ u.shown = t.shown
             /\ u.form = IF close THEN None ELSE t.form
             /\ ~close => u.kind = t.kind
             /\ close /\ post[s].kind = "import" => u.kind = "result"
             /\ u.sending = IF Enables(post[s], result) THEN t.sending \ {Key(s)} ELSE t.sending
             /\ u.saved > 0 => result.note = "saved"
<1> DEFINE t == tab[post[s].tab]
           close == Closes(post[s], result)
           saved == IF result.note = "saved" THEN post[s].at ELSE 0
           kind == IF ~close THEN t.kind ELSE IF post[s].kind = "import" THEN "result" ELSE "create"
           form == IF close THEN None ELSE t.form
           sending == IF Enables(post[s], result) THEN t.sending \ {Key(s)} ELSE t.sending
<1>1. t \in Views /\ post[s].at \in Nat BY Records DEF Posts
<1>2. saved \in 0..db BY <1>1, Numbers DEF WInv
<1>3. kind \in Kinds \cup {"result"} /\ form \in opened \cup {None}
      /\ sending \in SUBSET (Kinds \cup {"edit", "page"})
  BY <1>1 DEF Views, Kinds
<1>4. Shows(post[s], result) = [t EXCEPT !.form = form, !.kind = kind, !.sending = sending, !.saved = saved]
  BY <1>1 DEF Shows, Key, Views
<1>5. saved > 0 => result.note = "saved" OBVIOUS
<1>6. /\ ~close => kind = t.kind
      /\ close /\ post[s].kind = "import" => kind = "result"
  OBVIOUS
<1> HIDE DEF saved, kind, form, sending, t, close
<1>7. LET g == [t EXCEPT !.form = form, !.kind = kind, !.sending = sending, !.saved = saved]
      IN  /\ g \in Views /\ g.form = form /\ g.kind = kind /\ g.sending = sending /\ g.saved = saved
          /\ g.page = t.page /\ g.shown = t.shown
  BY <1>1, <1>2, <1>3 DEF Views
<1>8. LET g == Shows(post[s], result)
      IN  /\ g \in Views /\ g.form = form /\ g.kind = kind /\ g.sending = sending /\ g.saved = saved
          /\ g.page = t.page /\ g.shown = t.shown
  BY <1>4, <1>7
<1> QED BY <1>5, <1>6, <1>8 DEF form, sending, t, close

\* The answer to a submission, or the loss of its connection.
LEMMA SettleWInv ==
  ASSUME WInv, NEW s \in Slots, Used(s), NEW result \in Results, NEW jar \in 0..issued,
         Settle(s, result, jar), UNCHANGED <<server, journey, opened, reloads>>, cookie' \in 0..issued,
         result.note = "saved" =>
           /\ post[s].stage = "served" /\ post[s].at <= db
           /\ \/ result.type = "success" /\ post[s].page \in Lists \cup Settings \cup {"division"}
              \/ post[s].kind = "import" /\ post[s].page = "members"
  PROVE  WInv'
<1> DEFINE p == post[s]
           t == post[s].tab
           does == Settled(post[s].page, result)
           saves == does.close /\ result.note = "saved"
           closes == Closes(post[s], result)
<1>1. UNCHANGED <<issued, live, bucket, db, copies, journey, opened, reloads>> BY DEF server
<1>2. p \in Posts /\ t \in Tabs /\ p.page \in Pages /\ p.kind \in Kinds /\ p.form \in opened \cup {None}
  BY Records
<1>3. /\ does.close \in BOOLEAN /\ does.reload \in BOOLEAN /\ does.broken \in BOOLEAN
      /\ result.note = "saved" => ~does.broken /\ does.close /\ (does.reload \/ p.kind = "import")
      /\ p.page = "divisions" => ~does.close
  <2>1. /\ does.close \in BOOLEAN /\ does.reload \in BOOLEAN /\ does.broken \in BOOLEAN
        /\ p.page \in Lists \cup Settings \cup {"division"} /\ result.type = "success" =>
             ~does.broken /\ does.reload /\ does.close
        /\ p.page = "members" => ~does.broken /\ (does.close <=> result.note = "saved")
        /\ p.page = "divisions" => ~does.close
    BY <1>2, SettledType
  <2> HIDE DEF does
  <2> QED BY <2>1
<1>3a. /\ closes \in BOOLEAN /\ (closes => does.close)
       /\ does.close /\ (p.kind = "import" \/ p.kind = tab[t].kind) => closes
  BY <1>3 DEF Closes
<1> HIDE DEF closes
<1>4. /\ tab' = IF does.broken THEN [tab EXCEPT ![t] = Fresh("error", 0)]
                ELSE IF p.mine THEN [tab EXCEPT ![t] = Shows(p, result)] ELSE tab
      /\ post' = [r \in Slots |-> IF r = s THEN (IF p.stage = "served" THEN NoPost
                                               ELSE [p EXCEPT !.mine = FALSE, !.lost = TRUE])
                    ELSE IF does.broken /\ post[r].tab = t THEN [post[r] EXCEPT !.mine = FALSE] ELSE post[r]]
      /\ unsure' = unsure \cup (IF saves THEN {} ELSE {p.form} \ {None})
  BY DEF Settle
<1>5. load' \in [Tabs -> Loads] /\ (\A u \in Tabs \ {t} : load'[u] = load[u])
      /\ \/ does.broken /\ load'[t].stage = "idle"
         \/ ~does.broken /\ does.reload /\ load'[t].stage = "sent"
         \/ ~does.broken /\ ~does.reload /\ load'[t] = load[t]
  <2> DEFINE to == IF result.type # "redirect" THEN tab[t].page
                   ELSE IF p.kind = "signin" THEN "dashboard" ELSE p.page
             sent == [Sent(to) EXCEPT !.jar = jar]
  <2>1. load' = IF does.broken THEN [load EXCEPT ![t] = NoLoad]
                ELSE IF does.reload THEN [load EXCEPT ![t] = sent] ELSE load
    BY DEF Settle
  <2>2. to \in Pages BY <1>2, Constants, Records
  <2>3. sent \in Loads /\ sent.stage = "sent" BY <2>2, SentType DEF WInv
  <2> HIDE DEF sent, to, does
  <2> QED BY <1>2, <1>3, <2>1, <2>3, NoLoadType, Records DEF WInv
<1>6. /\ unsure \subseteq unsure' /\ unsure' \subseteq opened
      /\ ~saves => p.form \in unsure' \cup {None}
  BY <1>2, <1>4, Records
<1>7. /\ post' \in [Slots -> Posts]
      /\ p.stage = "served" => post'[s] = NoPost
      /\ p.stage # "served" =>
           /\ post'[s].tab = p.tab /\ post'[s].form = p.form /\ post'[s].kind = p.kind
           /\ post'[s].page = p.page /\ post'[s].stage = p.stage /\ post'[s].at = p.at
           /\ post'[s].result = p.result /\ post'[s].mine = FALSE /\ post'[s].lost = TRUE
      /\ \A r \in Slots \ {s} :
           /\ post'[r].tab = post[r].tab /\ post'[r].form = post[r].form /\ post'[r].kind = post[r].kind
           /\ post'[r].page = post[r].page /\ post'[r].stage = post[r].stage /\ post'[r].lost = post[r].lost
           /\ post'[r].at = post[r].at /\ post'[r].result = post[r].result
           /\ post'[r].mine = IF does.broken /\ post[r].tab = t THEN FALSE ELSE post[r].mine
  <2>1. \A e \in Posts : LET q == [e EXCEPT !.mine = FALSE] IN
          /\ q \in Posts /\ q.tab = e.tab /\ q.form = e.form /\ q.kind = e.kind /\ q.page = e.page
          /\ q.stage = e.stage /\ q.lost = e.lost /\ q.at = e.at /\ q.result = e.result /\ q.mine = FALSE
    BY DEF Posts
  <2> DEFINE q == [p EXCEPT !.mine = FALSE, !.lost = TRUE]
  <2>2. /\ q \in Posts /\ q.tab = p.tab /\ q.form = p.form /\ q.kind = p.kind /\ q.page = p.page
        /\ q.stage = p.stage /\ q.at = p.at /\ q.result = p.result /\ q.mine = FALSE /\ q.lost = TRUE
    BY <1>2 DEF Posts
  <2>3. NoPost \in Posts BY NoPostType DEF WInv
  <2>4. post'[s] = IF p.stage = "served" THEN NoPost ELSE q BY <1>4
  <2>5. \A r \in Slots \ {s} :
          post'[r] = IF does.broken /\ post[r].tab = t THEN [post[r] EXCEPT !.mine = FALSE] ELSE post[r]
    BY <1>4
  <2> HIDE DEF q, does
  <2>6. \A r \in Slots \ {s} :
           /\ post'[r] \in Posts
           /\ post'[r].tab = post[r].tab /\ post'[r].form = post[r].form /\ post'[r].kind = post[r].kind
           /\ post'[r].page = post[r].page /\ post'[r].stage = post[r].stage /\ post'[r].lost = post[r].lost
           /\ post'[r].at = post[r].at /\ post'[r].result = post[r].result
           /\ post'[r].mine = IF does.broken /\ post[r].tab = t THEN FALSE ELSE post[r].mine
    <3> SUFFICES ASSUME NEW r \in Slots \ {s}
        PROVE  /\ post'[r] \in Posts
               /\ post'[r].tab = post[r].tab /\ post'[r].form = post[r].form /\ post'[r].kind = post[r].kind
               /\ post'[r].page = post[r].page /\ post'[r].stage = post[r].stage /\ post'[r].lost = post[r].lost
               /\ post'[r].at = post[r].at /\ post'[r].result = post[r].result
               /\ post'[r].mine = IF does.broken /\ post[r].tab = t THEN FALSE ELSE post[r].mine
      OBVIOUS
    <3>1. post[r] \in Posts BY Records
    <3> DEFINE g == [post[r] EXCEPT !.mine = FALSE]
    <3>2. /\ g \in Posts /\ g.tab = post[r].tab /\ g.form = post[r].form /\ g.kind = post[r].kind
          /\ g.page = post[r].page /\ g.stage = post[r].stage /\ g.lost = post[r].lost
          /\ g.at = post[r].at /\ g.result = post[r].result /\ g.mine = FALSE
      BY <2>1, <3>1
    <3>3. post'[r] = IF does.broken /\ post[r].tab = t THEN g ELSE post[r] BY <2>5
    <3> HIDE DEF g
    <3> QED BY <3>1, <3>2, <3>3
  <2>7. \A r \in Slots : post'[r] \in Posts BY <2>2, <2>3, <2>4, <2>6
  <2>8. post' \in [Slots -> Posts] BY <1>4, <2>7
  <2> QED BY <2>2, <2>4, <2>6, <2>8
<1>8. /\ tab' \in [Tabs -> Views] /\ \A u \in Tabs \ {t} : tab'[u] = tab[u]
      /\ does.broken => tab'[t].form = None /\ tab'[t].saved = 0
      /\ ~does.broken /\ p.mine =>
           /\ tab'[t].page = tab[t].page /\ tab'[t].shown = tab[t].shown
           /\ tab'[t].form = IF closes THEN None ELSE tab[t].form
           /\ ~closes => tab'[t].kind = tab[t].kind
           /\ closes /\ p.kind = "import" => tab'[t].kind = "result"
           /\ tab'[t].sending = IF Enables(p, result) THEN tab[t].sending \ {Key(s)} ELSE tab[t].sending
           /\ tab'[t].saved > 0 => result.note = "saved"
      /\ ~does.broken /\ ~p.mine => tab'[t] = tab[t]
  <2> DEFINE u == Shows(p, result)
             e == Fresh("error", 0)
  <2>1. /\ u \in Views /\ u.page = tab[t].page /\ u.shown = tab[t].shown
        /\ u.form = IF closes THEN None ELSE tab[t].form
        /\ ~closes => u.kind = tab[t].kind
        /\ closes /\ p.kind = "import" => u.kind = "result"
        /\ u.sending = IF Enables(p, result) THEN tab[t].sending \ {Key(s)} ELSE tab[t].sending
        /\ u.saved > 0 => result.note = "saved"
    BY ShowsType DEF closes
  <2>2. e \in Views /\ e.form = None /\ e.saved = 0
    BY FreshType, Numbers, Constants DEF WInv
  <2>3. tab' = IF does.broken THEN [tab EXCEPT ![t] = e] ELSE IF p.mine THEN [tab EXCEPT ![t] = u] ELSE tab
    BY <1>4
  <2> HIDE DEF u, e, does
  <2> QED BY <1>2, <2>1, <2>2, <2>3, Records
<1> HIDE DEF does
<1>9. \A r \in Slots \ {s} : Used(r)' = Used(r) /\ Key(r)' = Key(r) /\ Never(r)' = Never(r)
  BY <1>7 DEF Used, Key, Never
<1>10. TypeOK' BY <1>1, <1>5, <1>6, <1>7, <1>8, Unchanged DEF WInv, TypeOK
<1>11. \A u \in Tabs : tab'[u].form # None => tab'[u].form = tab[u].form /\ tab'[u].kind = tab[u].kind
                                              /\ tab'[u].page = tab[u].page
  BY <1>8, <1>3a
<1>12. TabInv' BY <1>11 DEF WInv, TabInv
<1>13. PostInv'
  <2> SUFFICES ASSUME NEW r \in Slots
      PROVE  (/\ ~Used(r) => post[r].form = None /\ post[r].result.note = "none"
              /\ Used(r) =>
                   /\ (post[r].form = None) <=> (post[r].kind = "signin")
                   /\ post[r].kind = "import" => post[r].page = "members"
              /\ post[r].lost => post[r].form \in unsure \cup {None}
              /\ post[r].result.note = "saved" =>
                   /\ post[r].at <= db
                   /\ \/ /\ post[r].result.type = "success"
                         /\ post[r].page \in Lists \cup Settings \cup {"division"}
                      \/ post[r].kind = "import" /\ post[r].page = "members"
              /\ post[r].kind = "signin" /\ post[r].result.type = "redirect" => post[r].at <= issued)'
    BY DEF PostInv
  <2>1. CASE r # s
    <3>1. Used(r)' = Used(r) BY <1>9, <2>1
    <3>2. /\ post'[r].tab = post[r].tab /\ post'[r].form = post[r].form /\ post'[r].kind = post[r].kind
          /\ post'[r].page = post[r].page /\ post'[r].lost = post[r].lost
          /\ post'[r].at = post[r].at /\ post'[r].result = post[r].result
      BY <1>7, <2>1
    <3> QED BY <1>1, <1>6, <3>1, <3>2 DEF WInv, PostInv
  <2>2. CASE r = s /\ p.stage = "served" BY <1>7, <2>2, NoPostType DEF WInv, Used
  <2>3. CASE r = s /\ p.stage # "served"
    <3>1. Used(s)' BY <1>7, <2>3 DEF Used
    <3>2. p.form \in unsure' \cup {None} BY <1>6, <2>3
    <3> QED BY <1>1, <1>7, <2>3, <3>1, <3>2 DEF WInv, PostInv
  <2> QED BY <2>1, <2>2, <2>3
<1>14. ~Blocks(s)' /\ (Used(s)' => post'[s].mine = FALSE)
  BY <1>7, NoPostType DEF WInv, Used, Blocks
<1>15. \A r \in Slots \ {s} : Blocks(r)' => Blocks(r) /\ Key(r) \in tab'[post[r].tab].sending
  <2> SUFFICES ASSUME NEW r \in Slots \ {s}, Blocks(r)'
               PROVE  Blocks(r) /\ Key(r) \in tab'[post[r].tab].sending
    OBVIOUS
  <2>1. /\ Used(r) /\ post[r].mine /\ ~Never(r) /\ ~Detached(r)' /\ ~(does.broken /\ post[r].tab = t)
    BY <1>7, <1>9 DEF Blocks
  <2>2. post[r].page = tab[post[r].tab].page /\ post[r].tab \in Tabs BY <2>1, Records DEF WInv, BusyInv
  <2>3. CASE tab'[post[r].tab] = tab[post[r].tab]
    <3>1. post'[r].tab = post[r].tab /\ post'[r].form = post[r].form
          /\ post'[r].kind = post[r].kind /\ post'[r].page = post[r].page
      BY <1>7
    <3>2. Detached(r)' = Detached(r) BY <2>3, <3>1 DEF Detached
    <3>3. Blocks(r) BY <2>1, <3>2 DEF Blocks
    <3> QED BY <2>3, <3>3 DEF WInv, BusyInv
  <2>4. CASE tab'[post[r].tab] # tab[post[r].tab]
    <3>1. post[r].tab = t /\ ~does.broken /\ p.mine BY <1>8, <2>1, <2>2, <2>4
    <3>2. p.page = tab[t].page BY <3>1 DEF WInv, BusyInv
    <3>3. tab[t].page = "divisions" => tab'[t].form = tab[t].form BY <1>3, <1>8, <1>3a, <3>1, <3>2
    <3>4. Blocks(r) BY <1>7, <2>1, <2>2, <3>1, <3>3 DEF Blocks, Detached
    <3>5. Key(r) \in tab[t].sending BY <3>1, <3>4 DEF WInv, BusyInv
    <3>6. Enables(p, result) => Key(r) # Key(s)
      <4> SUFFICES ASSUME Enables(p, result) PROVE Key(r) # Key(s) OBVIOUS
      <4>1. ~Detached(s) BY DEF Enables, Detached
      <4>2. CASE Blocks(s) BY <3>1, <3>4, <4>2 DEF WInv, BusyInv
      <4>3. CASE ~Blocks(s)
        <5>1. Never(s) BY <3>1, <4>1, <4>3 DEF Blocks
        <5>2. Key(s) = "never" BY <1>2, <5>1, Keys DEF Never, Key
        <5>3. Key(r) # "never" BY <2>1, Keys, Records DEF Never, Key
        <5> QED BY <5>2, <5>3
      <4> QED BY <4>2, <4>3
    <3> QED BY <1>8, <3>1, <3>4, <3>5, <3>6
  <2> QED BY <2>3, <2>4
<1>16. BusyInv'
  <2>1. \A r \in Slots : (Used(r) /\ post[r].mine)' => post'[r].page = tab'[post'[r].tab].page
    <3> SUFFICES ASSUME NEW r \in Slots, Used(r)', post'[r].mine PROVE post'[r].page = tab'[post'[r].tab].page
      OBVIOUS
    <3>1. r # s BY <1>14
    <3>2. /\ Used(r) /\ post[r].mine /\ ~(does.broken /\ post[r].tab = t)
          /\ post'[r].page = post[r].page /\ post'[r].tab = post[r].tab
      BY <1>7, <1>9, <3>1
    <3>3. post[r].page = tab[post[r].tab].page /\ post[r].tab \in Tabs BY <3>2, Records DEF WInv, BusyInv
    <3>4. tab'[post[r].tab].page = tab[post[r].tab].page BY <1>8, <3>2, <3>3
    <3> QED BY <3>2, <3>3, <3>4
  <2>2. \A r \in Slots : Blocks(r)' => r # s /\ Blocks(r) /\ Key(r)' = Key(r) /\ post'[r].tab = post[r].tab
                                       /\ Key(r)' \in tab'[post'[r].tab].sending
    <3> SUFFICES ASSUME NEW r \in Slots, Blocks(r)'
                 PROVE  /\ r # s /\ Blocks(r) /\ Key(r)' = Key(r) /\ post'[r].tab = post[r].tab
                        /\ Key(r)' \in tab'[post'[r].tab].sending
      OBVIOUS
    <3>1. r # s BY <1>14
    <3>2. Blocks(r) /\ Key(r) \in tab'[post[r].tab].sending BY <1>15, <3>1
    <3>3. Key(r)' = Key(r) /\ post'[r].tab = post[r].tab BY <1>7, <1>9, <3>1
    <3> QED BY <3>1, <3>2, <3>3
  <2>3. \A r, u \in Slots :
          (Blocks(r) /\ Blocks(u) /\ r # u /\ post[r].tab = post[u].tab)' => Key(r)' # Key(u)'
    BY <2>2 DEF WInv, BusyInv
  <2> QED BY <2>1, <2>2, <2>3 DEF BusyInv
<1>17. \A r \in Slots : post'[r].form # None =>
         /\ post'[r].tab = post[r].tab /\ post'[r].form = post[r].form /\ post'[r].kind = post[r].kind
         /\ post'[r].page = post[r].page /\ post'[r].stage = post[r].stage /\ Never(r)' = Never(r)
         /\ r = s => post'[r].form \in unsure'
         /\ r # s => post'[r].mine = IF does.broken /\ post[r].tab = t THEN FALSE ELSE post[r].mine
  <2> SUFFICES ASSUME NEW r \in Slots, post'[r].form # None
      PROVE  /\ post'[r].tab = post[r].tab /\ post'[r].form = post[r].form /\ post'[r].kind = post[r].kind
             /\ post'[r].page = post[r].page /\ post'[r].stage = post[r].stage /\ Never(r)' = Never(r)
             /\ r = s => post'[r].form \in unsure'
             /\ r # s => post'[r].mine = IF does.broken /\ post[r].tab = t THEN FALSE ELSE post[r].mine
    OBVIOUS
  <2>1. CASE r # s BY <1>7, <1>9, <2>1
  <2>2. CASE r = s
    <3>1. p.stage # "served" BY <1>7, <2>2, NoPostType DEF WInv
    <3>2. p.form \in unsure' \cup {None} BY <1>6, <3>1
    <3>3. /\ post'[s].tab = p.tab /\ post'[s].form = p.form /\ post'[s].kind = p.kind
          /\ post'[s].page = p.page /\ post'[s].stage = p.stage
      BY <1>7, <3>1
    <3>4. Never(s)' = Never(s) BY <3>3 DEF Never
    <3> QED BY <2>2, <3>2, <3>3, <3>4
  <2> QED BY <2>1, <2>2
<1>18. FormInv'
  <2>1. \A f \in Forms : /\ copies'[f] <= db' /\ (copies'[f] > 1 => f \in unsure')
                         /\ copies'[f] > 0 => f \in opened'
    BY <1>1, <1>6 DEF WInv, FormInv
  <2>2. \A u \in Tabs, r \in Slots : post'[r].form = tab'[u].form /\ tab'[u].form # None =>
          /\ post'[r].tab = u /\ post'[r].page = tab'[u].page /\ post'[r].kind = tab'[u].kind
          /\ post'[r].mine \/ post'[r].form \in unsure'
    <3> SUFFICES ASSUME NEW u \in Tabs, NEW r \in Slots, post'[r].form = tab'[u].form, tab'[u].form # None
                 PROVE  /\ post'[r].tab = u /\ post'[r].page = tab'[u].page /\ post'[r].kind = tab'[u].kind
                        /\ post'[r].mine \/ post'[r].form \in unsure'
      OBVIOUS
    <3>1. tab'[u].form = tab[u].form /\ tab'[u].kind = tab[u].kind /\ tab'[u].page = tab[u].page BY <1>11
    <3>2. post[r].form = tab[u].form /\ post'[r].form = post[r].form BY <1>17, <3>1
    <3>3. /\ post[r].tab = u /\ post[r].page = tab[u].page /\ post[r].kind = tab[u].kind
          /\ post[r].mine \/ post[r].form \in unsure
      BY <3>1, <3>2 DEF WInv, FormInv
    <3>4. ~(does.broken /\ post[r].tab = t) BY <1>8, <3>3
    <3>5. post'[r].mine \/ post'[r].form \in unsure' BY <1>6, <1>17, <3>2, <3>3, <3>4
    <3> QED BY <1>17, <3>1, <3>3, <3>5
  <2>3. \A r, u \in Slots : post'[r].form = post'[u].form /\ r # u /\ post'[u].form \notin unsure' \cup {None}
          => Never(u)'
    <3>1. \A r, u \in Slots : post[r].form = post[u].form /\ r # u /\ post[u].form \notin unsure \cup {None}
            => Never(u)
      BY DEF WInv, FormInv
    <3> SUFFICES ASSUME NEW r \in Slots, NEW u \in Slots, post'[r].form = post'[u].form, r # u,
                        post'[u].form \notin unsure' \cup {None}
                 PROVE  Never(u)'
      OBVIOUS
    <3>2. post'[u].form = post[u].form /\ Never(u)' = Never(u) /\ post'[r].form = post[r].form BY <1>17
    <3>3. post[u].form \notin unsure \cup {None} BY <1>6, <3>2
    <3> QED BY <3>1, <3>2, <3>3
  <2>4. \A r \in Slots : post'[r].form \notin unsure' \cup {None} /\ post'[r].stage \in {"sent", "checked"}
          => Never(r)' \/ copies'[post'[r].form] = 0
    <3>1. \A r \in Slots : post[r].form \notin unsure \cup {None} /\ post[r].stage \in {"sent", "checked"}
            => Never(r) \/ copies[post[r].form] = 0
      BY DEF WInv, FormInv
    <3>2. copies' = copies BY <1>1
    <3> SUFFICES ASSUME NEW r \in Slots, post'[r].form \notin unsure' \cup {None},
                        post'[r].stage \in {"sent", "checked"}, ~Never(r)'
                 PROVE  copies'[post'[r].form] = 0
      OBVIOUS
    <3>3. post'[r].form = post[r].form /\ post'[r].stage = post[r].stage /\ ~Never(r) BY <1>17
    <3>4. post[r].form \notin unsure \cup {None} BY <1>6, <3>3
    <3> QED BY <3>1, <3>2, <3>3, <3>4
  <2>5. \A u \in Tabs : tab'[u].form \notin unsure' \cup {None} /\ copies'[tab'[u].form] > 0
          => \E r \in Slots : post'[r].form = tab'[u].form
    <3> SUFFICES ASSUME NEW u \in Tabs, tab'[u].form \notin unsure' \cup {None}, copies[tab'[u].form] > 0
                 PROVE  \E r \in Slots : post'[r].form = tab'[u].form
      BY <1>1
    <3>1. tab'[u].form = tab[u].form /\ tab[u].form \notin unsure \cup {None} BY <1>6, <1>11
    <3>2. PICK w \in Slots : post[w].form = tab[u].form BY <3>1 DEF WInv, FormInv
    <3>3. w # s
      <4> SUFFICES ASSUME w = s PROVE FALSE OBVIOUS
      <4>1. saves BY <1>6, <3>1, <3>2
      <4>2. u = t /\ p.mine /\ p.kind = tab[t].kind BY <3>1, <3>2 DEF WInv, FormInv
      <4>3. tab'[t].form = None BY <1>3, <1>8, <1>3a, <4>1, <4>2
      <4> QED BY <3>1, <4>2, <4>3
    <3> QED BY <1>7, <3>1, <3>2, <3>3
  <2> QED BY <2>1, <2>2, <2>3, <2>4, <2>5 DEF FormInv
<1>19. SavedInv'
  <2> SUFFICES ASSUME NEW u \in Tabs
      PROVE  /\ load'[u].stage = "served" /\ load'[u].to = "logout" => load'[u].gives = "login"
             /\ tab'[u].saved > 0 /\ tab'[u].kind # "result" /\ u \notin reloads' =>
                  \/ load'[u].stage \in {"sent", "checked"}
                  \/ load'[u].stage = "served" /\ (load'[u].got = Nothing \/ load'[u].got >= tab'[u].saved)
                  \/ load'[u].stage = "idle" /\ (tab'[u].shown = Nothing \/ tab'[u].shown >= tab'[u].saved)
    BY DEF SavedInv
  <2>1. CASE tab'[u] = tab[u] /\ load'[u] = load[u] BY <2>1 DEF WInv, SavedInv
  <2>2. CASE u = t /\ does.broken
    <3>1. ~(tab'[u].saved > 0) BY <1>8, <2>2
    <3> QED BY <1>5, <2>2, <3>1
  <2>3. CASE u = t /\ ~does.broken /\ does.reload BY <1>5, <2>3
  <2>4. CASE u = t /\ ~does.broken /\ ~does.reload /\ p.mine
    <3>1. load'[u] = load[u] BY <1>5, <2>4
    <3>2. tab'[u].saved > 0 => tab'[u].kind = "result" BY <1>3, <1>8, <1>3a, <2>4
    <3> QED BY <3>1, <3>2 DEF WInv, SavedInv
  <2>5. (tab'[u] = tab[u] /\ load'[u] = load[u]) \/ u = t BY <1>5, <1>8
  <2>6. u = t /\ ~does.broken /\ ~does.reload /\ ~p.mine => tab'[u] = tab[u] /\ load'[u] = load[u]
    BY <1>5, <1>8
  <2> QED BY <2>1, <2>2, <2>3, <2>4, <2>5, <2>6
<1> QED BY <1>10, <1>12, <1>13, <1>16, <1>18, <1>19 DEF WInv

LEMMA PostArrivesWInv ==
  ASSUME WInv, NEW s \in Slots, PostArrives(s)
  PROVE  WInv'
<1>1. /\ post[s].stage = "served" /\ Settle(s, post[s].result, cookie')
      /\ UNCHANGED <<server, journey, opened, reloads>>
      /\ cookie' = IF post[s].kind = "signin" /\ post[s].result.type = "redirect" THEN post[s].at
                   ELSE Kept(post[s].jar, post[s].user)
  BY DEF PostArrives
<1>2. post[s].result \in Results /\ post[s].at \in Nat BY Records DEF Posts
<1>3. Used(s) BY <1>1 DEF Used
<1>4. cookie' \in 0..issued
  <2>1. CASE post[s].kind = "signin" /\ post[s].result.type = "redirect"
    <3>1. post[s].at <= issued BY <2>1 DEF WInv, PostInv
    <3> QED BY <1>1, <1>2, <2>1, <3>1, Numbers DEF WInv
  <2>2. CASE ~(post[s].kind = "signin" /\ post[s].result.type = "redirect")
    BY <1>1, <2>2, Numbers DEF Kept, WInv
  <2> QED BY <2>1, <2>2
<1>5. post[s].result.note = "saved" =>
        /\ post[s].at <= db
        /\ \/ post[s].result.type = "success" /\ post[s].page \in Lists \cup Settings \cup {"division"}
           \/ post[s].kind = "import" /\ post[s].page = "members"
  BY DEF WInv, PostInv
<1> QED BY <1>1, <1>2, <1>3, <1>4, <1>5, SettleWInv

LEMMA PostLostWInv ==
  ASSUME WInv, NEW s \in Slots, PostLost(s)
  PROVE  WInv'
<1> DEFINE result == Said("error", "error")
<1>1. /\ Used(s) /\ Settle(s, result, cookie) /\ UNCHANGED <<cookie, server, journey, opened, reloads>>
  BY DEF PostLost, Used
<1>2. result \in Results /\ result.note # "saved" BY DEF Said, Results
<1>3. cookie \in 0..issued /\ cookie' \in 0..issued BY <1>1, Numbers DEF WInv
<1> HIDE DEF result
<1> QED BY <1>1, <1>2, <1>3, SettleWInv

-----------------------------------------------------------------------------
LEMMA InitWInv == Init => WInv
<1> SUFFICES ASSUME Init PROVE WInv OBVIOUS
<1>1. /\ cookie = 0 /\ issued = 0 /\ live = {} /\ bucket = Burst /\ db = 0
      /\ journey \in Journeys /\ copies = [f \in Forms |-> 0] /\ opened = {} /\ unsure = {} /\ reloads = {}
      /\ tab = [t \in Tabs |-> Fresh("login", 0)] /\ load = [t \in Tabs |-> NoLoad]
      /\ post = [s \in Slots |-> NoPost]
  BY DEF Init
<1>2. 0 \in 0..issued /\ 0 \in Nothing..db /\ Nothing \in Nothing..db /\ 0 \in 0..db
  BY <1>1 DEF Nothing
<1>3. Fresh("login", 0) \in Views /\ Fresh("login", 0).form = None /\ Fresh("login", 0).saved = 0
  BY <1>2 DEF Fresh, Views, Kinds, Pages, Public
<1>4. NoLoad \in Loads /\ NoLoad.stage = "idle" BY <1>2, Constants DEF NoLoad, Loads, Stages, Outcomes
<1> DEFINE some == CHOOSE t \in Tabs : TRUE
           said == Said("error", "none")
<1>5. some \in Tabs /\ said \in Results /\ said.note = "none" BY Constants DEF Said, Results
<1>6. NoPost = [tab |-> some, form |-> None, kind |-> "create", page |-> "error",
                stage |-> "free", jar |-> 0, user |-> FALSE, mine |-> FALSE, lost |-> FALSE,
                at |-> 0, result |-> said]
  BY DEF NoPost
<1> HIDE DEF some, said
<1>7. /\ NoPost \in Posts /\ NoPost.stage = "free" /\ NoPost.form = None /\ NoPost.result.note = "none"
      /\ NoPost.mine = FALSE /\ NoPost.lost = FALSE /\ NoPost.kind = "create"
  BY <1>2, <1>5, <1>6, Constants DEF Posts, Kinds, Stages
<1>8. TypeOK
  <2>1. copies \in [Forms -> 0..MaxWrites] /\ bucket \in 0..Burst /\ db \in 0..MaxWrites
        /\ issued \in 0..MaxSessions
    BY <1>1, Constants
  <2>2. tab \in [Tabs -> Views] /\ load \in [Tabs -> Loads] /\ post \in [Slots -> Posts]
    BY <1>1, <1>3, <1>4, <1>7
  <2> QED BY <1>1, <1>2, <2>1, <2>2 DEF TypeOK
<1>9. \A t \in Tabs : tab[t].form = None /\ tab[t].saved = 0 /\ load[t].stage = "idle"
  BY <1>1, <1>3, <1>4
<1>10. \A s \in Slots : post[s] = NoPost /\ ~Used(s) BY <1>1, <1>7 DEF Used
<1>11. TabInv BY <1>9 DEF TabInv
<1>12. PostInv BY <1>7, <1>10 DEF PostInv
<1>13. BusyInv BY <1>10 DEF BusyInv, Blocks
<1>14. FormInv BY <1>1, <1>7, <1>9, <1>10 DEF FormInv
<1>15. SavedInv BY <1>9 DEF SavedInv
<1> QED BY <1>8, <1>11, <1>12, <1>13, <1>14, <1>15 DEF WInv

LEMMA NextWInv == WInv /\ [Next]_vars => WInv'
<1> SUFFICES ASSUME WInv, [Next]_vars PROVE WInv' OBVIOUS
<1>1. CASE Refill \/ Neighbour \/ \E c \in live : SessionEnds(c) BY <1>1, ServerWInv
<1>2. CASE \E t \in Tabs : TabStep(t)
  <2> SUFFICES ASSUME NEW t \in Tabs, TabStep(t) PROVE WInv' BY <1>2
  <2>1. CASE (\E page \in journey : Navigate(t, page)) \/ Logout(t) BY <2>1, NavigateWInv
  <2>2. CASE CheckLoad(t) BY <2>2, CheckLoadWInv
  <2>3. CASE ServeLoad(t) BY <2>3, ServeLoadWInv
  <2>4. CASE LoadArrives(t) BY <2>4, LoadArrivesWInv
  <2>5. CASE \E f \in Forms : \E kind \in Offers(t) : Open(t, kind, f) BY <2>5, OpenWInv
  <2>6. CASE Dismiss(t) BY <2>6, DismissWInv
  <2>7. CASE CloseResult(t) BY <2>7, CloseResultWInv
  <2>8. CASE Reload(t) BY <2>8, ReloadWInv
  <2> QED BY <2>1, <2>2, <2>3, <2>4, <2>5, <2>6, <2>7, <2>8 DEF TabStep
<1>3. CASE \E s \in Slots : PostStep(s)
  <2> SUFFICES ASSUME NEW s \in Slots, PostStep(s) PROVE WInv' BY <1>3
  <2>1. CASE \E t \in Tabs : Submit(t, s) \/ BrowserCall(t, s) \/ SubmitSignIn(t, s) BY <2>1, SubmitWInv
  <2>2. CASE CheckPost(s) BY <2>2, CheckPostWInv
  <2>3. CASE ServePost(s) BY <2>3, ServePostWInv
  <2>4. CASE ServeSignIn(s) BY <2>4, ServeSignInWInv
  <2>5. CASE PostArrives(s) BY <2>5, PostArrivesWInv
  <2>6. CASE PostLost(s) BY <2>6, PostLostWInv
  <2> QED BY <2>1, <2>2, <2>3, <2>4, <2>5, <2>6 DEF PostStep
<1>4. CASE UNCHANGED vars
  <2>1. UNCHANGED <<cookie, issued, live, bucket, db, copies, journey, opened, unsure, reloads, tab, load, post>>
    BY <1>4 DEF vars
  <2>2. TypeOK' BY <2>1, Unchanged DEF WInv, TypeOK
  <2>3. SavedInv' BY <2>1 DEF WInv, SavedInv
  <2> QED BY <2>1, <2>2, <2>3, Frame DEF WInv
<1> QED BY <1>1, <1>2, <1>3, <1>4 DEF Next

\* The inductive invariant.
THEOREM WebInvariant == Spec => []WInv
BY InitWInv, NextWInv, PTL DEF Spec

\* Every request, tab and page load is always of a shape the pages handle.
THEOREM WebTypeCorrect == Spec => []TypeOK
<1>1. WInv => TypeOK BY DEF WInv
<1> QED BY <1>1, WebInvariant, PTL

\* No form is written twice by a tab that could tell that it was written, for
\* any number of tabs, clicks, closed dialogs and lost answers.
THEOREM NoFormTwice == Spec => []NoDoubleRows
<1>1. WInv => NoDoubleRows BY DEF WInv, FormInv, NoDoubleRows
<1> QED BY <1>1, WebInvariant, PTL

\* What a page reports as saved it shows as soon as its loads have ended.
THEOREM SavesStayShown == Spec => []SavesAreShown
<1>1. WInv => SavesAreShown BY DEF WInv, SavedInv, SavesAreShown
<1> QED BY <1>1, WebInvariant, PTL

=============================================================================
