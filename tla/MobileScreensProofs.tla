------------------------- MODULE MobileScreensProofs -------------------------
(***************************************************************************)
(* Safety of MobileScreens for any number of mutations and writes and any  *)
(* pattern of refetches.  SInv is the inductive invariant.                 *)
(***************************************************************************)
EXTENDS MobileScreens, TLAPS

\* Screens for managers are open, and mutations under way, only while the
\* screens take the user for a manager; a refusal is about another role.
RoleInv ==
  /\ stack \cap {"create", "edit"} # {} => Manages
  /\ \A c \in Calls : calls[c].stage # "free" => Manages
  /\ \A c \in Calls : calls[c].result = "refused" => calls[c].stage # "free" /\ claim # "manager"

\* The newest write that a query could show.
Newest(k) == IF k = "detail" THEN srv.row ELSE srv.v

\* Nothing is due that the server does not have, and an answer to a write of
\* the row is about the row.  The list, which stays, waits for no mutation.
WriteInv ==
  /\ srv.row <= srv.v
  /\ \A k \in Keys : known[k] <= Newest(k)
  /\ \A c \in Calls :
       /\ calls[c].from \notin {"list"}
       /\ calls[c].op = "roster" => kind = "divisions"
       /\ calls[c].result = "ok" =>
            /\ ~UpdateMember(calls[c].op)
            /\ calls[c].at <= srv.v
            /\ calls[c].op \in {"update", "roster"} => calls[c].at <= srv.row

\* Whatever is not marked stale, or has been answered and is about to come in,
\* is as new as it is due; the stored answers keep an event so at all times.
ShownInv ==
  \A k \in Keys :
    /\ ~cache[k].stale /\ cache[k].data # Nothing => cache[k].data >= known[k]
    /\ cache[k].stage = "served" /\ cache[k].got >= 0 => cache[k].got >= known[k]
    /\ kind = "events" /\ k = "detail" /\ cache[k].data # Nothing => cache[k].data >= known[k]

SInv == TypeOK /\ RoleInv /\ WriteInv /\ ShownInv

-----------------------------------------------------------------------------
LEMMA Tabs ==
  ASSUME TypeOK
  PROVE  kind \in {"events", "divisions", "finance", "members"}
BY ConstantsAssumption DEF TypeOK

LEMMA Numbers ==
  /\ MaxWrites \in Nat /\ MaxLapses \in Nat
  /\ 0 \in 0 .. MaxWrites
  /\ \A n \in 0 .. MaxWrites : n \in Nothing .. MaxWrites /\ n \in Broken .. MaxWrites
  /\ Nothing \in Nothing .. MaxWrites /\ {Nothing, Gone, Broken} \subseteq Broken .. MaxWrites
BY ConstantsAssumption DEF Nothing, Gone, Broken

\* An entry is of its kind, whatever happens to it.
LEMMA EntryTypes ==
  /\ Empty \in Entries /\ Asked(Empty) \in Entries
  /\ \A e \in Entries : /\ Asked(e) \in Entries
                        /\ Refetched(e) \in Entries
                        /\ [e EXCEPT !.stale = TRUE] \in Entries
BY Numbers DEF Empty, Asked, Refetched, Entries

LEMMA FreeType == Free \in Mutations
BY Numbers DEF Free, Mutations, Screens

\* All but the look at a row is for managers, and offered with no form open.
LEMMA OffersForManagers ==
  ASSUME TypeOK, NEW x \in {"create", "edit", "delete", "roster"}, x \in Offers
  PROVE  Manages
<1>1. CASE Top = "list"
  <2>1. x \in ListOffers BY <1>1 DEF Offers
  <2> QED BY <2>1, Tabs
    DEF ListOffers, EventListScreen, DivisionListScreen, FinanceScreen, MemberListScreen,
        DivisionCard, EventTimelineCard, TransactionCard, MemberCard, When
<1>2. CASE Top = "detail"
  <2>1. x \in DetailOffers BY <1>2 DEF Offers, When
  <2> QED BY <2>1, Tabs
    DEF DetailOffers, EventDetailScreen, DivisionDetailScreen, TransactionDetailScreen, MemberRow, When
<1>3. CASE Top \notin {"list", "detail"} BY <1>3 DEF Offers
<1> QED BY <1>1, <1>2, <1>3

LEMMA RosterOfDivisions ==
  ASSUME TypeOK, "roster" \in Offers
  PROVE  kind = "divisions"
<1>1. CASE Top = "list"
  <2>1. "roster" \in ListOffers BY <1>1 DEF Offers
  <2> QED BY <2>1, Tabs
    DEF ListOffers, EventListScreen, DivisionListScreen, FinanceScreen, MemberListScreen,
        DivisionCard, EventTimelineCard, TransactionCard, MemberCard, When
<1>2. CASE Top = "detail"
  <2>1. "roster" \in DetailOffers BY <1>2 DEF Offers, When
  <2> QED BY <2>1, Tabs
    DEF DetailOffers, EventDetailScreen, DivisionDetailScreen, TransactionDetailScreen, MemberRow, When
<1>3. CASE Top \notin {"list", "detail"} BY <1>3 DEF Offers
<1> QED BY <1>1, <1>2, <1>3

LEMMA OffersWithoutForm ==
  ASSUME NEW x, x \in Offers
  PROVE  "create" \notin stack /\ "edit" \notin stack
<1>1. CASE "create" \in stack
  <2>1. Top = "create" BY <1>1 DEF Top
  <2> QED BY <2>1 DEF Offers
<1>2. CASE "create" \notin stack /\ "edit" \in stack
  <2>1. Top = "edit" BY <1>2 DEF Top
  <2> QED BY <2>1 DEF Offers
<1> QED BY <1>1, <1>2

LEMMA TopMounted ==
  ASSUME TypeOK
  PROVE  Top \in stack /\ Top \in Screens
BY DEF TypeOK, Top, Screens

-----------------------------------------------------------------------------
LEMMA InitSInv == Init => SInv
<1> SUFFICES ASSUME Init PROVE SInv OBVIOUS
<1>1. \A k \in Keys : cache[k] = Empty \/ cache[k] = Asked(Empty)
  BY DEF Init, Anew
<1>2. TypeOK
  <2>1. cache \in [Keys -> Entries] BY <1>1, EntryTypes DEF Init
  <2>2. calls \in [Calls -> Mutations] BY FreeType DEF Init
  <2>3. srv \in [v : 0 .. MaxWrites, row : 0 .. MaxWrites, gone : 0 .. MaxWrites]
        /\ known \in [Keys -> 0 .. MaxWrites] /\ lapses \in 0 .. MaxLapses
    BY Numbers DEF Init
  <2>4. \A c \in Calls : calls[c].from \in stack \cup {"none"} BY DEF Init, Free
  <2>5. {role, claim, session} \subseteq {"manager", "member"} BY DEF Init
  <2>6. "list" \in stack /\ stack \subseteq Screens /\ ~({"create", "edit"} \subseteq stack)
    BY DEF Init, Screens
  <2> QED BY <2>1, <2>2, <2>3, <2>4, <2>5, <2>6 DEF Init, TypeOK
<1>3. RoleInv BY DEF Init, RoleInv, Free
<1>4. WriteInv BY DEF Init, WriteInv, Free, Newest, Keys
<1>5. ShownInv
  BY <1>1 DEF Init, ShownInv, Empty, Asked, Nothing
<1> QED BY <1>2, <1>3, <1>4, <1>5 DEF SInv

-----------------------------------------------------------------------------
(* Screens.                                                                 *)

LEMMA MountType ==
  ASSUME TypeOK, Mount("detail")
  PROVE  /\ cache' \in [Keys -> Entries]
         /\ \A k \in Keys : cache'[k] = cache[k] \/ cache'[k] = Asked(cache[k])
<1>1. cache' = cache \/ cache' = [cache EXCEPT !["detail"] = Asked(cache["detail"])]
  BY DEF Mount
<1>2. cache["detail"] \in Entries /\ cache \in [Keys -> Entries] BY DEF TypeOK, Keys
<1>3. Asked(cache["detail"]) \in Entries BY <1>2, EntryTypes
<1> QED BY <1>1, <1>2, <1>3

\* To ask for a query changes nothing that is shown.
LEMMA AskedShown ==
  ASSUME SInv, UNCHANGED <<kind, known>>,
         \A k \in Keys : cache'[k] = cache[k] \/ cache'[k] = Asked(cache[k])
  PROVE  ShownInv'
<1> SUFFICES ASSUME NEW k \in Keys
             PROVE  /\ ~cache'[k].stale /\ cache'[k].data # Nothing => cache'[k].data >= known[k]
                    /\ cache'[k].stage = "served" /\ cache'[k].got >= 0 => cache'[k].got >= known[k]
                    /\ kind = "events" /\ k = "detail" /\ cache'[k].data # Nothing
                         => cache'[k].data >= known[k]
  BY DEF ShownInv
<1>1. cache[k] \in Entries BY DEF SInv, TypeOK
<1>2. CASE cache'[k] = cache[k] BY <1>2 DEF SInv, ShownInv
<1>3. CASE cache'[k] = Asked(cache[k])
  <2>1. /\ cache'[k].data = cache[k].data /\ cache'[k].stale = cache[k].stale
        /\ cache'[k].stage = "sent"
    BY <1>1, <1>3 DEF Asked, Entries
  <2> QED BY <2>1 DEF SInv, ShownInv
<1> QED BY <1>2, <1>3

LEMMA OpenSInv ==
  ASSUME SInv, NEW screen \in Screens, Open(screen)
  PROVE  SInv'
<1>1. screen \in Offers /\ screen \in {"detail", "create", "edit"} BY DEF Open
<1>2. "create" \notin stack /\ "edit" \notin stack BY <1>1, OffersWithoutForm
<1>3. /\ cache' \in [Keys -> Entries]
      /\ \A k \in Keys : cache'[k] = cache[k] \/ cache'[k] = Asked(cache[k])
  <2>1. CASE screen = "create" BY <2>1 DEF Open, SInv, TypeOK
  <2>2. CASE screen # "create" BY <2>2, MountType DEF Open, SInv
  <2> QED BY <2>1, <2>2
<1>4. screen \in {"create", "edit"} => Manages
  BY <1>1, OffersForManagers DEF SInv
<1>5. TypeOK'
  <2>1. "list" \in stack' /\ stack' \subseteq Screens /\ ~({"create", "edit"} \subseteq stack')
    BY <1>1, <1>2 DEF Open, SInv, TypeOK, Screens
  <2>2. \A c \in Calls : calls'[c].from \in stack' \cup {"none"}
    BY DEF Open, SInv, TypeOK
  <2> QED BY <1>3, <2>1, <2>2 DEF Open, SInv, TypeOK, roles
<1>6. RoleInv' BY <1>1, <1>4 DEF Open, SInv, RoleInv, Manages, roles
<1>7. WriteInv' BY DEF Open, SInv, WriteInv, Newest, UpdateMember
<1>8. ShownInv' BY <1>3, AskedShown DEF Open
<1> QED BY <1>5, <1>6, <1>7, <1>8 DEF SInv

\* A mutation without its screen is the same mutation.
LEMMA OrphanedCalls ==
  ASSUME TypeOK, NEW screen
  PROVE  /\ Orphaned(screen) \in [Calls -> Mutations]
         /\ \A c \in Calls :
              /\ Orphaned(screen)[c].op = calls[c].op
              /\ Orphaned(screen)[c].stage = calls[c].stage
              /\ Orphaned(screen)[c].result = calls[c].result
              /\ Orphaned(screen)[c].at = calls[c].at
              /\ Orphaned(screen)[c].from = "none"
                   \/ (Orphaned(screen)[c].from = calls[c].from /\ calls[c].from # screen)
<1>1. \A c \in Calls : calls[c] \in Mutations BY DEF TypeOK
<1> QED BY <1>1 DEF Orphaned, Mutations

LEMMA BackSInv ==
  ASSUME SInv, Back
  PROVE  SInv'
<1>1. Top \in stack /\ Top \in Screens /\ Top # "list" BY TopMounted DEF SInv, Back
<1>2. calls' = Orphaned(Top) /\ stack' = stack \ {Top} BY DEF Back
<1>3. UNCHANGED <<kind, srv, role, claim, session, cache, known, lapses>> BY DEF Back, roles
<1>4. Orphaned(Top) \in [Calls -> Mutations] BY OrphanedCalls DEF SInv
<1>5. \A c \in Calls :
        /\ calls'[c].op = calls[c].op /\ calls'[c].stage = calls[c].stage
        /\ calls'[c].result = calls[c].result /\ calls'[c].at = calls[c].at
        /\ calls'[c].from = "none" \/ (calls'[c].from = calls[c].from /\ calls[c].from # Top)
  BY <1>2, OrphanedCalls DEF SInv
<1>6. TypeOK'
  <2>1. "list" \in stack' /\ stack' \subseteq Screens /\ ~({"create", "edit"} \subseteq stack')
    BY <1>1, <1>2 DEF SInv, TypeOK
  <2>2. \A c \in Calls : calls'[c].from \in stack' \cup {"none"}
    BY <1>2, <1>5 DEF SInv, TypeOK
  <2> QED BY <1>2, <1>3, <1>4, <2>1, <2>2 DEF SInv, TypeOK
<1>7. RoleInv'
  <2>1. stack' \cap {"create", "edit"} # {} => Manages'
    BY <1>2, <1>3 DEF SInv, RoleInv, Manages
  <2> QED BY <2>1, <1>3, <1>5 DEF SInv, RoleInv, Manages
<1>8. WriteInv'
  <2>1. \A c \in Calls : calls'[c].from \notin {"list"}
    BY <1>5 DEF SInv, WriteInv
  <2> QED BY <2>1, <1>3, <1>5 DEF SInv, WriteInv, Newest, UpdateMember
<1>9. ShownInv' BY <1>3 DEF SInv, ShownInv
<1> QED BY <1>6, <1>7, <1>8, <1>9 DEF SInv

-----------------------------------------------------------------------------
(* The query cache.                                                         *)

\* An answer comes from the server as it is.
LEMMA FetchServedSInv ==
  ASSUME SInv, NEW k \in Keys, FetchServed(k)
  PROVE  SInv'
<1>1. PICK got \in Broken .. MaxWrites :
        /\ cache' = [cache EXCEPT ![k].stage = "served", ![k].got = got]
        /\ got >= 0 => got = Newest(k)
        /\ lapses' \in 0 .. MaxLapses
  <2>1. srv.v \in 0 .. MaxWrites /\ srv.row \in 0 .. MaxWrites /\ lapses \in 0 .. MaxLapses
    BY DEF SInv, TypeOK
  <2>2. CASE Lapse /\ cache' = [cache EXCEPT ![k].stage = "served", ![k].got = Broken]
    <3>1. lapses' \in 0 .. MaxLapses BY <2>1, <2>2, Numbers DEF Lapse
    <3>2. Broken \in Broken .. MaxWrites /\ ~(Broken >= 0) BY Numbers DEF Broken
    <3> QED BY <2>2, <3>1, <3>2
  <2>3. CASE /\ UNCHANGED lapses
             /\ cache' = [cache EXCEPT ![k].stage = "served",
                  ![k].got = IF k # "detail" THEN srv.v ELSE IF srv.gone > 0 THEN Gone ELSE srv.row]
    <3> DEFINE answer == IF k # "detail" THEN srv.v ELSE IF srv.gone > 0 THEN Gone ELSE srv.row
    <3>1. answer \in Broken .. MaxWrites BY <2>1, Numbers
    <3>2. answer >= 0 => answer = Newest(k) BY DEF Newest, Gone
    <3> QED BY <2>1, <2>3, <3>1, <3>2
  <2> QED BY <2>2, <2>3 DEF FetchServed
<1>2. UNCHANGED <<kind, srv, role, claim, session, stack, known, calls>> BY DEF FetchServed, roles
<1>3. cache \in [Keys -> Entries] BY DEF SInv, TypeOK
<1>4. TypeOK'
  <2>1. cache' \in [Keys -> Entries] BY <1>1, <1>3 DEF Entries
  <2> QED BY <1>1, <1>2, <2>1 DEF SInv, TypeOK
<1>5. RoleInv' BY <1>2 DEF SInv, RoleInv, Manages
<1>6. WriteInv' BY <1>2 DEF SInv, WriteInv, Newest, UpdateMember
<1>7. ShownInv'
  <2>1. ASSUME NEW q \in Keys
        PROVE  /\ cache'[q].data = cache[q].data /\ cache'[q].stale = cache[q].stale
               /\ q # k => cache'[q] = cache[q]
    BY <1>1, <1>3 DEF Entries
  <2>2. cache'[k].got = got BY <1>1, <1>3 DEF Entries
  <2>3. got >= 0 => got >= known[k]
    <3>1. known[k] <= Newest(k) /\ known[k] \in 0 .. MaxWrites BY DEF SInv, WriteInv, TypeOK
    <3> QED BY <1>1, <3>1
  <2> QED BY <1>2, <2>1, <2>2, <2>3 DEF SInv, ShownInv
<1> QED BY <1>4, <1>5, <1>6, <1>7 DEF SInv

LEMMA FetchArrivesSInv ==
  ASSUME SInv, NEW k \in Keys, FetchArrives(k)
  PROVE  SInv'
<1>1. cache \in [Keys -> Entries] /\ cache[k].stage = "served" BY DEF SInv, TypeOK, FetchArrives
<1>2. UNCHANGED <<kind, srv, role, claim, session, stack, known, calls, lapses>>
  BY DEF FetchArrives, roles
<1>3. \A q \in Keys \ {k} : cache'[q] = cache[q] BY <1>1 DEF FetchArrives
<1>4. CASE cache[k].got \in {Gone, Broken}
  <2>1. cache'[k] = [cache[k] EXCEPT !.stage = "idle", !.failed = TRUE, !.got = Nothing]
    BY <1>1, <1>4 DEF FetchArrives
  <2> DEFINE e == cache[k]
  <2>2. e \in Entries /\ Nothing \in Broken .. MaxWrites BY <1>1, Numbers
  <2>3. [e EXCEPT !.stage = "idle", !.failed = TRUE, !.got = Nothing] \in Entries
    BY <2>2 DEF Entries
  <2>4. /\ cache'[k] \in Entries /\ cache'[k].stage = "idle"
        /\ cache'[k].data = cache[k].data /\ cache'[k].stale = cache[k].stale
    BY <2>1, <2>2, <2>3 DEF Entries
  <2>5. cache' \in [Keys -> Entries] BY <1>1, <2>4 DEF FetchArrives
  <2>6. TypeOK' BY <1>2, <2>5 DEF SInv, TypeOK
  <2>7. ShownInv' BY <1>2, <1>3, <2>4 DEF SInv, ShownInv
  <2> QED BY <1>2, <2>6, <2>7 DEF SInv, RoleInv, Manages, WriteInv, Newest, UpdateMember
<1>5. CASE cache[k].got \notin {Gone, Broken}
  <2>1. cache'[k] = [Empty EXCEPT !.data = cache[k].got] BY <1>1, <1>5 DEF FetchArrives
  <2>2. cache[k].got \in Nothing .. MaxWrites
    BY <1>1, <1>5, Numbers DEF Entries, Nothing, Gone, Broken
  <2>3. /\ cache'[k] \in Entries /\ cache'[k].stage = "idle" /\ cache'[k].data = cache[k].got
    BY <2>1, <2>2, Numbers DEF Empty, Entries
  <2>4. cache' \in [Keys -> Entries] BY <1>1, <2>3 DEF FetchArrives
  <2>5. TypeOK' BY <1>2, <2>4 DEF SInv, TypeOK
  <2>6. cache[k].got # Nothing => cache[k].got >= known[k]
    BY <1>1, <2>2 DEF SInv, ShownInv, Nothing
  <2>7. ShownInv' BY <1>2, <1>3, <2>3, <2>6 DEF SInv, ShownInv
  <2> QED BY <1>2, <2>5, <2>7 DEF SInv, RoleInv, Manages, WriteInv, Newest, UpdateMember
<1> QED BY <1>4, <1>5

LEMMA RefetchSInv ==
  ASSUME SInv, NEW k \in Keys, Refetch(k)
  PROVE  SInv'
<1>1. cache \in [Keys -> Entries] /\ lapses \in 0 .. MaxLapses BY DEF SInv, TypeOK
<1>2. UNCHANGED <<kind, srv, role, claim, session, stack, known, calls>> BY DEF Refetch, roles
<1>3. lapses' \in 0 .. MaxLapses BY <1>1, Numbers DEF Refetch, Lapse
<1>4. cache' = [cache EXCEPT ![k] = Asked(cache[k])] BY DEF Refetch
<1>5. cache' \in [Keys -> Entries] BY <1>1, <1>4, EntryTypes
<1>6. \A q \in Keys : cache'[q] = cache[q] \/ cache'[q] = Asked(cache[q]) BY <1>1, <1>4
<1>7. TypeOK' BY <1>2, <1>3, <1>5 DEF SInv, TypeOK
<1>8. ShownInv' BY <1>2, <1>6, AskedShown
<1> QED BY <1>2, <1>7, <1>8 DEF SInv, RoleInv, Manages, WriteInv, Newest, UpdateMember

-----------------------------------------------------------------------------
(* Mutations.                                                               *)

\* What a screen sends, a manager sends.
LEMMA CallSInv ==
  ASSUME SInv, NEW c \in Calls,
         NEW op \in {"create", "update", "delete", "roster"},
         NEW from \in (stack \cup {"none"}) \ {"list"},
         op = "roster" => kind = "divisions", Manages, Call(c, op, from)
  PROVE  SInv'
<1>1. calls \in [Calls -> Mutations] /\ from \in Screens \cup {"none"} BY DEF SInv, TypeOK
<1> DEFINE new == [Free EXCEPT !.op = op, !.from = from, !.stage = "sent"]
<1>2. /\ new \in Mutations /\ new.op = op /\ new.from = from /\ new.stage = "sent"
      /\ new.result = "none"
  <2>1. \A f \in Mutations :
          LET g == [f EXCEPT !.op = op, !.from = from, !.stage = "sent"]
          IN  g \in Mutations /\ g.op = op /\ g.from = from /\ g.stage = "sent" /\ g.result = f.result
    BY <1>1 DEF Mutations
  <2>2. Free \in Mutations /\ Free.result = "none" BY FreeType DEF Free
  <2> QED BY <2>1, <2>2
<1>3. calls' = [calls EXCEPT ![c] = new] BY DEF Call
<1> HIDE DEF new
<1>4. UNCHANGED <<kind, srv, role, claim, session, stack, cache, known, lapses>> BY DEF Call, roles
<1>5. calls'[c] = new /\ \A d \in Calls \ {c} : calls'[d] = calls[d] BY <1>1, <1>3
<1>6. TypeOK'
  <2>1. calls' \in [Calls -> Mutations] BY <1>1, <1>2, <1>3
  <2>2. \A d \in Calls : calls'[d].from \in stack' \cup {"none"} BY <1>2, <1>4, <1>5 DEF SInv, TypeOK
  <2> QED BY <1>4, <2>1, <2>2 DEF SInv, TypeOK
<1>7. RoleInv' BY <1>2, <1>4, <1>5 DEF SInv, RoleInv, Manages
<1>8. WriteInv' BY <1>2, <1>4, <1>5 DEF SInv, WriteInv, Newest, UpdateMember
<1>9. ShownInv' BY <1>4 DEF SInv, ShownInv
<1> QED BY <1>6, <1>7, <1>8, <1>9 DEF SInv

LEMMA SubmitSInv ==
  ASSUME SInv, NEW c \in Calls, Submit(c)
  PROVE  SInv'
<1>1. Top \in {"create", "edit"} BY DEF Submit, MaySubmit
<1>2. Top \in stack BY TopMounted DEF SInv
<1>3. Manages BY <1>1, <1>2 DEF SInv, RoleInv
<1>4. CASE Top = "create"
  <2>1. Call(c, "create", Top) BY <1>4 DEF Submit
  <2> QED BY <1>1, <1>2, <1>3, <2>1, CallSInv
<1>5. CASE Top = "edit"
  <2>1. Call(c, "update", Top) BY <1>5 DEF Submit
  <2> QED BY <1>1, <1>2, <1>3, <2>1, CallSInv
<1> QED BY <1>1, <1>4, <1>5

LEMMA OfferedSInv ==
  ASSUME SInv, NEW c \in Calls,
         DeleteListed(c) \/ DeleteShown(c) \/ RemoveFromRoster(c)
  PROVE  SInv'
<1>1. CASE DeleteListed(c)
  <2>1. Manages BY <1>1, OffersForManagers DEF DeleteListed, SInv
  <2> QED BY <1>1, <2>1, CallSInv DEF DeleteListed
<1>2. CASE DeleteShown(c)
  <2>1. Manages BY <1>2, OffersForManagers DEF DeleteShown, SInv
  <2>2. "detail" \in stack BY <1>2, TopMounted DEF DeleteShown, SInv
  <2> QED BY <1>2, <2>1, <2>2, CallSInv DEF DeleteShown
<1>3. CASE RemoveFromRoster(c)
  <2>1. Manages BY <1>3, OffersForManagers DEF RemoveFromRoster, SInv
  <2>2. kind = "divisions" BY <1>3, RosterOfDivisions DEF RemoveFromRoster, SInv
  <2> QED BY <1>3, <2>1, <2>2, CallSInv DEF RemoveFromRoster
<1> QED BY <1>1, <1>2, <1>3

\* The server: the new state of things and the answer that reports it.
LEMMA ServeCases ==
  ASSUME SInv, NEW c \in Calls, Serve(c)
  PROVE  \E result \in {"ok", "error", "refused"} :
           /\ Answered(c, result)
           /\ lapses' \in 0 .. MaxLapses
           /\ \/ UNCHANGED srv /\ result # "ok" /\ (result = "refused" => claim # "manager")
              \/ /\ result # "refused" /\ ~UpdateMember(calls[c].op)
                 /\ srv.v + 1 <= MaxWrites
                 /\ srv' = [v |-> srv.v + 1,
                      row |-> IF calls[c].op \in {"update", "roster"} THEN srv.v + 1 ELSE srv.row,
                      gone |-> IF calls[c].op = "delete" THEN srv.v + 1 ELSE srv.gone]
<1>1. lapses \in 0 .. MaxLapses BY DEF SInv, TypeOK
<1>2. Lapse => lapses' \in 0 .. MaxLapses BY <1>1, Numbers DEF Lapse
<1> QED BY <1>1, <1>2 DEF Serve

LEMMA ServeSInv ==
  ASSUME SInv, NEW c \in Calls, Serve(c)
  PROVE  SInv'
<1>1. PICK result \in {"ok", "error", "refused"} :
        /\ Answered(c, result)
        /\ lapses' \in 0 .. MaxLapses
        /\ \/ UNCHANGED srv /\ result # "ok" /\ (result = "refused" => claim # "manager")
           \/ /\ result # "refused" /\ ~UpdateMember(calls[c].op)
              /\ srv.v + 1 <= MaxWrites
              /\ srv' = [v |-> srv.v + 1,
                   row |-> IF calls[c].op \in {"update", "roster"} THEN srv.v + 1 ELSE srv.row,
                   gone |-> IF calls[c].op = "delete" THEN srv.v + 1 ELSE srv.gone]
  BY ServeCases
<1>2. UNCHANGED <<kind, role, claim, session, stack, cache, known>> BY DEF Serve, roles
<1>3. /\ calls \in [Calls -> Mutations] /\ calls[c] \in Mutations /\ calls[c].stage = "sent"
      /\ srv.v \in 0 .. MaxWrites /\ srv.row \in 0 .. MaxWrites /\ srv.gone \in 0 .. MaxWrites
      /\ srv \in [v : 0 .. MaxWrites, row : 0 .. MaxWrites, gone : 0 .. MaxWrites]
      /\ srv.row <= srv.v
  BY DEF SInv, TypeOK, WriteInv, Serve
<1>4. /\ srv' \in [v : 0 .. MaxWrites, row : 0 .. MaxWrites, gone : 0 .. MaxWrites]
      /\ srv'.v \in 0 .. MaxWrites /\ srv'.row \in 0 .. MaxWrites
      /\ srv'.row <= srv'.v /\ srv'.v >= srv.v /\ srv'.row >= srv.row
      /\ result = "ok" /\ calls[c].op \in {"update", "roster"} => srv'.row = srv'.v
  BY <1>1, <1>3, Numbers
<1>5. /\ calls'[c].op = calls[c].op /\ calls'[c].from = calls[c].from /\ calls'[c].stage = "served"
      /\ calls'[c].result = result /\ calls'[c].at = srv'.v
      /\ \A d \in Calls \ {c} : calls'[d] = calls[d]
  BY <1>1, <1>3 DEF Answered, Mutations
<1>6. TypeOK'
  <2>1. [calls[c] EXCEPT !.stage = "served", !.result = result, !.at = srv'.v] \in Mutations
    BY <1>3, <1>4 DEF Mutations
  <2>2. calls' = [calls EXCEPT ![c] =
                   [calls[c] EXCEPT !.stage = "served", !.result = result, !.at = srv'.v]]
    BY <1>1, <1>3 DEF Answered
  <2>3. calls' \in [Calls -> Mutations] BY <1>3, <2>1, <2>2
  <2>4. \A d \in Calls : calls'[d].from \in stack' \cup {"none"} BY <1>2, <1>5 DEF SInv, TypeOK
  <2> QED BY <1>1, <1>2, <1>4, <2>3, <2>4 DEF SInv, TypeOK
<1>7. RoleInv'
  <2>1. result = "refused" => claim # "manager" BY <1>1
  <2>2. calls[c].stage \notin {"free"} BY <1>3
  <2> QED BY <1>2, <1>5, <2>1, <2>2 DEF SInv, RoleInv, Manages
<1>8. WriteInv'
  <2>1. \A k \in Keys : known[k] <= Newest(k) /\ known[k] \in 0 .. MaxWrites
    BY DEF SInv, WriteInv, TypeOK
  <2>2. \A k \in Keys : known'[k] <= Newest(k)' BY <1>2, <1>3, <1>4, <2>1 DEF Newest
  <2>3. ASSUME NEW d \in Calls
        PROVE  /\ calls'[d].from \notin {"list"}
               /\ calls'[d].op = "roster" => kind' = "divisions"
               /\ calls'[d].result = "ok" =>
                    /\ ~(kind' = "members" /\ calls'[d].op = "update")
                    /\ calls'[d].at <= srv'.v
                    /\ calls'[d].op \in {"update", "roster"} => calls'[d].at <= srv'.row
    <3>1. CASE d = c
      <4>1. result = "ok" => ~UpdateMember(calls[c].op) BY <1>1
      <4> QED BY <1>2, <1>4, <1>5, <3>1, <4>1 DEF SInv, WriteInv, UpdateMember
    <3>2. CASE d # c
      <4>1. calls'[d] = calls[d] /\ calls[d].at \in 0 .. MaxWrites
        BY <1>3, <1>5, <3>2 DEF Mutations
      <4> QED BY <1>2, <1>3, <1>4, <4>1 DEF SInv, WriteInv, UpdateMember
    <3> QED BY <3>1, <3>2
  <2> QED BY <1>4, <2>2, <2>3 DEF WriteInv, UpdateMember
<1>9. ShownInv' BY <1>2 DEF SInv, ShownInv
<1> QED BY <1>6, <1>7, <1>8, <1>9 DEF SInv

\* What an answer does to one query.
LEMMA AnswerShown ==
  ASSUME SInv, NEW c \in Calls, CallArrives(c), calls[c].result = "ok", NEW k \in Keys
  PROVE  /\ cache'[k] \in Entries
         /\ known'[k] \in 0 .. MaxWrites /\ known'[k] <= Newest(k)
         /\ ~cache'[k].stale /\ cache'[k].data # Nothing => cache'[k].data >= known'[k]
         /\ cache'[k].stage = "served" /\ cache'[k].got >= 0 => cache'[k].got >= known'[k]
         /\ kind = "events" /\ k = "detail" /\ cache'[k].data # Nothing
              => cache'[k].data >= known'[k]
<1> DEFINE op == calls[c].op
           at == calls[c].at
           stored == Stored(op, at)
<1>1. /\ calls[c] \in Mutations /\ at \in 0 .. MaxWrites
      /\ cache \in [Keys -> Entries] /\ cache[k] \in Entries /\ known[k] \in 0 .. MaxWrites
  BY DEF SInv, TypeOK, Mutations
<1>2. /\ known[k] <= Newest(k)
      /\ ~UpdateMember(op) /\ at <= srv.v
      /\ op \in {"update", "roster"} => at <= srv.row
      /\ op = "roster" => kind = "divisions"
  BY DEF SInv, WriteInv
<1>3. cache' = Invalidated(stored, op)
      /\ known' = [q \in Keys |-> IF q \in Displays(op) THEN Due(stored, q, op, at) ELSE known[q]]
  BY DEF CallArrives
<1>4. /\ stored[k] \in Entries
      /\ stored[k].stale = cache[k].stale /\ stored[k].stage = cache[k].stage
      /\ stored[k].got = cache[k].got
      /\ ~(UpdateEventStores(op) /\ k = "detail") => stored[k] = cache[k]
      /\ UpdateEventStores(op) /\ k = "detail" => stored[k].data = at
  <2>1. CASE UpdateEventStores(op)
    <3>1. stored = [cache EXCEPT !["detail"].data = at, !["detail"].failed = FALSE]
      BY <2>1 DEF Stored
    <3>2. CASE k # "detail" BY <1>1, <2>1, <3>1, <3>2
    <3>3. CASE k = "detail"
      <4>1. \A old \in Entries :
              LET new == [old EXCEPT !.data = at, !.failed = FALSE]
              IN  /\ new \in Entries /\ new.data = at /\ new.stale = old.stale
                  /\ new.stage = old.stage /\ new.got = old.got
        BY <1>1, Numbers DEF Entries
      <4>2. stored[k] = [cache[k] EXCEPT !.data = at, !.failed = FALSE]
        BY <1>1, <3>1, <3>3
      <4> QED BY <1>1, <2>1, <3>3, <4>1, <4>2
    <3> QED BY <3>2, <3>3
  <2>2. CASE ~UpdateEventStores(op)
    <3>1. stored = cache BY <2>2 DEF Stored
    <3> QED BY <1>1, <2>2, <3>1
  <2> QED BY <2>1, <2>2
<1> DEFINE e == stored[k]
           marked == [e EXCEPT !.stale = TRUE]
<1>5. /\ k \notin Touched(op) => cache'[k] = e
      /\ k \in Touched(op) => cache'[k] = IF Mounted(k) THEN Refetched(marked) ELSE marked
  BY <1>3 DEF Invalidated
<1> HIDE DEF stored
<1>6. /\ marked \in Entries /\ marked.stale = TRUE
      /\ marked.data = e.data /\ marked.stage = e.stage /\ marked.got = e.got
  BY <1>4 DEF Entries
<1>7. /\ Refetched(marked) \in Entries /\ Refetched(marked).stale = TRUE
      /\ Refetched(marked).data = e.data /\ Refetched(marked).got = e.got
      /\ Refetched(marked).stage = IF e.stage = "idle" \/ e.data # Nothing THEN "sent" ELSE e.stage
  BY <1>6 DEF Refetched, Asked, Entries
<1> HIDE DEF marked
<1>8. /\ cache'[k] \in Entries /\ cache'[k].data = e.data /\ cache'[k].got = e.got
      /\ k \in Touched(op) => cache'[k].stale = TRUE
      /\ k \notin Touched(op) => cache'[k] = e
      /\ cache'[k].stage = "served" => e.stage = "served"
      /\ cache'[k].stage = "served" /\ k \in Touched(op) => Overtaken(stored, k)
  BY <1>4, <1>5, <1>6, <1>7 DEF Overtaken
<1>9. k \in Displays(op) => k \in Touched(op)
  <2>1. kind \in {"events", "divisions", "finance", "members"} BY Tabs DEF SInv
  <2>2. op \in {"create", "update", "delete", "roster"} BY <1>1 DEF Mutations
  <2> QED BY <1>2, <2>1, <2>2
    DEF Displays, When, Touched, EventsTouch, DivisionsTouch, FinanceTouch, MembersTouch,
        UpdateMember, Keys
<1>10. k \in Displays(op) => at <= Newest(k)
  <2>1. k = "detail" /\ k \in Displays(op) => op \in {"update", "roster"} BY DEF Displays, When
  <2> QED BY <1>2, <2>1 DEF Newest
<1> DEFINE stores == UpdateEventStores(op) /\ k = "detail"
<1>11. CASE k \notin Displays(op)
  <2>1. known'[k] = known[k] BY <1>3, <1>11
  <2>2. ~stores
    BY <1>11 DEF UpdateEventStores, Displays, When
  <2>3. e = cache[k] BY <1>4, <2>2
  <2> QED BY <1>1, <1>2, <1>8, <2>1, <2>3 DEF SInv, ShownInv
<1>12. CASE k \in Displays(op)
  <2>1. known'[k] = Due(stored, k, op, at) BY <1>3, <1>12
  <2>2. k \in Touched(op) /\ cache'[k].stale = TRUE BY <1>8, <1>9, <1>12
  <2>3. Due(stored, k, op, at) \in {known[k], at} BY DEF Due
  <2>4. known'[k] \in 0 .. MaxWrites /\ known'[k] <= Newest(k)
    BY <1>1, <1>2, <1>10, <1>12, <2>1, <2>3
  <2>5. cache'[k].stage = "served" /\ cache'[k].got >= 0 => cache'[k].got >= known'[k]
    <3>1. SUFFICES ASSUME cache'[k].stage = "served", cache'[k].got >= 0
                   PROVE  cache'[k].got >= known'[k]
      OBVIOUS
    <3>2. Overtaken(stored, k) /\ e.stage = "served" /\ cache'[k].got = cache[k].got
      BY <1>4, <1>8, <2>2, <3>1
    <3>3. cache[k].got >= known[k] /\ cache[k].got \in Broken .. MaxWrites
      BY <1>1, <1>4, <3>1, <3>2 DEF SInv, ShownInv, Entries
    <3>4. known'[k] <= known[k]
      BY <1>1, <2>1, <3>2 DEF Due
    <3> QED BY <1>1, <2>4, <3>2, <3>3, <3>4, Numbers DEF Broken
  <2>6. kind = "events" /\ k = "detail" /\ cache'[k].data # Nothing
          => cache'[k].data >= known'[k]
    <3>1. CASE stores
      <4>1. cache'[k].data = at BY <1>4, <1>8, <3>1
      <4>2. at >= known'[k] BY <1>1, <2>1, <3>1 DEF Due, Overtaken
      <4> QED BY <4>1, <4>2
    <3>2. CASE ~stores
      <4>1. e = cache[k] BY <1>4, <3>2
      <4>2. kind = "events" => ~(k = "detail")
        BY <1>12, <1>2, <3>2 DEF UpdateEventStores, Displays, When
      <4> QED BY <4>2
    <3> QED BY <3>1, <3>2
  <2> QED BY <1>8, <2>2, <2>4, <2>5, <2>6
<1> QED BY <1>11, <1>12

LEMMA CallArrivesSInv ==
  ASSUME SInv, NEW c \in Calls, CallArrives(c)
  PROVE  SInv'
<1>1. UNCHANGED <<kind, srv, role, claim, session, lapses>> BY DEF CallArrives, roles
<1>2. calls \in [Calls -> Mutations] /\ calls[c].from \notin {"list"}
  BY DEF SInv, TypeOK, WriteInv
<1> DEFINE others == IF calls[c].result = "ok" THEN Orphaned(calls[c].from) ELSE calls
<1>3. others \in [Calls -> Mutations] BY <1>2, OrphanedCalls DEF SInv
<1>4. \A d \in Calls : /\ others[d].op = calls[d].op /\ others[d].stage = calls[d].stage
                       /\ others[d].result = calls[d].result /\ others[d].at = calls[d].at
                       /\ \/ others[d].from = "none"
                          \/ /\ others[d].from = calls[d].from
                             /\ calls[c].result = "ok" => calls[d].from # calls[c].from
  BY <1>2, OrphanedCalls DEF SInv
<1>5. calls' = [others EXCEPT ![c] = Free] BY DEF CallArrives
<1> HIDE DEF others
<1>6. calls'[c] = Free /\ \A d \in Calls \ {c} : calls'[d] = others[d] BY <1>3, <1>5
<1>7. calls' \in [Calls -> Mutations] BY <1>3, <1>5, FreeType
<1>8. stack' = IF calls[c].result = "ok" THEN stack \ {calls[c].from} ELSE stack
  BY DEF CallArrives
<1>9. \A k \in Keys :
        /\ cache'[k] \in Entries
        /\ known'[k] \in 0 .. MaxWrites /\ known'[k] <= Newest(k)
        /\ ~cache'[k].stale /\ cache'[k].data # Nothing => cache'[k].data >= known'[k]
        /\ cache'[k].stage = "served" /\ cache'[k].got >= 0 => cache'[k].got >= known'[k]
        /\ kind = "events" /\ k = "detail" /\ cache'[k].data # Nothing
             => cache'[k].data >= known'[k]
  <2>1. CASE calls[c].result = "ok" BY <2>1, AnswerShown
  <2>2. CASE calls[c].result # "ok"
    <3>1. UNCHANGED <<cache, known>> BY <2>2 DEF CallArrives
    <3>2. \A k \in Keys : cache[k] \in Entries /\ known[k] \in 0 .. MaxWrites BY DEF SInv, TypeOK
    <3> QED BY <3>1, <3>2 DEF SInv, WriteInv, ShownInv
  <2> QED BY <2>1, <2>2
<1>10. TypeOK'
  <2>1. "list" \in stack' /\ stack' \subseteq Screens /\ ~({"create", "edit"} \subseteq stack')
    BY <1>2, <1>8 DEF SInv, TypeOK
  <2>2. \A d \in Calls : calls'[d].from \in stack' \cup {"none"}
    <3>1. Free.from = "none" BY DEF Free
    <3>2. ASSUME NEW d \in Calls \ {c} PROVE calls'[d].from \in stack' \cup {"none"}
      BY <1>4, <1>6, <1>8 DEF SInv, TypeOK
    <3> QED BY <1>6, <3>1, <3>2
  <2>3. cache' \in [Keys -> Entries] /\ known' \in [Keys -> 0 .. MaxWrites]
    <3>1. cache' = [k \in Keys |-> cache'[k]] /\ known' = [k \in Keys |-> known'[k]]
      <4>1. \A stored : Invalidated(stored, calls[c].op)
                          = [k \in Keys |-> Invalidated(stored, calls[c].op)[k]]
        BY DEF Invalidated
      <4> QED BY <4>1 DEF CallArrives, SInv, TypeOK
    <3> QED BY <1>9, <3>1
  <2> QED BY <1>1, <1>7, <2>1, <2>2, <2>3 DEF SInv, TypeOK
<1>11. RoleInv'
  <2>1. stack' \cap {"create", "edit"} # {} => Manages'
    BY <1>1, <1>8 DEF SInv, RoleInv, Manages
  <2>2. Free.stage = "free" /\ Free.result = "none" BY DEF Free
  <2> QED BY <1>1, <1>4, <1>6, <2>1, <2>2 DEF SInv, RoleInv, Manages
<1>12. WriteInv'
  <2>1. Free.op = "create" /\ Free.from = "none" /\ Free.result = "none" BY DEF Free
  <2>2. \A k \in Keys : known'[k] <= Newest(k)' BY <1>1, <1>9 DEF Newest
  <2>3. \A d \in Calls : calls'[d].from \notin {"list"}
    BY <1>4, <1>6, <2>1 DEF SInv, WriteInv
  <2> QED BY <1>1, <1>4, <1>6, <2>1, <2>2, <2>3 DEF SInv, WriteInv, UpdateMember
<1>13. ShownInv' BY <1>1, <1>9 DEF ShownInv
<1> QED BY <1>10, <1>11, <1>12, <1>13 DEF SInv

-----------------------------------------------------------------------------
(* Other users, the roles and the start of the app.                         *)

LEMMA OtherWritesSInv ==
  ASSUME SInv, OtherWrites
  PROVE  SInv'
<1>1. UNCHANGED <<kind, role, claim, session, stack, cache, known, calls, lapses>>
  BY DEF OtherWrites, roles
<1>2. srv.v \in 0 .. MaxWrites /\ srv.row \in 0 .. MaxWrites /\ srv.gone \in 0 .. MaxWrites
      /\ srv.row <= srv.v
  BY DEF SInv, TypeOK, WriteInv
<1>3. PICK row \in BOOLEAN, gone \in BOOLEAN :
        srv' = [v |-> srv.v + 1, row |-> IF row THEN srv.v + 1 ELSE srv.row,
                gone |-> IF gone THEN srv.v + 1 ELSE srv.gone]
  BY DEF OtherWrites
<1>4. srv.v < MaxWrites BY DEF OtherWrites
<1>5. /\ srv' \in [v : 0 .. MaxWrites, row : 0 .. MaxWrites, gone : 0 .. MaxWrites]
      /\ srv'.v \in 0 .. MaxWrites /\ srv'.row \in 0 .. MaxWrites
      /\ srv'.row <= srv'.v /\ srv'.v >= srv.v /\ srv'.row >= srv.row
  BY <1>2, <1>3, <1>4, Numbers
<1>6. TypeOK' BY <1>1, <1>5 DEF SInv, TypeOK
<1>7. RoleInv' BY <1>1 DEF SInv, RoleInv, Manages
<1>8. WriteInv'
  <2>1. \A k \in Keys : known[k] <= Newest(k) /\ known[k] \in 0 .. MaxWrites
    BY DEF SInv, WriteInv, TypeOK
  <2>2. \A k \in Keys : known'[k] <= Newest(k)' BY <1>1, <1>2, <1>5, <2>1 DEF Newest
  <2>3. ASSUME NEW d \in Calls, calls[d].result = "ok"
        PROVE  /\ calls[d].at <= srv'.v
               /\ calls[d].op \in {"update", "roster"} => calls[d].at <= srv'.row
    <3>1. calls[d].at \in 0 .. MaxWrites BY DEF SInv, TypeOK, Mutations
    <3> QED BY <1>2, <1>5, <2>3, <3>1 DEF SInv, WriteInv
  <2> QED BY <1>1, <1>5, <2>2, <2>3 DEF SInv, WriteInv, UpdateMember
<1>9. ShownInv' BY <1>1 DEF SInv, ShownInv
<1> QED BY <1>6, <1>7, <1>8, <1>9 DEF SInv

LEMMA RoleChangesSInv ==
  ASSUME SInv, RoleChanges
  PROVE  SInv'
<1>1. UNCHANGED <<kind, srv, claim, session, stack, cache, known, calls, lapses>>
  BY DEF RoleChanges
<1>2. role' \in {"manager", "member"} BY DEF RoleChanges
<1>3. TypeOK' BY <1>1, <1>2 DEF SInv, TypeOK
<1> QED BY <1>1, <1>3
  DEF SInv, RoleInv, Manages, WriteInv, Newest, UpdateMember, ShownInv

\* A start leaves nothing behind but what the server has and who the user is.
LEMMA RestartSInv ==
  ASSUME SInv, NEW signsIn \in BOOLEAN, Restart(signsIn)
  PROVE  SInv'
<1>1. UNCHANGED <<kind, srv, role, lapses>> BY DEF Restart
<1>2. \A k \in Keys : Anew(k) = Empty \/ Anew(k) = Asked(Empty) BY DEF Anew
<1>3. cache' = [k \in Keys |-> Anew(k)] /\ known' = [k \in Keys |-> 0]
      /\ calls' = [c \in Calls |-> Free] /\ stack' = {"list"}
  BY DEF Restart
<1>4. Free.op = "create" /\ Free.from = "none" /\ Free.result = "none" /\ Free.stage = "free"
  BY DEF Free
<1>5. TypeOK'
  <2>1. cache' \in [Keys -> Entries] BY <1>2, <1>3, EntryTypes
  <2>2. calls' \in [Calls -> Mutations] /\ known' \in [Keys -> 0 .. MaxWrites]
    BY <1>3, FreeType, Numbers
  <2>3. \A c \in Calls : calls'[c].from \in stack' \cup {"none"} BY <1>3, <1>4
  <2>4. {role', claim', session'} \subseteq {"manager", "member"}
    BY DEF Restart, SInv, TypeOK
  <2>5. "list" \in stack' /\ stack' \subseteq Screens /\ ~({"create", "edit"} \subseteq stack')
    BY <1>3 DEF Screens
  <2> QED BY <1>1, <2>1, <2>2, <2>3, <2>4, <2>5 DEF SInv, TypeOK
<1>6. RoleInv'
  <2>1. stack' \cap {"create", "edit"} = {} BY <1>3
  <2>2. \A c \in Calls : calls'[c].stage = "free" /\ calls'[c].result = "none" BY <1>3, <1>4
  <2> QED BY <2>1, <2>2 DEF RoleInv
<1>7. WriteInv'
  <2>1. srv.row \in 0 .. MaxWrites /\ srv.v \in 0 .. MaxWrites BY DEF SInv, TypeOK
  <2>2. \A k \in Keys : known'[k] <= Newest(k)' BY <1>1, <1>3, <2>1 DEF Newest
  <2>3. \A c \in Calls : /\ calls'[c].op = "create" /\ calls'[c].from = "none"
                         /\ calls'[c].result = "none"
    BY <1>3, <1>4
  <2> QED BY <1>1, <2>2, <2>3 DEF SInv, WriteInv
<1>8. ShownInv'
  <2>1. \A k \in Keys : cache'[k].data = Nothing /\ cache'[k].stage # "served"
    BY <1>2, <1>3 DEF Empty, Asked
  <2> QED BY <2>1 DEF ShownInv
<1> QED BY <1>5, <1>6, <1>7, <1>8 DEF SInv

-----------------------------------------------------------------------------
LEMMA NextSInv == SInv /\ [Next]_vars => SInv'
<1> SUFFICES ASSUME SInv, [Next]_vars PROVE SInv' OBVIOUS
<1>1. CASE \E k \in Keys : FetchServed(k) \/ FetchArrives(k) \/ Refetch(k)
  BY <1>1, FetchServedSInv, FetchArrivesSInv, RefetchSInv
<1>2. CASE \E screen \in Screens : Open(screen) BY <1>2, OpenSInv
<1>3. CASE Back BY <1>3, BackSInv
<1>4. CASE \E c \in Calls : \/ Submit(c) \/ DeleteListed(c) \/ DeleteShown(c) \/ RemoveFromRoster(c)
                            \/ Serve(c) \/ CallArrives(c)
  BY <1>4, SubmitSInv, OfferedSInv, ServeSInv, CallArrivesSInv
<1>5. CASE OtherWrites BY <1>5, OtherWritesSInv
<1>6. CASE RoleChanges BY <1>6, RoleChangesSInv
<1>7. CASE \E signsIn \in BOOLEAN : Restart(signsIn) BY <1>7, RestartSInv
<1>8. CASE UNCHANGED vars
  BY <1>8 DEF vars, roles, SInv, TypeOK, RoleInv, Manages, WriteInv, Newest, UpdateMember, ShownInv
<1> QED BY <1>1, <1>2, <1>3, <1>4, <1>5, <1>6, <1>7, <1>8 DEF Next

\* The inductive invariant.
THEOREM ScreensInvariant == Spec => []SInv
BY InitSInv, NextSInv, PTL DEF Spec

\* The state of the tabs stays within its types.
THEOREM ScreensTypeCorrect == Spec => []TypeOK
<1>1. SInv => TypeOK BY DEF SInv
<1> QED BY <1>1, ScreensInvariant, PTL

\* A query at rest on a mounted screen shows the user's own writes whose
\* answers have come in, whatever answers overtake each other.
THEOREM OwnWritesStayShown == Spec => []OwnWritesShown
<1>1. SInv => OwnWritesShown BY DEF SInv, ShownInv, OwnWritesShown, AtRest
<1> QED BY <1>1, ScreensInvariant, PTL

\* No edit form starts from before the user's own last edit: events at once,
\* divisions once their detail is back.
THEOREM EditsBuildOnOwn == Spec => []EditStartsFromOwn
<1>1. SInv => EditStartsFromOwn
  <2>1. "detail" \in Keys BY DEF Keys
  <2> QED BY <2>1 DEF SInv, ShownInv, EditStartsFromOwn, AtRest, form
<1> QED BY <1>1, ScreensInvariant, PTL

\* The backend refuses only what was sent by one whose role has changed since
\* the tokens were issued.
THEOREM RefusalsAreOfPromotions == Spec => []RefusedOnlyIfPromoted
<1>1. SInv => RefusedOnlyIfPromoted
  BY DEF SInv, RoleInv, Manages, RefusedOnlyIfPromoted
<1> QED BY <1>1, ScreensInvariant, PTL
=============================================================================
