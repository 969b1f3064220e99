------------------------- MODULE MobileSessionProofs -------------------------
(***************************************************************************)
(* Safety of the two parts of a session on the phone: the HTTP client of   *)
(* RefreshInterceptor, for any calls, any number of token pairs and any    *)
(* number of restarts (CInv is its inductive invariant), and the stores of *)
(* MobileAccount, for any number of accounts, queries, starts, sign-ins    *)
(* and edits (AInv).  What ties them is the order of the interceptors: it  *)
(* decides whether a failed refresh reaches the account.                   *)
(***************************************************************************)
EXTENDS RefreshInterceptor, MobileAccount, FiniteSetTheorems, TLAPS

\* A pair that is stored or on its way has been issued.
IssuedInv ==
  /\ stored # None => stored <= minted
  /\ post.answer # None => post.answer <= minted

\* SingleFlight without cardinalities.
FlightInv ==
  /\ isRefreshing <=> post # NoPost
  /\ isRefreshing <=> \E c \in Calls : call[c].pc = "refreshing"
  /\ \A c, d \in Calls : call[c].pc = "refreshing" /\ call[d].pc = "refreshing" => c = d
  /\ \A c \in Calls : call[c].pc = "queued" => isRefreshing

\* The pair that will be posted next has not been posted yet.
UnspentInv ==
  /\ ~isRefreshing => stored \notin posted
  /\ post.answer \notin posted

\* While the session has not been ended behind the back of a call, a refresh
\* and the check at start find the tokens where they left them.
SessionInv ==
  "ended" \notin trouble =>
    /\ Pending(Me) \/ isRefreshing => stored # None
    /\ ~Pending(Me) => (signedIn <=> stored # None)

\* Nothing is issued while a refresh is on the wire but its answer.
NewestInv ==
  trouble = {} =>
    /\ ~isRefreshing /\ stored # None => stored = minted
    /\ isRefreshing /\ post.answer = None => stored = minted
    /\ isRefreshing /\ post.answer # None => post.answer = minted

CInv ==
  /\ TypeOK
  /\ IssuedInv
  /\ FlightInv
  /\ UnspentInv
  /\ SessionInv
  /\ NewestInv

-----------------------------------------------------------------------------
LEMMA InitCInv == Init => CInv
<1> SUFFICES ASSUME Init PROVE CInv OBVIOUS
<1>1. TypeOK
  <2>1. NoCall \in CallStates BY DEF NoCall, CallStates
  <2>2. call \in [Calls -> CallStates] BY <2>1 DEF Init
  <2>3. minted \in 0 .. MaxPairs /\ restarts \in 0 .. MaxRestarts
    BY BoundsAssumption DEF Init
  <2> QED BY <2>2, <2>3 DEF Init, TypeOK
<1>2. IssuedInv /\ UnspentInv /\ NewestInv
  BY DEF Init, IssuedInv, UnspentInv, NewestInv, NoPost
<1>3. FlightInv /\ SessionInv
  BY CallsAssumption
  DEF Init, FlightInv, SessionInv, NoCall, Pending,
      InFlight, Calls
<1> QED BY <1>1, <1>2, <1>3 DEF CInv

\* Me is a call, a pair is a number and None is not.
LEMMA Basics ==
  /\ Me \in Calls /\ Logout \in Calls
  /\ None \notin Pairs
  /\ \A p \in Pairs : p \in Nat /\ p # None /\ p >= 1 /\ p <= MaxPairs
  /\ MaxPairs \in Nat
BY BoundsAssumption, NoneAssumption DEF Calls, Pairs

\* The server accepts and the app has posted only pairs.
LEMMA PairsOnly ==
  ASSUME TypeOK
  PROVE  /\ None \notin posted /\ None \notin live
         /\ minted \in Nat
         /\ minted < MaxPairs => minted + 1 \in Pairs
<1>1. minted \in 0 .. MaxPairs /\ posted \subseteq 1 .. minted /\ live \subseteq 1 .. minted
  BY DEF TypeOK
<1>2. minted \in Nat /\ None \notin 1 .. minted
  BY <1>1, BoundsAssumption, NoneAssumption
<1>3. None \notin posted /\ None \notin live
  BY <1>1, <1>2, Zenon
<1>4. minted < MaxPairs => minted + 1 \in Pairs
  BY <1>1, BoundsAssumption DEF Pairs
<1> QED BY <1>2, <1>3, <1>4

\* A login: nothing is refreshed then, or the session was ended before.
LEMMA LoginStep ==
  ASSUME CInv, Login
  PROVE  CInv'
<1> USE Basics DEF Login, server
<1>a. minted' \in Pairs BY PairsOnly DEF CInv
<1>1. TypeOK'
  BY DEF CInv, TypeOK, Pairs
<1>2. IssuedInv'
  BY DEF CInv, TypeOK, IssuedInv, Posts, NoPost
<1>3. FlightInv'
  BY DEF CInv, FlightInv
<1>4. UnspentInv'
  BY DEF CInv, TypeOK, UnspentInv
<1>6. SessionInv'
  BY <1>a DEF CInv, SessionInv
<1>7. NewestInv'
  BY DEF CInv, NewestInv, SessionInv
<1> QED BY <1>1, <1>2, <1>3, <1>4, <1>6, <1>7 DEF CInv

\* A call is sent with the token that is stored.
LEMMA SendStep ==
  ASSUME CInv, NEW c \in Calls, Send(c)
  PROVE  CInv'
<1> USE Basics DEF Send, NewCall, Pending, InFlight, server
<1>1. TypeOK'
  BY DEF CInv, TypeOK, CallStates
<1>2. IssuedInv'
  BY DEF CInv, IssuedInv
<1>3. FlightInv'
  BY DEF CInv, FlightInv
<1>4. UnspentInv'
  BY DEF CInv, UnspentInv
<1>6. SessionInv'
  BY DEF CInv, SessionInv
<1>7. NewestInv'
  BY DEF CInv, NewestInv
<1> QED BY <1>1, <1>2, <1>3, <1>4, <1>6, <1>7 DEF CInv

\* A call that comes back ends at most the session.
LEMMA SettleStep ==
  ASSUME CInv, NEW c \in Calls, NEW outcome, Settle(c, outcome),
         call[c].pc = "sent",
         UNCHANGED <<isRefreshing, post, minted, valid, restarts, posted>>,
         live' \subseteq live
  PROVE  CInv'
<1> USE Basics DEF Settle, Over, EndsSession, server
<1>1. TypeOK'
  BY DEF CInv, TypeOK, CallStates, NoCall
<1>2. IssuedInv'
  BY DEF CInv, IssuedInv
<1>3. FlightInv'
  BY DEF CInv, FlightInv, NoCall
<1>4. UnspentInv'
  BY DEF CInv, FlightInv, UnspentInv, NoPost
<1>6. SessionInv'
  BY DEF CInv, TypeOK, SessionInv, Pending, InFlight, NoCall
<1>7. NewestInv'
  BY DEF CInv, NewestInv
<1> QED BY <1>1, <1>2, <1>3, <1>4, <1>6, <1>7 DEF CInv

\* A call joins the queue of the refresh on the wire.
LEMMA EnqueueStep ==
  ASSUME CInv, NEW c \in Calls, Enqueue(c)
  PROVE  CInv'
<1> USE Basics DEF Enqueue, Intercepted, Denied, server
<1>1. TypeOK'
  BY DEF CInv, TypeOK, CallStates, InFlight
<1>2. IssuedInv'
  BY DEF CInv, IssuedInv
<1>3. FlightInv'
  BY DEF CInv, FlightInv
<1>4. UnspentInv'
  BY DEF CInv, UnspentInv
<1>6. SessionInv'
  BY DEF CInv, SessionInv, Pending, InFlight
<1>7. NewestInv'
  BY DEF CInv, NewestInv
<1> QED BY <1>1, <1>2, <1>3, <1>4, <1>6, <1>7 DEF CInv

\* A call that finds no refresh running starts one.
LEMMA StartRefreshStep ==
  ASSUME CInv, NEW c \in Calls, StartRefresh(c)
  PROVE  CInv'
<1> USE Basics DEF StartRefresh, Intercepted, Denied, server
<1>1. TypeOK'
  BY DEF CInv, TypeOK, CallStates
<1>2. IssuedInv'
  BY DEF CInv, IssuedInv
<1>3. FlightInv'
  BY DEF CInv, TypeOK, FlightInv, NoPost
<1>4. UnspentInv'
  BY DEF CInv, FlightInv, UnspentInv, NoPost
<1>6. SessionInv'
  BY DEF CInv, TypeOK, SessionInv, Pending, InFlight
<1>7. NewestInv'
  BY DEF CInv, NewestInv
<1> QED BY <1>1, <1>2, <1>3, <1>4, <1>6, <1>7 DEF CInv

\* A call that finds no token signs the user out.
LEMMA NothingToRefreshStep ==
  ASSUME CInv, NEW c \in Calls, NothingToRefresh(c)
  PROVE  CInv'
<1> USE Basics DEF NothingToRefresh, Intercepted, Denied, server
<1>1. TypeOK'
  BY DEF CInv, TypeOK, CallStates, NoCall
<1>2. IssuedInv'
  BY DEF CInv, IssuedInv
<1>3. FlightInv'
  BY DEF CInv, FlightInv, NoCall
<1>4. UnspentInv'
  BY DEF CInv, UnspentInv
<1>6. SessionInv'
  BY DEF CInv, SessionInv, Pending, InFlight
<1>7. NewestInv'
  BY DEF CInv, NewestInv
<1> QED BY <1>1, <1>2, <1>3, <1>4, <1>6, <1>7 DEF CInv

\* The server answers the refresh with a pair it never issued before.
LEMMA ServerRefreshStep ==
  ASSUME CInv, ServerRefresh
  PROVE  CInv'
<1> USE Basics DEF ServerRefresh, server
<1>a. post.pair # None /\ post # NoPost /\ isRefreshing
  BY PairsOnly DEF CInv, FlightInv, NoPost
<1>b. /\ post \in Posts /\ minted' \in Pairs
      /\ post'.pair = post.pair /\ post'.answer = minted' /\ post' \in Posts
  BY <1>a, PairsOnly DEF CInv, TypeOK, Posts
<1>1. TypeOK'
  BY DEF CInv, TypeOK, Pairs, Posts, NoPost
<1>2. IssuedInv'
  BY DEF CInv, TypeOK, IssuedInv
<1>3. FlightInv'
  BY <1>a, <1>b DEF CInv, FlightInv, NoPost
<1>4. UnspentInv'
  BY DEF CInv, TypeOK, UnspentInv
<1>6. SessionInv'
  BY DEF CInv, SessionInv, Pending
<1>7. NewestInv'
  BY <1>a, <1>b DEF CInv, NewestInv
<1> QED BY <1>1, <1>2, <1>3, <1>4, <1>6, <1>7 DEF CInv

\* The answer arrives: everyone waiting is sent again.
LEMMA RefreshArrivesStep ==
  ASSUME CInv, RefreshArrives
  PROVE  CInv'
<1>1. /\ post.answer \in Pairs /\ stored' = post.answer
      /\ isRefreshing' = FALSE /\ post' = NoPost
      /\ UNCHANGED <<signedIn, minted, valid, live, restarts, posted, trouble>>
  BY DEF RefreshArrives, server
<1>2. post.answer # None
  BY <1>1, Basics, Zenon
<1>3. isRefreshing
  BY <1>2 DEF CInv, FlightInv, NoPost
<1>4. \A c \in Calls :
        /\ call'[c] \in CallStates
        /\ call'[c].retry = call[c].retry
        /\ IF call[c].pc \in {"queued", "refreshing"} THEN call'[c].pc = "sent"
           ELSE call'[c].pc = call[c].pc
  <2> SUFFICES ASSUME NEW c \in Calls
               PROVE  /\ call'[c] \in CallStates
                      /\ call'[c].retry = call[c].retry
                      /\ IF call[c].pc \in {"queued", "refreshing"} THEN call'[c].pc = "sent"
                         ELSE call'[c].pc = call[c].pc
    OBVIOUS
  <2>1. call[c] \in CallStates
    BY DEF CInv, TypeOK
  <2>2. c \in Waiting <=> call[c].pc \in {"queued", "refreshing"}
    BY DEF Waiting, Queued, Refreshing
  <2>3. call'[c] = IF c \in Waiting
                   THEN [call[c] EXCEPT !.pc = "sent", !.pair = post.answer] ELSE call[c]
    BY DEF RefreshArrives
  <2> QED BY <1>1, <2>1, <2>2, <2>3 DEF CallStates, InFlight
<1>5. TypeOK'
  <2>1. DOMAIN call' = Calls /\ call' = [c \in Calls |-> call'[c]]
    BY DEF RefreshArrives
  <2>2. call' \in [Calls -> CallStates]
    BY <1>4, <2>1
  <2> QED BY <1>1, <2>2 DEF CInv, TypeOK
<1>6. IssuedInv' /\ UnspentInv'
  BY <1>1, <1>2, PairsOnly DEF CInv, IssuedInv, UnspentInv, NoPost
<1>7. FlightInv'
  BY <1>1, <1>4 DEF CInv, FlightInv
<1>9. SessionInv'
  BY <1>1, <1>2, <1>3, <1>4, Basics DEF CInv, SessionInv, Pending, InFlight
<1>10. NewestInv'
  BY <1>1, <1>2, <1>3 DEF CInv, NewestInv
<1> QED BY <1>5, <1>6, <1>7, <1>9, <1>10 DEF CInv

\* The refresh fails: everyone waiting is rejected.
LEMMA RefreshFailsStep ==
  ASSUME CInv, RefreshFails
  PROVE  CInv'
<1> USE Basics DEF RefreshFails, Waiting, Queued, Refreshing, server
<1>1. TypeOK'
  BY DEF CInv, TypeOK, CallStates, NoCall
<1>2. IssuedInv'
  BY DEF CInv, IssuedInv, NoPost
<1>3. FlightInv'
  BY DEF CInv, FlightInv, NoCall
<1>4. UnspentInv'
  BY PairsOnly DEF CInv, UnspentInv, NoPost
<1>6. SessionInv'
  BY DEF CInv, SessionInv, Pending, InFlight, NoCall
<1>7. NewestInv'
  BY DEF CInv, NewestInv
<1> QED BY <1>1, <1>2, <1>3, <1>4, <1>6, <1>7 DEF CInv

\* Tokens expire and sessions end on the server alone.
LEMMA ServerEndsStep ==
  ASSUME CInv, NEW p \in Pairs, AccessExpires(p) \/ SessionEnds(p)
  PROVE  CInv'
<1> USE Basics DEF AccessExpires, SessionEnds, server
<1>1. TypeOK'
  BY DEF CInv, TypeOK
<1>2. IssuedInv'
  BY DEF CInv, IssuedInv
<1>3. FlightInv'
  BY DEF CInv, FlightInv
<1>4. UnspentInv'
  BY DEF CInv, UnspentInv
<1>6. SessionInv'
  BY DEF CInv, SessionInv, Pending
<1>7. NewestInv'
  BY DEF CInv, NewestInv
<1> QED BY <1>1, <1>2, <1>3, <1>4, <1>6, <1>7 DEF CInv

\* A restart forgets the queue and what was posted.
LEMMA RestartStep ==
  ASSUME CInv, Restart
  PROVE  CInv'
<1> USE Basics DEF Restart, NewCall, server
<1>a. call' \in [Calls -> CallStates]
  BY DEF CInv, TypeOK, CallStates, InFlight, NoCall
<1>1. TypeOK'
  <2>1. restarts' \in 0 .. MaxRestarts /\ posted' \subseteq 1 .. minted'
    BY BoundsAssumption DEF CInv, TypeOK
  <2>2. signedIn' \in BOOLEAN /\ trouble' \subseteq {"ended", "restarted"}
    BY DEF CInv, TypeOK
  <2> QED BY <1>a, <2>1, <2>2 DEF CInv, TypeOK
<1>2. IssuedInv'
  BY DEF CInv, IssuedInv, NoPost
<1>3. FlightInv'
  BY DEF CInv, FlightInv, NoCall
<1>4. UnspentInv'
  BY DEF CInv, UnspentInv
<1>6. SessionInv'
  BY DEF CInv, SessionInv, Pending, InFlight, NoCall
<1>7. NewestInv'
  BY DEF CInv, NewestInv
<1> QED BY <1>1, <1>2, <1>3, <1>4, <1>6, <1>7 DEF CInv

LEMMA StepCInv ==
  ASSUME CInv, [Next]_vars
  PROVE  CInv'
<1>1. CASE UNCHANGED vars
  BY <1>1
  DEF vars, CInv, TypeOK, IssuedInv, FlightInv, UnspentInv, SessionInv, NewestInv, Pending
<1>2. ASSUME NEW c \in Calls, Succeed(c) \/ Fail(c) \/ Reject(c) PROVE CInv'
  <2>1. CASE Succeed(c)
    <3>1. live' \subseteq live BY <2>1 DEF Succeed
    <3> QED BY <2>1, <3>1, SettleStep DEF Succeed
  <2>2. CASE Fail(c)
    <3>1. live' \subseteq live BY <2>2 DEF Fail
    <3> QED BY <2>2, <3>1, SettleStep DEF Fail
  <2>3. CASE Reject(c)
    BY <2>3, SettleStep DEF Reject, Denied, server
  <2> QED BY <1>2, <2>1, <2>2, <2>3
<1>3. ASSUME NEW c \in Calls, Send(c) \/ CallStep(c) PROVE CInv'
  BY <1>2, <1>3, SendStep, EnqueueStep, StartRefreshStep, NothingToRefreshStep DEF CallStep
<1>4. CASE Next
  BY <1>3, <1>4, LoginStep, ServerRefreshStep, RefreshArrivesStep, RefreshFailsStep,
     ServerEndsStep, RestartStep DEF Next, PostStep
<1> QED BY <1>1, <1>4

\* The reachable states satisfy CInv.
THEOREM ClientInvariant == Spec => []CInv
BY InitCInv, StepCInv, PTL DEF Spec

-----------------------------------------------------------------------------
(* The properties *)

\* Type correctness, for any calls, pairs and restarts.
THEOREM ClientTypeCorrect == Spec => []TypeOK
<1>1. CInv => TypeOK BY DEF CInv
<1> QED BY <1>1, ClientInvariant, PTL

\* The flag, the refresh on the wire, the refreshing call and the queue agree.
THEOREM RefreshIsSingleFlight == Spec => []SingleFlight
<1>1. ASSUME CInv PROVE SingleFlight
  <2>1. FlightInv BY <1>1 DEF CInv
  <2>2. CASE Refreshing = {}
    BY <2>1, <2>2, FS_EmptySet DEF FlightInv, SingleFlight, Refreshing, Queued
  <2>3. CASE Refreshing # {}
    <3>1. PICK c \in Calls : Refreshing = {c}
      BY <2>1, <2>3 DEF FlightInv, Refreshing
    <3>2. Cardinality(Refreshing) = 1
      BY <3>1, FS_Singleton
    <3> QED BY <2>1, <3>1, <3>2 DEF FlightInv, SingleFlight, Refreshing, Queued
  <2> QED BY <2>2, <2>3
<1> QED BY <1>1, ClientInvariant, PTL

\* Storage and session end together, unless ended behind a call's back.
THEOREM SessionAgreesWithStorage == Spec => []SessionMatchesStorage
<1>1. CInv => SessionMatchesStorage BY DEF CInv, SessionInv, SessionMatchesStorage
<1> QED BY <1>1, ClientInvariant, PTL

\* The stored pair is the newest one in the absence of that trouble.
THEOREM StoresNewestPair == Spec => []NewestPairStored
<1>1. CInv => NewestPairStored BY DEF CInv, NewestInv, NewestPairStored
<1> QED BY <1>1, ClientInvariant, PTL

\* No run of the app posts a pair twice.
THEOREM PostsOnce == Spec => PostedOnce
<1> DEFINE New == post' # post /\ post' # NoPost /\ post'.answer = None
                    => post'.pair \notin posted
<1>1. ASSUME CInv, [Next]_vars PROVE [New]_vars
  <2>1. ASSUME NEW c \in Calls, StartRefresh(c) PROVE New
    BY <1>1, <2>1 DEF StartRefresh, CInv, UnspentInv
  <2>2. ASSUME ServerRefresh PROVE New
    BY <1>1, <2>2, NoneAssumption DEF ServerRefresh, CInv, TypeOK, Posts, NoPost
  <2>3. ASSUME post' = post \/ post' = NoPost PROVE New
    BY <2>3
  <2>4. ASSUME NEW c \in Calls, Send(c) \/ CallStep(c) PROVE New
    <3>1. CASE StartRefresh(c) BY <3>1, <2>1
    <3>2. CASE ~StartRefresh(c)
      BY <2>4, <3>2, <2>3
      DEF CallStep, Send, Succeed, Fail, Reject, Enqueue, NothingToRefresh
    <3> QED BY <3>1, <3>2
  <2>5. CASE Next
    BY <2>2, <2>3, <2>4, <2>5
    DEF Next, PostStep, Login, RefreshArrives, RefreshFails, AccessExpires, SessionEnds,
        Restart
  <2> QED BY <1>1, <2>5 DEF vars
<1> QED BY <1>1, ClientInvariant, PTL DEF Spec, PostedOnce

\* Errors are mapped first, so no 401 reaches the refresh.
UnusedInv == MapsFirst => ~isRefreshing /\ post = NoPost

\* In the order in which client.ts registers the interceptors the end of a
\* session is never announced: the event RootNavigator waits for is emitted
\* where a refresh fails or finds no token, and no call gets there.
THEOREM NeverAnnounced ==
  ASSUME MapsFirst
  PROVE  Spec => [][~(RefreshFails \/ \E c \in Calls : NothingToRefresh(c))]_vars
<1>1. Init => UnusedInv BY DEF Init, UnusedInv
<1>2. TypeOK /\ UnusedInv /\ [Next]_vars => UnusedInv'
  <2> SUFFICES ASSUME TypeOK, UnusedInv, [Next]_vars PROVE UnusedInv' OBVIOUS
  <2>1. ASSUME NEW c \in Calls, Send(c) \/ CallStep(c) PROVE UnusedInv'
    BY <2>1 DEF UnusedInv, Send, CallStep, Succeed, Fail, Reject, Enqueue, StartRefresh, NothingToRefresh, Intercepted
  <2>2. CASE ServerRefresh
    <3>1. live \subseteq Nat BY BoundsAssumption DEF TypeOK
    <3> QED BY <2>2, <3>1, NoneAssumption DEF UnusedInv, ServerRefresh, NoPost
  <2>3. CASE PostStep \/ Restart
    BY <2>3 DEF UnusedInv, PostStep, RefreshArrives, RefreshFails, Restart
  <2>4. CASE Login \/ (\E p \in Pairs : AccessExpires(p) \/ SessionEnds(p)) \/ UNCHANGED vars
    BY <2>4 DEF UnusedInv, Login, AccessExpires, SessionEnds, vars
  <2> QED BY <2>1, <2>2, <2>3, <2>4 DEF Next
<1>3. UnusedInv /\ [Next]_vars => [~(RefreshFails \/ \E c \in Calls : NothingToRefresh(c))]_vars
  BY DEF UnusedInv, RefreshFails, NothingToRefresh, Intercepted
<1> QED BY <1>1, <1>2, <1>3, ClientTypeCorrect, PTL DEF Spec

-----------------------------------------------------------------------------
(* The account.  It hears of a failed refresh unless errors are mapped     *)
(* first.                                                                  *)

\* What is in memory is gone when the process is.
DownInv ==
  /\ boot # Nobody => up
  /\ ~up => /\ cache = Empty /\ asking = Empty
            /\ signins = {} /\ leaving = {} /\ edits = {} /\ updates = {}

\* What an update on the wire may bring into the cache is the signed-in user's.
OwnUpdate(u) ==
  u.who \in {Nobody, tokens} /\ \A q \in Queries : u.back[q] \in {Nobody, tokens}

\* Unless rows were left behind, rows, fetches and updates are of the user whose
\* tokens are stored, and the disk holds none of a query that memory holds none of.
OwnInv ==
  /\ residue \in {"no", "unsaved"} =>
       /\ \A q \in Queries : {cache[q], asking[q]} \subseteq {Nobody, tokens}
       /\ \A u \in updates : OwnUpdate(u)
  /\ residue = "no" => \A q \in Queries :
       /\ disk[q] \in {Nobody, tokens}
       /\ up /\ cache[q] = Nobody => disk[q] = Nobody
  /\ residue = "unsaved" => up

AInv == AccountTypeOK /\ DownInv /\ TokensMatchSession /\ OwnInv

-----------------------------------------------------------------------------
LEMMA Shapes ==
  /\ \A a \in Accounts : a # Nobody /\ Session(a) \in Sessions
  /\ Nobody \in Sessions /\ Empty \in [Queries -> Accounts \cup {Nobody}]
  /\ \A q \in Queries : Empty[q] = Nobody
BY NoneIsNobody DEF Session, Sessions, Empty

LEMMA Locks ==
  /\ MaxAttempts \in Nat \ {0} /\ LockoutSeconds \in Nat \ {0}
  /\ Unlocked \in [failures : 0..(MaxAttempts - 1), left : 0..LockoutSeconds]
BY Bounds DEF Unlocked

LEMMA InitAInv ==
  ASSUME AccountInit
  PROVE  AInv
<1>1. AccountTypeOK
  <2>1. budget \in [starts : 0..MaxStarts, signins : 0..MaxSignIns, edits : 0..MaxEdits]
    BY Bounds DEF AccountInit
  <2>2. {session, saved} \subseteq Sessions /\ {tokens, boot} \subseteq Accounts \cup {Nobody}
    BY Shapes DEF AccountInit
  <2>3. {cache, disk, asking} \subseteq [Queries -> Accounts \cup {Nobody}] BY Shapes DEF AccountInit
  <2>4. lock \in [failures : 0..(MaxAttempts - 1), left : 0..LockoutSeconds] BY Locks DEF AccountInit
  <2>5. alive \in [Accounts -> BOOLEAN] BY DEF AccountInit
  <2> QED BY <2>1, <2>2, <2>3, <2>4, <2>5 DEF AccountInit, AccountTypeOK
<1>2. DownInv BY DEF AccountInit, DownInv
<1>3. TokensMatchSession BY DEF AccountInit, TokensMatchSession
<1>4. OwnInv BY Shapes DEF AccountInit, OwnInv
<1> QED BY <1>1, <1>2, <1>3, <1>4 DEF AInv

-----------------------------------------------------------------------------
\* The end of a session: what it leaves is marked, and nothing else is there.
LEMMA LeftRows ==
  ASSUME AInv, up, LeaveRows, UNCHANGED <<up, cache, disk, asking, updates>>
  PROVE  OwnInv' /\ residue' \in {"no", "unsaved", "yes"}
<1>1. CASE Leftover BY <1>1 DEF LeaveRows, OwnInv
<1>2. CASE ~Leftover
  <2>1. cache = Empty /\ asking = Empty /\ updates = {} BY <1>2 DEF Leftover
  <2>2. \A q \in Queries : cache[q] = Nobody /\ asking[q] = Nobody BY <2>1, Shapes
  <2>3. residue' = residue BY <1>2 DEF LeaveRows
  <2> QED BY <2>1, <2>2, <2>3 DEF AInv, OwnInv, AccountTypeOK
<1> QED BY <1>1, <1>2

LEMMA StartAInv ==
  ASSUME AInv, Start
  PROVE  AInv'
<1>1. AccountTypeOK'
  <2>1. cache' \in [Queries -> Accounts \cup {Nobody}] BY Shapes DEF Start, AInv, AccountTypeOK
  <2>2. residue' \in {"no", "unsaved", "yes"} BY DEF Start, AInv, AccountTypeOK
  <2>3. session' \in Sessions BY Shapes DEF Start, AInv, AccountTypeOK
  <2>4. budget' \in [starts : 0..MaxStarts, signins : 0..MaxSignIns, edits : 0..MaxEdits]
    BY Bounds DEF Start, AInv, AccountTypeOK
  <2> QED BY <2>1, <2>2, <2>3, <2>4 DEF Start, AInv, AccountTypeOK, wire
<1>2. DownInv' BY DEF Start, DownInv
<1>3. TokensMatchSession' BY DEF Start, TokensMatchSession
<1>4. OwnInv'
  <2>1. asking = Empty /\ residue # "unsaved" BY DEF Start, AInv, DownInv, OwnInv
  <2>2. \A q \in Queries : cache'[q] \in {Nobody, disk[q]} BY Shapes DEF Start
  <2>3. residue' \in {residue, "yes"} /\ disk' = cache' BY DEF Start
  <2>4. asking' = asking /\ tokens' = tokens /\ updates' = updates BY DEF Start, wire
  <2> QED BY <2>1, <2>2, <2>3, <2>4, Shapes DEF AInv, OwnInv, OwnUpdate
<1> QED BY <1>1, <1>2, <1>3, <1>4 DEF AInv

LEMMA KillAInv ==
  ASSUME AInv, Kill
  PROVE  AInv'
<1>1. AccountTypeOK'
  <2>1. residue' \in {"no", "unsaved", "yes"} BY DEF Kill, AInv, AccountTypeOK
  <2>2. {session', saved'} \subseteq Sessions /\ {tokens', boot'} \subseteq Accounts \cup {Nobody}
    BY Shapes DEF Kill, AInv, AccountTypeOK
  <2>3. {cache', disk', asking'} \subseteq [Queries -> Accounts \cup {Nobody}]
    BY Shapes DEF Kill, AInv, AccountTypeOK
  <2>4. lock' \in [failures : 0..(MaxAttempts - 1), left : 0..LockoutSeconds] BY Locks DEF Kill
  <2> QED BY <2>1, <2>2, <2>3, <2>4 DEF Kill, AInv, AccountTypeOK
<1>2. DownInv' BY DEF Kill, DownInv
<1>3. TokensMatchSession' BY DEF Kill, TokensMatchSession
<1>4. OwnInv'
  <2>1. residue' # "unsaved" /\ (residue' = "no" => residue = "no") BY DEF Kill, AInv, AccountTypeOK
  <2> QED BY <2>1, Shapes DEF Kill, AInv, OwnInv
<1> QED BY <1>1, <1>2, <1>3, <1>4 DEF AInv

LEMMA SaveAInv ==
  ASSUME AInv, SaveSession \/ SaveCache
  PROVE  AInv'
<1>1. CASE SaveSession
  BY <1>1 DEF SaveSession, wire, AInv, AccountTypeOK, DownInv, TokensMatchSession, OwnInv, OwnUpdate
<1>2. CASE SaveCache
  <2>1. AccountTypeOK' BY <1>2 DEF SaveCache, wire, AInv, AccountTypeOK
  <2>2. DownInv' /\ TokensMatchSession'
    BY <1>2 DEF SaveCache, wire, AInv, DownInv, TokensMatchSession
  <2>3. OwnInv' BY <1>2 DEF SaveCache, wire, AInv, AccountTypeOK, OwnInv, OwnUpdate
  <2> QED BY <2>1, <2>2, <2>3 DEF AInv
<1> QED BY <1>1, <1>2

LEMMA BootAcceptedAInv ==
  ASSUME AInv, BootAccepted
  PROVE  AInv'
<1>1. boot \in Accounts BY DEF AInv, AccountTypeOK, BootAccepted
<1>2. AccountTypeOK'
  <2>1. crossed' \in BOOLEAN BY DEF BootAccepted
  <2>2. session' \in Sessions BY <1>1, Shapes DEF BootAccepted
  <2> QED BY <2>1, <2>2 DEF BootAccepted, wire, AInv, AccountTypeOK
<1>3. DownInv' BY DEF BootAccepted, wire, AInv, DownInv
<1>4. TokensMatchSession' BY <1>1, Shapes DEF BootAccepted, TokensMatchSession
<1>5. OwnInv' BY DEF BootAccepted, wire, AInv, OwnInv, OwnUpdate
<1> QED BY <1>2, <1>3, <1>4, <1>5 DEF AInv

LEMMA BootFailedAInv ==
  ASSUME AInv, BootFailed
  PROVE  AInv'
<1>1. up BY DEF AInv, DownInv, BootFailed
<1>2. OwnInv' /\ residue' \in {"no", "unsaved", "yes"} BY <1>1, LeftRows DEF BootFailed, wire
<1>3. AccountTypeOK' BY <1>2, Shapes DEF BootFailed, wire, AInv, AccountTypeOK
<1>4. DownInv' BY <1>1 DEF BootFailed, DownInv
<1>5. TokensMatchSession' BY DEF BootFailed, TokensMatchSession
<1> QED BY <1>2, <1>3, <1>4, <1>5 DEF AInv

LEMMA LogoutEventAInv ==
  ASSUME AInv, LogoutEvent
  PROVE  AInv'
<1>1. up BY DEF LogoutEvent
<1>2. OwnInv' /\ residue' \in {"no", "unsaved", "yes"} BY <1>1, LeftRows DEF LogoutEvent, wire
<1>3. AccountTypeOK' BY <1>2, Shapes DEF LogoutEvent, wire, AInv, AccountTypeOK
<1>4. DownInv' BY <1>1 DEF LogoutEvent, DownInv
<1>5. TokensMatchSession' BY DEF LogoutEvent, TokensMatchSession
<1> QED BY <1>2, <1>3, <1>4, <1>5 DEF AInv

\* Requests leave the stores alone.
LEMMA SubmitsAInv ==
  ASSUME AInv, NEW a \in Accounts, SubmitLogin(a) \/ SubmitRegister(a)
  PROVE  AInv'
<1>1. /\ up /\ budget.signins > 0 /\ budget' = [budget EXCEPT !.signins = @ - 1]
      /\ \E by \in {"login", "register"} : signins' = signins \cup {[by |-> by, who |-> a]}
      /\ UNCHANGED <<up, tokens, session, saved, cache, disk, asking, boot, spinner, leaving, edits, updates,
                     lock, alive, crossed, residue>>
  BY DEF SubmitLogin, SubmitRegister, OnSignIn
<1>2. signins' \subseteq SignIns BY <1>1 DEF AInv, AccountTypeOK, SignIns
<1>3. budget' \in [starts : 0..MaxStarts, signins : 0..MaxSignIns, edits : 0..MaxEdits]
  BY <1>1, Bounds DEF AInv, AccountTypeOK
<1>4. AccountTypeOK' BY <1>1, <1>2, <1>3 DEF AInv, AccountTypeOK
<1> QED BY <1>1, <1>4 DEF AInv, DownInv, TokensMatchSession, OwnInv, OwnUpdate

LEMMA SignedInAInv ==
  ASSUME AInv, NEW s \in SignIns, SignedIn(s)
  PROVE  AInv'
<1>1. s.who \in Accounts BY DEF SignIns
<1>2. up BY DEF SignedIn, AInv, DownInv
<1>3. OwnInv' /\ residue' \in {"no", "unsaved", "yes"}
  <2>1. CASE tokens \in {Nobody, s.who}
    <3>1. residue' = residue BY <2>1 DEF SignedIn
    <3>2. UNCHANGED <<up, cache, disk, asking, updates>> /\ tokens' = s.who BY DEF SignedIn
    <3> QED BY <2>1, <3>1, <3>2 DEF AInv, AccountTypeOK, OwnInv, OwnUpdate
  <2>2. CASE tokens \notin {Nobody, s.who} BY <1>2, <2>2, LeftRows DEF SignedIn
  <2> QED BY <2>1, <2>2
<1>4. AccountTypeOK'
  <2>1. alive' \in [Accounts -> BOOLEAN] BY DEF SignedIn, AInv, AccountTypeOK
  <2>2. session' \in Sessions /\ tokens' \in Accounts BY <1>1, Shapes DEF SignedIn
  <2>3. signins' \subseteq SignIns BY DEF SignedIn, AInv, AccountTypeOK
  <2> QED BY <1>3, <2>1, <2>2, <2>3, Locks DEF SignedIn, AInv, AccountTypeOK
<1>5. DownInv' BY <1>2 DEF SignedIn, DownInv
<1>6. TokensMatchSession' BY <1>1, Shapes DEF SignedIn, TokensMatchSession
<1> QED BY <1>3, <1>4, <1>5, <1>6 DEF AInv

LEMMA LoginFailedAInv ==
  ASSUME AInv, NEW s \in SignIns, LoginFailed(s)
  PROVE  AInv'
<1>1. signins' = signins \ {s}
      /\ UNCHANGED <<up, tokens, session, saved, cache, disk, asking, boot, spinner, leaving, edits, updates,
                     alive, crossed, residue, budget>>
  BY DEF LoginFailed
<1>2. lock' \in [failures : 0..(MaxAttempts - 1), left : 0..LockoutSeconds]
  BY Locks DEF LoginFailed, AInv, AccountTypeOK
<1>3. AccountTypeOK' BY <1>1, <1>2 DEF AInv, AccountTypeOK
<1> QED BY <1>1, <1>3 DEF AInv, DownInv, TokensMatchSession, OwnInv, OwnUpdate

LEMMA TickAInv ==
  ASSUME AInv, Tick
  PROVE  AInv'
<1>1. lock' \in [failures : 0..(MaxAttempts - 1), left : 0..LockoutSeconds]
  BY Locks DEF Tick, Locked, AInv, AccountTypeOK
<1>2. AccountTypeOK' BY <1>1 DEF Tick, wire, AInv, AccountTypeOK
<1> QED BY <1>2 DEF Tick, wire, AInv, DownInv, TokensMatchSession, OwnInv, OwnUpdate

LEMMA LogoutAInv ==
  ASSUME AInv, SignOut
  PROVE  AInv'
<1>1. AccountTypeOK' BY DEF SignOut, AInv, AccountTypeOK
<1> QED BY <1>1 DEF SignOut, AInv, DownInv, TokensMatchSession, OwnInv, OwnUpdate

LEMMA LogoutDoneAInv ==
  ASSUME AInv, NEW a \in Accounts \cup {Nobody}, LogoutDone(a)
  PROVE  AInv'
<1>1. up BY DEF LogoutDone, AInv, DownInv
<1>2. AccountTypeOK'
  <2>1. alive' \in [Accounts -> BOOLEAN] BY DEF LogoutDone, AInv, AccountTypeOK
  <2>2. residue' \in {"no", "unsaved", "yes"} BY DEF LogoutDone
  <2>3. leaving' \subseteq Accounts \cup {Nobody} BY DEF LogoutDone, AInv, AccountTypeOK
  <2> QED BY <2>1, <2>2, <2>3, Shapes DEF LogoutDone, AInv, AccountTypeOK
<1>3. DownInv' BY <1>1 DEF LogoutDone, DownInv
<1>4. TokensMatchSession' BY DEF LogoutDone, TokensMatchSession
<1>5. OwnInv'
  <2>1. cache' = Empty /\ asking' = Empty /\ disk' = disk /\ up' = up BY DEF LogoutDone
  <2>2. residue' = IF updates # {} THEN "yes" ELSE IF disk = Empty THEN "no" ELSE "unsaved"
    BY DEF LogoutDone
  <2>3. updates' = updates BY DEF LogoutDone
  <2> QED BY <1>1, <2>1, <2>2, <2>3, Shapes DEF OwnInv
<1> QED BY <1>2, <1>3, <1>4, <1>5 DEF AInv

LEMMA FetchAInv ==
  ASSUME AInv, NEW q \in Queries, Fetch(q) \/ Fetched(q)
  PROVE  AInv'
<1>1. CASE Fetch(q)
  <2>1. asking' = [asking EXCEPT ![q] = tokens] /\ up /\ tokens \in Accounts \cup {Nobody}
    BY <1>1 DEF Fetch, AInv, AccountTypeOK
  <2>2. UNCHANGED <<up, tokens, session, saved, cache, disk, boot, spinner, signins, leaving, edits, updates,
                    lock, alive, crossed, residue, budget>>
    BY <1>1 DEF Fetch, wire
  <2>3. \A p \in Queries : asking'[p] \in {asking[p], tokens} BY <2>1 DEF AInv, AccountTypeOK
  <2>4. AccountTypeOK' BY <2>1, <2>2 DEF AInv, AccountTypeOK
  <2>5. DownInv' /\ TokensMatchSession' BY <2>1, <2>2 DEF AInv, DownInv, TokensMatchSession
  <2>6. OwnInv' BY <2>2, <2>3 DEF AInv, OwnInv, OwnUpdate
  <2> QED BY <2>4, <2>5, <2>6 DEF AInv
<1>2. CASE Fetched(q)
  <2>1. /\ asking' = [asking EXCEPT ![q] = Nobody] /\ asking[q] # Nobody
        /\ cache' = [cache EXCEPT ![q] = asking[q]] \/ cache' = cache
        /\ asking \in [Queries -> Accounts \cup {Nobody}] /\ cache \in [Queries -> Accounts \cup {Nobody}]
    BY <1>2 DEF Fetched, AInv, AccountTypeOK
  <2>2. UNCHANGED <<up, tokens, session, saved, disk, boot, spinner, signins, leaving, edits, updates,
                    lock, alive, crossed, residue, budget>>
    BY <1>2 DEF Fetched, wire
  <2>3. up BY <2>1, Shapes DEF AInv, DownInv
  <2>4. \A p \in Queries : /\ asking'[p] \in {asking[p], Nobody}
                           /\ cache'[p] \in {cache[p], asking[p]}
                           /\ cache'[p] = Nobody => cache[p] = Nobody
    BY <2>1
  <2>5. AccountTypeOK' BY <2>1, <2>2 DEF AInv, AccountTypeOK
  <2>6. DownInv' /\ TokensMatchSession' BY <2>2, <2>3 DEF AInv, DownInv, TokensMatchSession
  <2>7. OwnInv' BY <2>2, <2>4 DEF AInv, OwnInv, OwnUpdate
  <2> QED BY <2>5, <2>6, <2>7 DEF AInv
<1> QED BY <1>1, <1>2

LEMMA SubmitEditAInv ==
  ASSUME AInv, NEW what \in {"profile", "organization"}, SubmitEdit(what)
  PROVE  AInv'
<1>1. /\ up /\ tokens \in Accounts /\ budget.edits > 0 /\ budget' = [budget EXCEPT !.edits = @ - 1]
      /\ edits' = edits \cup {[of |-> what, who |-> tokens]}
      /\ UNCHANGED <<up, tokens, session, saved, cache, disk, asking, boot, spinner, signins, leaving, updates,
                     lock, alive, crossed, residue>>
  BY DEF SubmitEdit, AInv, AccountTypeOK
<1>2. edits' \subseteq Edits BY <1>1 DEF AInv, AccountTypeOK, Edits
<1>3. budget' \in [starts : 0..MaxStarts, signins : 0..MaxSignIns, edits : 0..MaxEdits]
  BY <1>1, Bounds DEF AInv, AccountTypeOK
<1>4. AccountTypeOK' BY <1>1, <1>2, <1>3 DEF AInv, AccountTypeOK
<1> QED BY <1>1, <1>4 DEF AInv, DownInv, TokensMatchSession, OwnInv, OwnUpdate

\* An answer to the user who is signed in changes nothing about who that is.
LEMMA EditedAInv ==
  ASSUME AInv, NEW e \in Edits, Edited(e)
  PROVE  AInv'
<1>1. /\ edits' = edits \ {e}
      /\ UNCHANGED <<up, tokens, saved, cache, disk, asking, boot, spinner, signins, leaving, updates,
                     lock, alive, residue, budget>>
  BY DEF Edited
<1>2. e.who \in Accounts BY DEF Edits
<1>3. up BY DEF Edited, AInv, DownInv
<1>4. session' \in Sessions /\ crossed' \in BOOLEAN
  BY <1>2 DEF Edited, AInv, AccountTypeOK, Sessions
<1>5. AccountTypeOK' BY <1>1, <1>4 DEF AInv, AccountTypeOK
<1>6. DownInv' BY <1>1, <1>3 DEF AInv, DownInv
<1>7. TokensMatchSession'
  <2>1. CASE UNCHANGED <<session, crossed>> BY <1>1, <2>1 DEF AInv, TokensMatchSession
  <2>2. CASE /\ session # Nobody /\ crossed' = (crossed \/ session.who # e.who)
             /\ session' = IF e.of = "profile" THEN [session EXCEPT !.profile = e.who]
                                               ELSE [session EXCEPT !.organization = e.who]
    <3>1. SUFFICES ASSUME up, boot = Nobody, ~crossed, session.who = e.who
                   PROVE  session' = IF tokens = Nobody THEN Nobody ELSE Session(tokens)
      BY <1>1, <2>2 DEF TokensMatchSession
    <3>2. tokens # Nobody /\ session = Session(tokens) BY <2>2, <3>1 DEF AInv, TokensMatchSession
    <3>3. tokens = e.who BY <3>1, <3>2 DEF Session
    <3> QED BY <2>2, <3>2, <3>3 DEF Session
  <2> QED BY <2>1, <2>2 DEF Edited
<1>8. OwnInv' BY <1>1 DEF AInv, OwnInv, OwnUpdate
<1> QED BY <1>5, <1>6, <1>7, <1>8 DEF AInv

\* An update takes along the rows there are when it is sent.
LEMMA SubmitUpdateAInv ==
  ASSUME AInv, NEW by \in {"update", "status"}, SubmitUpdate(by)
  PROVE  AInv'
<1> DEFINE back == IF by = "status" THEN cache ELSE Empty
           u == [by |-> by, at |-> "sent", who |-> tokens, back |-> back]
<1>1. /\ up /\ tokens \in Accounts /\ budget.edits > 0 /\ budget' = [budget EXCEPT !.edits = @ - 1]
      /\ updates' = updates \cup {u}
      /\ asking' \in [Queries -> Accounts \cup {Nobody}]
      /\ \A q \in Queries : asking'[q] \in {asking[q], Nobody}
      /\ UNCHANGED <<up, tokens, session, saved, cache, disk, boot, spinner, signins, leaving, edits,
                     lock, alive, crossed, residue>>
  BY DEF SubmitUpdate, AInv, AccountTypeOK
<1>2. back \in [Queries -> Accounts \cup {Nobody}] BY Shapes DEF AInv, AccountTypeOK
<1>3. u \in Updates BY <1>1, <1>2 DEF Updates
<1>4. budget' \in [starts : 0..MaxStarts, signins : 0..MaxSignIns, edits : 0..MaxEdits]
  BY <1>1, Bounds DEF AInv, AccountTypeOK
<1>5. AccountTypeOK' BY <1>1, <1>3, <1>4 DEF AInv, AccountTypeOK
<1>6. DownInv' /\ TokensMatchSession' BY <1>1 DEF AInv, DownInv, TokensMatchSession
<1>7. OwnInv'
  <2>1. ASSUME residue \in {"no", "unsaved"} PROVE OwnUpdate(u)
    BY <2>1, Shapes DEF AInv, OwnInv, OwnUpdate
  <2> QED BY <1>1, <2>1 DEF AInv, OwnInv, OwnUpdate
<1> QED BY <1>5, <1>6, <1>7 DEF AInv

LEMMA UpdateStoredAInv ==
  ASSUME AInv, NEW u \in updates, UpdateStored(u)
  PROVE  AInv'
<1> DEFINE read == [u EXCEPT !.at = "read", !.who = tokens]
<1>1. /\ updates' = (updates \ {u}) \cup {read}
      /\ UNCHANGED <<up, tokens, session, saved, cache, disk, asking, boot, spinner, signins, leaving, edits,
                     lock, alive, crossed, residue, budget>>
  BY DEF UpdateStored
<1>2. u \in Updates /\ tokens \in Accounts \cup {Nobody} BY DEF AInv, AccountTypeOK
<1>3. read \in Updates /\ read.who = tokens /\ read.back = u.back BY <1>2 DEF Updates
<1>4. up BY DEF AInv, DownInv
<1>5. AccountTypeOK' BY <1>1, <1>3 DEF AInv, AccountTypeOK
<1>6. DownInv' /\ TokensMatchSession' BY <1>1, <1>4 DEF AInv, DownInv, TokensMatchSession
<1>7. OwnInv' BY <1>1, <1>3 DEF AInv, OwnInv, OwnUpdate
<1> QED BY <1>5, <1>6, <1>7 DEF AInv

\* An answer, or a rollback, adds rows and takes none away.
LEMMA UpdateEndsAInv ==
  ASSUME AInv, NEW u \in updates, UpdateFailed(u) \/ \E q \in Queries : UpdateDone(u, q)
  PROVE  AInv'
<1>1. /\ updates' = updates \ {u}
      /\ UNCHANGED <<up, tokens, session, saved, disk, asking, boot, spinner, signins, leaving, edits,
                     lock, alive, crossed, residue, budget>>
  BY DEF UpdateFailed, UpdateDone
<1>2. /\ u.who \in Accounts \cup {Nobody} /\ u.back \in [Queries -> Accounts \cup {Nobody}]
      /\ cache \in [Queries -> Accounts \cup {Nobody}]
  BY DEF AInv, AccountTypeOK, Updates
<1>3. /\ cache' \in [Queries -> Accounts \cup {Nobody}]
      /\ \A p \in Queries : /\ cache'[p] \in {cache[p], u.who, u.back[p]}
                            /\ cache'[p] = Nobody => cache[p] = Nobody
  <2>1. CASE UpdateFailed(u) BY <1>2, <2>1 DEF UpdateFailed
  <2>2. CASE \E q \in Queries : UpdateDone(u, q) BY <1>2, <2>2 DEF UpdateDone
  <2> QED BY <2>1, <2>2
<1>4. up BY DEF AInv, DownInv
<1>5. AccountTypeOK' BY <1>1, <1>3 DEF AInv, AccountTypeOK
<1>6. DownInv' /\ TokensMatchSession' BY <1>1, <1>4 DEF AInv, DownInv, TokensMatchSession
<1>7. OwnInv' BY <1>1, <1>3 DEF AInv, OwnInv, OwnUpdate
<1> QED BY <1>5, <1>6, <1>7 DEF AInv

LEMMA RevokedAInv ==
  ASSUME AInv, NEW a \in Accounts, Revoked(a)
  PROVE  AInv'
<1>1. AccountTypeOK' BY DEF Revoked, wire, AInv, AccountTypeOK
<1> QED BY <1>1 DEF Revoked, wire, AInv, DownInv, TokensMatchSession, OwnInv, OwnUpdate

-----------------------------------------------------------------------------
LEMMA NextAInv ==
  ASSUME AInv, [AccountNext]_accountVars
  PROVE  AInv'
<1>1. CASE Process BY <1>1, StartAInv, KillAInv, SaveAInv DEF Process
<1>2. CASE Boot BY <1>2, BootAcceptedAInv, BootFailedAInv DEF Boot
<1>3. CASE User BY <1>3, SubmitsAInv, LogoutAInv, FetchAInv, SubmitEditAInv, SubmitUpdateAInv DEF User
<1>4. CASE Answers
  BY <1>4, SignedInAInv, LoginFailedAInv, LogoutDoneAInv, FetchAInv, EditedAInv, UpdateStoredAInv, UpdateEndsAInv
  DEF Answers
<1>5. CASE Tick BY <1>5, TickAInv
<1>6. CASE LogoutEvent BY <1>6, LogoutEventAInv
<1>7. CASE \E a \in Accounts : Revoked(a) BY <1>7, RevokedAInv
<1>8. CASE UNCHANGED accountVars
  BY <1>8 DEF accountVars, AInv, AccountTypeOK, DownInv, TokensMatchSession, OwnInv, OwnUpdate
<1> QED BY <1>1, <1>2, <1>3, <1>4, <1>5, <1>6, <1>7, <1>8 DEF AccountNext

\* The inductive invariant.
THEOREM AccountInvariant == AccountSpec => []AInv
<1>1. AccountInit => AInv BY InitAInv
<1>2. AInv /\ [AccountNext]_accountVars => AInv' BY NextAInv
<1> QED BY <1>1, <1>2, PTL DEF AccountSpec

\* The stores of the app stay within their types, the lockout within its limit.
THEOREM AccountTypeCorrect == AccountSpec => []AccountTypeOK
<1>1. AInv => AccountTypeOK BY DEF AInv
<1> QED BY <1>1, AccountInvariant, PTL

\* The user whom the screens show is the one whose tokens are sent, up to
\* answers to an earlier user.
THEOREM OneUserAtATime == AccountSpec => []TokensMatchSession
<1>1. AInv => TokensMatchSession BY DEF AInv
<1> QED BY <1>1, AccountInvariant, PTL

\* No user sees cached rows of another one, if sessions end at the button with
\* no update on the wire and the cleared cache reaches the disk.
THEOREM RowsStayOwn == AccountSpec => []RowsAreOwn
<1>1. AInv => RowsAreOwn BY DEF AInv, OwnInv, RowsAreOwn
<1> QED BY <1>1, AccountInvariant, PTL
=============================================================================
