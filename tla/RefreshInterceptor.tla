-------------------------- MODULE RefreshInterceptor --------------------------
(***************************************************************************)
(* The HTTP client of sekre-mobile: the interceptors that put the access   *)
(* token on a call, map errors and refresh the token pair on a 401, with   *)
(* the token storage they share with login, logout and the check at start. *)
(*                                                                         *)
(* JavaScript runs one callback to its end, so an action is what happens   *)
(* between two answers of the network.  A response that comes late is an   *)
(* Answer that is taken late: a token once expired stays expired.  A pair  *)
(* of tokens is a number in order of issue.                                *)
(*                                                                         *)
(* MapsFirst is the order in which a failed response meets the two         *)
(* response interceptors.  Axios runs them as registered, and client.ts    *)
(* registers errorInterceptor first; its comment says the opposite.  The   *)
(* server's side of a rotation is modelled in RefreshSessions.             *)
(***************************************************************************)
EXTENDS Naturals, FiniteSets

CONSTANTS
  Requests,     \* calls the screens make
  Logout,       \* the call of LogoutUseCase
  Me,           \* the /auth/me call of useBootstrapAuth
  None,         \* no token, no answer
  MapsFirst,    \* whether errorInterceptor runs before refreshInterceptor
  MaxPairs,     \* bound: token pairs issued
  MaxRestarts   \* bound: restarts of the app

Calls == Requests \cup {Logout, Me}
Pairs == 1 .. MaxPairs

ASSUME CallsAssumption == Logout # Me /\ Logout \notin Requests /\ Me \notin Requests
ASSUME BoundsAssumption == MaxPairs \in Nat /\ MaxRestarts \in Nat
ASSUME NoneAssumption == None \notin Nat
ASSUME OrderAssumption == MapsFirst \in BOOLEAN

VARIABLES
  stored,        \* the pair in MmkvTokenStorage, or None
  signedIn,      \* isAuthenticated of the persisted Redux state
  call,          \* call[c]: where c is, the pair it carries, its _retry flag
  isRefreshing,  \* the flag of refreshInterceptor
  post,          \* the refresh call on the wire, or NoPost
  minted,        \* pairs issued so far
  valid,         \* pairs whose access token the server accepts
  live,          \* pairs whose refresh token the server accepts
  restarts,      \* number of restarts
  posted,        \* history: pairs this run of the app has posted to refresh
  trouble        \* history: what can part storage, session and server

vars == <<stored, signedIn, call, isRefreshing, post, minted, valid, live,
          restarts, posted, trouble>>
server == <<minted, valid, live>>

InFlight == {"sent", "queued", "refreshing"}
CallStates ==
  [pc : {"idle", "unauthorized"} \cup InFlight, pair : Pairs \cup {None}, retry : BOOLEAN]
NoCall == [pc |-> "idle", pair |-> None, retry |-> FALSE]
\* What a call leaves: of interest is only whether a 401 came out of it.
Over(c, outcome) ==
  IF outcome = "unauthorized"
  THEN [pc |-> "unauthorized", pair |-> None, retry |-> call[c].retry] ELSE NoCall

NoPost == [pair |-> None, answer |-> None]
Posts == [pair : Pairs, answer : {None} \cup Pairs]

Pending(c) == call[c].pc \in InFlight
Queued == {c \in Calls : call[c].pc = "queued"}
Refreshing == {c \in Calls : call[c].pc = "refreshing"}
Waiting == Queued \cup Refreshing

Init ==
  /\ stored = None
  /\ signedIn = FALSE
  /\ call = [c \in Calls |-> NoCall]
  /\ isRefreshing = FALSE
  /\ post = NoPost
  /\ minted = 0
  /\ valid = {}
  /\ live = {}
  /\ restarts = 0
  /\ posted = {}
  /\ trouble = {}

-----------------------------------------------------------------------------
(* Calls and what they leave behind *)

\* A new call, with the token that is stored now.
NewCall(pair) == [pc |-> "sent", pair |-> pair, retry |-> FALSE]

\* LogoutUseCase clears in a finally; a failed /auth/me clears as well.
EndsSession(c, outcome) == c = Logout \/ (c = Me /\ outcome # "ok")

\* Call c comes back to its caller, which may end the session.
Settle(c, outcome) ==
  /\ call' = [call EXCEPT ![c] = Over(c, outcome)]
  /\ stored' = IF EndsSession(c, outcome) THEN None ELSE stored
  /\ signedIn' = IF EndsSession(c, outcome) THEN FALSE
                 ELSE signedIn \/ (c = Me /\ outcome = "ok")
  /\ trouble' = IF EndsSession(c, outcome) /\ (isRefreshing \/ (c # Me /\ Pending(Me)))
                THEN trouble \cup {"ended"} ELSE trouble

Login ==
  /\ ~signedIn
  /\ ~Pending(Me)
  /\ minted < MaxPairs
  /\ minted' = minted + 1
  /\ valid' = valid \cup {minted'}
  /\ live' = live \cup {minted'}
  /\ stored' = minted'
  /\ signedIn' = TRUE
  /\ UNCHANGED <<call, isRefreshing, post, restarts, posted, trouble>>

Send(c) ==
  /\ signedIn
  /\ c # Me
  /\ ~Pending(c)
  /\ call' = [call EXCEPT ![c] = NewCall(stored)]
  /\ UNCHANGED <<stored, signedIn, isRefreshing, post, server, restarts, posted, trouble>>

\* The logout handler of the server revokes every session of the user.
Succeed(c) ==
  /\ call[c].pc = "sent"
  /\ call[c].pair \in valid
  /\ Settle(c, "ok")
  /\ live' = IF c = Logout THEN {} ELSE live
  /\ UNCHANGED <<isRefreshing, post, minted, valid, restarts, posted>>

\* Any other error or no answer; a logout may have been carried out.
Fail(c) ==
  /\ call[c].pc = "sent"
  /\ Settle(c, "failed")
  /\ live' \in {live} \cup (IF c = Logout /\ call[c].pair \in valid THEN {{}} ELSE {})
  /\ UNCHANGED <<isRefreshing, post, minted, valid, restarts, posted>>

-----------------------------------------------------------------------------
(* A 401 *)

Denied(c) == call[c].pc = "sent" /\ call[c].pair \notin valid

\* errorInterceptor turned the 401 into an UnauthorizedError, which is no
\* AxiosError; or the call had been retried already.
Reject(c) ==
  /\ Denied(c)
  /\ MapsFirst \/ call[c].retry
  /\ Settle(c, "unauthorized")
  /\ UNCHANGED <<isRefreshing, post, server, restarts, posted>>

\* The 401 reaches refreshInterceptor for the first time.
Intercepted(c) == Denied(c) /\ ~MapsFirst /\ ~call[c].retry

\* Mutant of Enqueue: the call is put where processQueue does not look.
EnqueueElsewhere(c) ==
  /\ Intercepted(c)
  /\ isRefreshing
  /\ call' = [call EXCEPT ![c].pc = "parked"]
  /\ UNCHANGED <<stored, signedIn, isRefreshing, post, server, restarts, posted, trouble>>

\* The queued call is not marked as retried.
Enqueue(c) ==
  /\ Intercepted(c)
  /\ isRefreshing
  /\ call' = [call EXCEPT ![c].pc = "queued"]
  /\ UNCHANGED <<stored, signedIn, isRefreshing, post, server, restarts, posted, trouble>>

\* Mutant of StartRefresh: the flag is not looked at.
StartRefreshAlways(c) ==
  /\ Intercepted(c)
  /\ stored # None
  /\ call' = [call EXCEPT ![c].pc = "refreshing", ![c].retry = TRUE]
  /\ isRefreshing' = TRUE
  /\ post' = [pair |-> stored, answer |-> None]
  /\ posted' = posted \cup {stored}
  /\ UNCHANGED <<stored, signedIn, server, restarts, trouble>>

StartRefresh(c) ==
  /\ Intercepted(c)
  /\ ~isRefreshing
  /\ stored # None
  /\ call' = [call EXCEPT ![c].pc = "refreshing", ![c].retry = TRUE]
  /\ isRefreshing' = TRUE
  /\ post' = [pair |-> stored, answer |-> None]
  /\ posted' = posted \cup {stored}
  /\ UNCHANGED <<stored, signedIn, server, restarts, trouble>>

\* No refresh token: the handler throws, clears and signs the user out.
NothingToRefresh(c) ==
  /\ Intercepted(c)
  /\ ~isRefreshing
  /\ stored = None
  /\ call' = [call EXCEPT ![c] = NoCall]
  /\ signedIn' = FALSE
  /\ UNCHANGED <<stored, isRefreshing, post, server, restarts, posted, trouble>>

-----------------------------------------------------------------------------
(* The refresh *)

ServerRefresh ==
  /\ post.answer = None
  /\ post.pair \in live
  /\ minted < MaxPairs
  /\ minted' = minted + 1
  /\ valid' = valid \cup {minted'}
  /\ live' = (live \ {post.pair}) \cup {minted'}
  /\ post' = [post EXCEPT !.answer = minted']
  /\ UNCHANGED <<stored, signedIn, call, isRefreshing, restarts, posted, trouble>>

\* Mutant of RefreshArrives: the new pair is used but not stored.
RefreshArrivesUnstored ==
  /\ post.answer \in Pairs
  /\ call' = [c \in Calls |-> IF c \in Waiting
                              THEN [call[c] EXCEPT !.pc = "sent", !.pair = post.answer]
                              ELSE call[c]]
  /\ isRefreshing' = FALSE
  /\ post' = NoPost
  /\ UNCHANGED <<stored, signedIn, server, restarts, posted, trouble>>

\* The pair is stored, the queue and the refreshing call are sent again.
RefreshArrives ==
  /\ post.answer \in Pairs
  /\ stored' = post.answer
  /\ call' = [c \in Calls |-> IF c \in Waiting
                              THEN [call[c] EXCEPT !.pc = "sent", !.pair = post.answer]
                              ELSE call[c]]
  /\ isRefreshing' = FALSE
  /\ post' = NoPost
  /\ UNCHANGED <<signedIn, server, restarts, posted, trouble>>

\* Mutant of RefreshFails: the queue is forgotten.
RefreshFailsAlone ==
  /\ post # NoPost
  /\ call' = [c \in Calls |-> IF c \in Refreshing THEN NoCall ELSE call[c]]
  /\ stored' = None
  /\ signedIn' = FALSE
  /\ isRefreshing' = FALSE
  /\ post' = NoPost
  /\ trouble' = IF call[Me].pc = "sent" THEN trouble \cup {"ended"} ELSE trouble
  /\ UNCHANGED <<server, restarts, posted>>

\* Refused, or no answer within 15 seconds, whatever the server did: everyone
\* waiting is rejected, the storage cleared, the user signed out.
RefreshFails ==
  /\ post # NoPost
  /\ call' = [c \in Calls |-> IF c \in Waiting THEN NoCall ELSE call[c]]
  /\ stored' = None
  /\ signedIn' = FALSE
  /\ isRefreshing' = FALSE
  /\ post' = NoPost
  /\ trouble' = IF call[Me].pc = "sent" THEN trouble \cup {"ended"} ELSE trouble
  /\ UNCHANGED <<server, restarts, posted>>

-----------------------------------------------------------------------------
(* The surroundings *)

AccessExpires(p) ==
  /\ p \in valid
  /\ valid' = valid \ {p}
  /\ UNCHANGED <<stored, signedIn, call, isRefreshing, post, minted, live, restarts,
                 posted, trouble>>

\* The session is revoked elsewhere, or is seven days old.
SessionEnds(p) ==
  /\ p \in live
  /\ live' = live \ {p}
  /\ UNCHANGED <<stored, signedIn, call, isRefreshing, post, minted, valid, restarts,
                 posted, trouble>>

\* Storage and Redux state persist, the flag and the queue do not; then the
\* bootstrap asks for /auth/me if there is a token.
Restart ==
  /\ restarts < MaxRestarts
  /\ restarts' = restarts + 1
  /\ call' = [c \in Calls |->
       IF c = Me /\ stored # None THEN NewCall(stored) ELSE NoCall]
  /\ signedIn' = (signedIn /\ stored # None)
  /\ isRefreshing' = FALSE
  /\ post' = NoPost
  /\ posted' = {}
  /\ trouble' = IF isRefreshing THEN trouble \cup {"restarted"} ELSE trouble
  /\ UNCHANGED <<stored, server>>

CallStep(c) ==
  Succeed(c) \/ Fail(c) \/ Reject(c) \/ Enqueue(c) \/ StartRefresh(c) \/ NothingToRefresh(c)
PostStep == RefreshArrives \/ RefreshFails

Next ==
  \/ Login
  \/ \E c \in Calls : Send(c) \/ CallStep(c)
  \/ ServerRefresh
  \/ PostStep
  \/ \E p \in Pairs : AccessExpires(p) \/ SessionEnds(p)
  \/ Restart

Spec == Init /\ [][Next]_vars

\* Axios ends every call by an answer or by its timeout.
FairSpec == Spec /\ (\A c \in Calls : WF_vars(CallStep(c))) /\ WF_vars(PostStep)

-----------------------------------------------------------------------------
(* Properties *)

\* Storage, calls and server hold what they can hold.
TypeOK ==
  /\ stored \in Pairs \cup {None}
  /\ signedIn \in BOOLEAN
  /\ call \in [Calls -> CallStates]
  /\ isRefreshing \in BOOLEAN
  /\ post \in Posts \cup {NoPost}
  /\ minted \in 0 .. MaxPairs
  /\ valid \subseteq 1 .. minted /\ live \subseteq 1 .. minted
  /\ restarts \in 0 .. MaxRestarts
  /\ posted \subseteq 1 .. minted
  /\ trouble \subseteq {"ended", "restarted"}

\* "single-flight refresh token, queue concurrent requests": the flag is set
\* exactly while one call refreshes, and nobody is in the queue otherwise, so
\* a queued call always has someone to wake it.
SingleFlight ==
  /\ isRefreshing <=> post # NoPost
  /\ isRefreshing <=> Refreshing # {}
  /\ Cardinality(Refreshing) <= 1
  /\ Queued # {} => isRefreshing

\* The app does not present a refresh token twice; the server would take the
\* second use for a replay and end the session.
PostedOnce ==
  [][post' # post /\ post' # NoPost /\ post'.answer = None
       => post'.pair \notin posted]_vars

\* What the comment in client.ts says of the order of the interceptors: a 401
\* reaches the caller only after a refresh and a retry.
RefreshBeforeUnauthorized ==
  \A c \in Calls : call[c].pc = "unauthorized" => call[c].retry

\* Token storage and session state end together: no tokens are left or put
\* back after sign-out, and none are taken from under a session, unless the
\* session was ended while a refresh or the check at start was on the wire.
SessionMatchesStorage ==
  "ended" \notin trouble /\ ~Pending(Me) => (signedIn <=> stored # None)

\* The pair in storage is the last one the server issued, so a refresh token
\* the server has rotated away is not kept, unless the session was ended or
\* the app restarted while a refresh or the check at start was on the wire.
NewestPairStored ==
  trouble = {} /\ ~isRefreshing /\ stored # None => stored = minted

\* No call waits for ever, in the queue or elsewhere.
CallsSettle == \A c \in Calls : Pending(c) ~> ~Pending(c)
=============================================================================
