--------------------------- MODULE RefreshSessions ---------------------------
(***************************************************************************)
(* Dual-token sessions of sekre-backend: the login, refresh, logout and    *)
(* change-password handlers against the refresh_sessions table, and the    *)
(* nightly cleanup job.                                                    *)
(*                                                                         *)
(* Every handler runs in a goroutine of its own and no handler opens a     *)
(* transaction, so the atomic steps are single SQL statements and handlers *)
(* interleave between them.  A handler that is waiting for its next        *)
(* statement may also fail there: the database returned an error, the      *)
(* request deadline cancelled the context, or the process went down.       *)
(***************************************************************************)
EXTENDS Naturals, FiniteSets

CONSTANTS
  Users,          \* registered users
  Tokens,         \* the refresh tokens (their jti) that may ever be minted
  Requests,       \* handler goroutines of /auth/login and /auth/refresh
  None,           \* "no token"
  AccessTTL,      \* JWT_ACCESS_TOKEN_TTL, in ticks
  RefreshTTL,     \* JWT_REFRESH_TOKEN_TTL, in ticks
  Retention,      \* CLEANUP_REFRESH_SESSION_RETENTION_DAYS, in ticks
  MaxNow,         \* bound: the clock stops here
  MaxLogouts,     \* bound: logouts per user
  MaxPwChanges    \* bound: password changes per user

ASSUME NoneAssumption == None \notin Tokens \cup Users
ASSUME RequestsAssumption == IsFiniteSet(Requests)
ASSUME TTLAssumption ==
  /\ AccessTTL \in Nat /\ RefreshTTL \in Nat /\ Retention \in Nat
  /\ AccessTTL <= RefreshTTL
ASSUME BoundAssumption ==
  MaxNow \in Nat /\ MaxLogouts \in Nat /\ MaxPwChanges \in Nat

VARIABLES
  now,        \* wall clock shared by API server and database
  claims,     \* claims[t]: the payload signed into token t, or Unminted
  row,        \* row[t]: the refresh_sessions row whose jti is t
  held,       \* tokens that reached a client in a response
  job,        \* job[r]: where handler r is
  logouts,    \* logouts[u]: completed logouts of u
  pwChanges,  \* pwChanges[u]: completed password changes of u
  era,        \* history: logouts / password changes of the owner when the
              \* login that token t descends from completed
  raced       \* history: users with a logout that overlapped a rotation

vars == <<now, claims, row, held, job, logouts, pwChanges, era, raced>>

(***************************************************************************)
(* parent and minter are history: the token a rotation replaced (None for  *)
(* a login) and the handler that minted this one.                          *)
(***************************************************************************)
Claims == [user : Users, exp : Nat, parent : Tokens \cup {None},
           minter : Requests]
Unminted == [user |-> None]

\* "unwritten" and "purged" both mean that the table has no such row; they
\* are told apart to say that a deleted row is not written again.
RowStates == {"unwritten", "live", "revoked", "purged"}
Jobs == [pc : {"idle", "lookup", "revoke", "persist"},
         old : Tokens \cup {None}, new : Tokens \cup {None}]
Idle == [pc |-> "idle", old |-> None, new |-> None]
Eras == [logout : Nat, password : Nat]

Minted == {t \in Tokens : claims[t] # Unminted}
Live   == {t \in Tokens : row[t] = "live"}
Stored == {t \in Tokens : row[t] \in {"live", "revoked"}}
Issued == {t \in Tokens : row[t] # "unwritten"}

\* Past the lookup, a rotation of `old' is committed to minting a successor.
Rotating(r) == job[r].pc \in {"revoke", "persist"} /\ job[r].old # None

Init ==
  /\ now = 0
  /\ claims = [t \in Tokens |-> Unminted]
  /\ row = [t \in Tokens |-> "unwritten"]
  /\ held = {}
  /\ job = [r \in Requests |-> Idle]
  /\ logouts = [u \in Users |-> 0]
  /\ pwChanges = [u \in Users |-> 0]
  /\ era = [t \in Tokens |-> [logout |-> 0, password |-> 0]]
  /\ raced = {}

-----------------------------------------------------------------------------
(***************************************************************************)
(* Tokens.  Generate signs a fresh uuid as jti; Verify accepts a token     *)
(* strictly before its exp claim (jwt ParseWithClaims).                    *)
(***************************************************************************)
Generate(t, u, p, r) ==
  /\ t \in Tokens \ Minted
  /\ claims' = [claims EXCEPT ![t] =
       [user |-> u, exp |-> now + RefreshTTL, parent |-> p, minter |-> r]]

Verify(t) == t \in Minted /\ now < claims[t].exp

\* The access token minted together with t is still accepted.
AccessValid(t) == now + RefreshTTL < claims[t].exp + AccessTTL

(***************************************************************************)
(* Login and Register: the credentials are checked (not modelled here) and *)
(* the pair is generated, then persisted by Persist.                       *)
(***************************************************************************)
Login(r, u) ==
  /\ job[r] = Idle
  /\ \E t \in Tokens :
       /\ Generate(t, u, None, r)
       /\ job' = [job EXCEPT ![r] = [pc |-> "persist", old |-> None, new |-> t]]
  /\ UNCHANGED <<now, row, held, logouts, pwChanges, era, raced>>

(***************************************************************************)
(* Refresh, statement by statement: Verify, GetByJTI, Generate and         *)
(* RevokeByJTI, persistRefreshSession.                                     *)
(***************************************************************************)
RefreshVerify(r, t) ==
  /\ job[r] = Idle
  /\ t \in held
  /\ Verify(t)
  /\ job' = [job EXCEPT ![r] = [pc |-> "lookup", old |-> t, new |-> None]]
  /\ UNCHANGED <<now, claims, row, held, logouts, pwChanges, era, raced>>

\* Mutant of Usable: revoked_at is not looked at.
UsableRevoked(t) == t \in Stored /\ now <= claims[t].exp

\* The row exists, is not revoked, and time.Now() is not After its expiry.
Usable(t) == row[t] = "live" /\ now <= claims[t].exp

\* Mutant of RefreshLookup: the old row is never revoked.
RefreshLookupKeepsOld(r) ==
  /\ job[r].pc = "lookup"
  /\ Usable(job[r].old)
  /\ \E t \in Tokens :
       /\ Generate(t, claims[job[r].old].user, job[r].old, r)
       /\ job' = [job EXCEPT ![r].pc = "persist", ![r].new = t]
  /\ UNCHANGED <<now, row, held, logouts, pwChanges, era, raced>>

\* Mutant of RefreshLookup: the new token is signed with the old jti.
RefreshLookupSameJTI(r) ==
  /\ job[r].pc = "lookup"
  /\ Usable(job[r].old)
  /\ job' = [job EXCEPT ![r].pc = "revoke", ![r].new = job[r].old]
  /\ UNCHANGED <<now, claims, row, held, logouts, pwChanges, era, raced>>

RefreshLookup(r) ==
  /\ job[r].pc = "lookup"
  /\ Usable(job[r].old)
  /\ \E t \in Tokens :
       /\ Generate(t, claims[job[r].old].user, job[r].old, r)
       /\ job' = [job EXCEPT ![r].pc = "revoke", ![r].new = t]
  /\ UNCHANGED <<now, row, held, logouts, pwChanges, era, raced>>

RefreshReject(r) ==
  /\ job[r].pc = "lookup"
  /\ ~Usable(job[r].old)
  /\ job' = [job EXCEPT ![r] = Idle]
  /\ UNCHANGED <<now, claims, row, held, logouts, pwChanges, era, raced>>

\* UPDATE ... WHERE jti = ? AND revoked_at IS NULL; RowsAffected is ignored.
RefreshRevoke(r) ==
  /\ job[r].pc = "revoke"
  /\ row' = [row EXCEPT ![job[r].old] = IF @ = "live" THEN "revoked" ELSE @]
  /\ job' = [job EXCEPT ![r].pc = "persist"]
  /\ UNCHANGED <<now, claims, held, logouts, pwChanges, era, raced>>

(***************************************************************************)
(* persistRefreshSession re-verifies the new token and inserts its row.    *)
(* The reply carrying the token may be lost on the way to the client.      *)
(***************************************************************************)
Persist(r) ==
  LET t == job[r].new
      u == claims[t].user
  IN /\ job[r].pc = "persist"
     /\ Verify(t)
     /\ row' = [row EXCEPT ![t] = "live"]
     /\ era' = [era EXCEPT ![t] =
          IF job[r].old # None THEN era[job[r].old]
          ELSE [logout |-> logouts[u], password |-> pwChanges[u]]]
     /\ held' \in {held, held \cup {t}}
     /\ job' = [job EXCEPT ![r] = Idle]
     /\ UNCHANGED <<now, claims, logouts, pwChanges, raced>>

\* The next statement (or the re-verification) fails and the handler returns.
Fail(r) ==
  /\ job[r].pc # "idle"
  /\ job' = [job EXCEPT ![r] = Idle]
  /\ UNCHANGED <<now, claims, row, held, logouts, pwChanges, era, raced>>

\* The process stops: every handler is lost, every row stays.
Crash ==
  /\ \E r \in Requests : job[r] # Idle
  /\ job' = [r \in Requests |-> Idle]
  /\ UNCHANGED <<now, claims, row, held, logouts, pwChanges, era, raced>>

(***************************************************************************)
(* Logout: a token authenticates the user, then one statement revokes      *)
(* every live row of that user.  AuthMiddleware does not look at the type  *)
(* of a token: a refresh token passes for an access token, and whether its *)
(* row is live nobody asks.                                                *)
(***************************************************************************)
Authenticated(u) == \E t \in held : claims[t].user = u /\ (AccessValid(t) \/ Verify(t))

\* Mutant of Logout: only one of the user's sessions is revoked.
LogoutOneSession(u) ==
  /\ logouts[u] < MaxLogouts
  /\ Authenticated(u)
  /\ \E t \in Live : claims[t].user = u /\ row' = [row EXCEPT ![t] = "revoked"]
  /\ logouts' = [logouts EXCEPT ![u] = @ + 1]
  /\ raced' = IF \E r \in Requests : Rotating(r) /\ claims[job[r].new].user = u
              THEN raced \cup {u} ELSE raced
  /\ UNCHANGED <<now, claims, held, job, pwChanges, era>>

Logout(u) ==
  /\ logouts[u] < MaxLogouts
  /\ Authenticated(u)
  /\ row' = [t \in Tokens |->
       IF row[t] = "live" /\ claims[t].user = u THEN "revoked" ELSE row[t]]
  /\ logouts' = [logouts EXCEPT ![u] = @ + 1]
  /\ raced' = IF \E r \in Requests : Rotating(r) /\ claims[job[r].new].user = u
              THEN raced \cup {u} ELSE raced
  /\ UNCHANGED <<now, claims, held, job, pwChanges, era>>

\* ChangePassword stores the new hash and touches nothing else.
ChangePassword(u) ==
  /\ pwChanges[u] < MaxPwChanges
  /\ Authenticated(u)
  /\ pwChanges' = [pwChanges EXCEPT ![u] = @ + 1]
  /\ UNCHANGED <<now, claims, row, held, job, logouts, era, raced>>

(***************************************************************************)
(* CleanupExpiredSessions: DELETE ... WHERE expires_at < now - retention.  *)
(***************************************************************************)
\* Mutant of Purgeable: the comparison includes the instant of expiry.
PurgeableEarly(t) == t \in Stored /\ claims[t].exp + Retention <= now

Purgeable(t) == t \in Stored /\ claims[t].exp + Retention < now

\* Mutant of Cleanup: rows are marked instead of deleted.
CleanupMarks ==
  /\ \E t \in Tokens : Purgeable(t)
  /\ row' = [t \in Tokens |-> IF Purgeable(t) THEN "deleted" ELSE row[t]]
  /\ UNCHANGED <<now, claims, held, job, logouts, pwChanges, era, raced>>

Cleanup ==
  /\ \E t \in Tokens : Purgeable(t)
  /\ row' = [t \in Tokens |-> IF Purgeable(t) THEN "purged" ELSE row[t]]
  /\ UNCHANGED <<now, claims, held, job, logouts, pwChanges, era, raced>>

Tick ==
  /\ now < MaxNow
  /\ now' = now + 1
  /\ UNCHANGED <<claims, row, held, job, logouts, pwChanges, era, raced>>

Next ==
  \/ \E r \in Requests, u \in Users : Login(r, u)
  \/ \E r \in Requests, t \in Tokens : RefreshVerify(r, t)
  \/ \E r \in Requests : RefreshLookup(r)
  \/ \E r \in Requests : RefreshReject(r)
  \/ \E r \in Requests : RefreshRevoke(r)
  \/ \E r \in Requests : Persist(r)
  \/ \E r \in Requests : Fail(r)
  \/ Crash
  \/ \E u \in Users : Logout(u)
  \/ \E u \in Users : ChangePassword(u)
  \/ Cleanup
  \/ Tick

Spec == Init /\ [][Next]_vars

-----------------------------------------------------------------------------
(* Properties *)

\* Every variable has the shape the table, the JWT and the handler give it.
TypeOK ==
  /\ now \in Nat
  /\ claims \in [Tokens -> Claims \cup {Unminted}]
  /\ row \in [Tokens -> RowStates]
  /\ held \subseteq Tokens
  /\ job \in [Requests -> Jobs]
  /\ logouts \in [Users -> Nat]
  /\ pwChanges \in [Users -> Nat]
  /\ era \in [Tokens -> Eras]
  /\ raced \subseteq Users

\* A successor is stored only after its predecessor stopped being usable:
\* Refresh revokes the old row before it inserts the new one, so no
\* interleaving or crash leaves both halves of a rotation live.
RotationRevokesParent ==
  \A t \in Issued : claims[t].parent # None => row[claims[t].parent] # "live"

\* Fan-out of a replayed token: the successors stored for one token were
\* minted by pairwise different handlers that were in flight together.  A
\* token can be replayed only inside the lookup-revoke window of Refresh.
OneSuccessorPerHandler ==
  \A s, t \in Issued :
    /\ claims[s].parent # None
    /\ claims[s].parent = claims[t].parent
    /\ claims[s].minter = claims[t].minter
    => s = t

\* A token never becomes usable again once its row was revoked or purged, nor
\* does one that a client holds become usable later: neither RevokeByJTI,
\* RevokeByUser, the cleanup job nor an insert brings it back.
NoResurrection ==
  [][\A t \in Tokens :
       row[t] \in {"revoked", "purged"} \/ (row[t] # "live" /\ t \in held)
         => row'[t] # "live"]_vars

\* The nightly DELETE only removes rows no Refresh could still accept.
PurgeOnlyDead ==
  [][\A t \in Tokens :
       t \in Stored /\ row'[t] = "purged" => ~Usable(t) /\ ~Verify(t)]_vars

\* Logout is final for everything that descends from an earlier login, except
\* when it overlapped a rotation of the same user: that race is the only way
\* a session survives RevokeByUser.
LogoutFinalWhenQuiet ==
  \A t \in Live :
    era[t].logout < logouts[claims[t].user] => claims[t].user \in raced

(***************************************************************************)
(* Refinement: the table is a SessionLineage in which a token gets at most *)
(* as many successors as there are concurrent handlers.                    *)
(***************************************************************************)
phaseBar == [t \in Tokens |-> CASE row[t] = "unwritten" -> "fresh"
                               [] row[t] = "live" -> "live"
                               [] OTHER -> "dead"]
parentBar == [t \in Tokens |-> IF t \in Issued THEN claims[t].parent ELSE None]

Lineage == INSTANCE SessionLineage WITH
  phase <- phaseBar, parent <- parentBar, Width <- Cardinality(Requests)

\* Every step of the handlers is a step of the lineage or leaves it alone.
ImplementsLineage == Lineage!Spec

(* Claims of the documentation *)

\* sekre-backend/README.md: using a refresh token issues one new pair and
\* cancels the old one, so a login never has two usable successors.
StrictRotation ==
  \A s, t \in Live :
    claims[s].parent # None /\ claims[s].parent = claims[t].parent => s = t

=============================================================================
