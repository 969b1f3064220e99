---------------------------- MODULE MobileAccount ----------------------------
(***************************************************************************)
(* Who the mobile app takes its user for.  Four stores answer that: the    *)
(* tokens (written through), the Redux session and the query cache (in     *)
(* memory, each copied to disk a moment later), and the backend.  Starting *)
(* the app, signing in and out and the answers of requests sent under an   *)
(* earlier user change them one at a time, and the process may be killed   *)
(* in between.                                                             *)
(*                                                                         *)
(* Requests carry the tokens that were stored when they were sent; a       *)
(* mutation's callbacks in its hook run even when its screen is gone, and  *)
(* those of an update put rows into the cache even after it was cleared.   *)
(* A mutation that waits for the connection is dropped by that clearing,   *)
(* or sent before anybody else can sign in: it is one on the wire, too.    *)
(*                                                                         *)
(* RefreshInterceptor is the other half of a session on the phone.  The    *)
(* two are extended together where they are proved, so the names here      *)
(* leave Init, Next, Spec, Logout and None to it.                          *)
(***************************************************************************)
EXTENDS Integers, FiniteSets

CONSTANTS
  Accounts,
  Queries,
  MaxAttempts,    \* failed sign-ins before the form locks
  LockoutSeconds, \* and for how long
  EventArrives,   \* whether a failed refresh is announced (interceptor order)
  MaxStarts,      \* starts of the process
  MaxSignIns,     \* sign-in requests
  MaxEdits,       \* updates of the profile, the organization, tasks and events
  Nobody

ASSUME NoneIsNobody == Nobody \notin Accounts
ASSUME Bounds == /\ MaxAttempts \in Nat \ {0} /\ LockoutSeconds \in Nat \ {0}
                 /\ {MaxStarts, MaxSignIns, MaxEdits} \subseteq Nat
                 /\ EventArrives \in BOOLEAN

VARIABLES
  up,       \* the process runs
  tokens,   \* whose tokens are stored
  session,  \* the Redux session: who, and whose profile and organization
  saved,    \* its copy on disk
  cache,    \* per query, whose rows are cached
  disk,     \* their copy on disk
  asking,   \* per query, as whom it is being fetched
  boot,     \* as whom the check at start asked who it is
  spinner,  \* that check hides every screen
  signins,  \* sign-ins and registrations on the wire
  leaving,  \* as whom a logout is on the wire
  edits,    \* profile and organization updates on the wire
  updates,  \* task and event updates on the wire
  lock,     \* the lockout of the sign-in form
  alive,    \* per account, whether the backend accepts its tokens
  crossed,  \* an answer arrived under another user than it was asked for
  residue,  \* whether rows outlive their session, in the cache or with a
            \* request: "no", "yes", or "unsaved" while the clearing of the
            \* cache has not reached the disk
  budget    \* what is left of the bounds

accountVars == <<up, tokens, session, saved, cache, disk, asking, boot, spinner, signins,
          leaving, edits, updates, lock, alive, crossed, residue, budget>>

-----------------------------------------------------------------------------
Session(a) == [who |-> a, profile |-> a, organization |-> a]
Sessions == [who : Accounts, profile : Accounts, organization : Accounts] \cup {Nobody}
Empty == [q \in Queries |-> Nobody]
Unlocked == [failures |-> 0, left |-> 0]
Locked == lock.left > 0
SignIns == [by : {"login", "register"}, who : Accounts]
Edits == [of : {"profile", "organization"}, who : Accounts]

\* An update of a task or an event, or a change of a task's status: that one
\* keeps the rows it overwrote and reads the task as whoever is signed in then.
Updates == [by : {"update", "status"}, at : {"sent", "read"}, who : Accounts \cup {Nobody},
            back : [Queries -> Accounts \cup {Nobody}]]

AccountTypeOK ==
  /\ {up, spinner, crossed} \subseteq BOOLEAN /\ residue \in {"no", "unsaved", "yes"}
  /\ {tokens, boot} \subseteq Accounts \cup {Nobody}
  /\ {session, saved} \subseteq Sessions
  /\ {cache, disk, asking} \subseteq [Queries -> Accounts \cup {Nobody}]
  /\ signins \subseteq SignIns /\ leaving \subseteq Accounts \cup {Nobody}
  /\ edits \subseteq Edits /\ updates \subseteq Updates
  /\ lock \in [failures : 0..(MaxAttempts - 1), left : 0..LockoutSeconds]
  /\ alive \in [Accounts -> BOOLEAN]
  /\ budget \in [starts : 0..MaxStarts, signins : 0..MaxSignIns, edits : 0..MaxEdits]

AccountInit ==
  /\ up = FALSE /\ tokens = Nobody
  /\ session = Nobody /\ saved = Nobody
  /\ cache = Empty /\ disk = Empty /\ asking = Empty
  /\ boot = Nobody /\ spinner = FALSE
  /\ signins = {} /\ leaving = {} /\ edits = {} /\ updates = {}
  /\ lock = Unlocked
  /\ alive = [a \in Accounts |-> FALSE]
  /\ crossed = FALSE /\ residue = "no"
  /\ budget = [starts |-> MaxStarts, signins |-> MaxSignIns, edits |-> MaxEdits]

wire == <<signins, leaving, edits, updates>>

\* Rows, or requests that bring some, stay behind when the session ends
\* without the logout button.
Leftover == cache # Empty \/ asking # Empty \/ updates # {}
LeaveRows == residue' = IF Leftover THEN "yes" ELSE residue

-----------------------------------------------------------------------------
(* The process *)

\* The token storage, the session and the cache are read back; a cache of
\* more than a day is dropped, on the disk too.  Without tokens the session is cleared.
Start ==
  /\ ~up /\ budget.starts > 0
  /\ budget' = [budget EXCEPT !.starts = @ - 1]
  /\ up' = TRUE
  /\ cache' \in {disk, Empty} /\ disk' = cache'
  /\ session' = IF tokens = Nobody THEN Nobody ELSE saved
  /\ boot' = tokens
  /\ spinner' = (tokens # Nobody /\ saved = Nobody)
  /\ residue' = IF tokens = Nobody /\ cache' # Empty THEN "yes" ELSE residue
  /\ UNCHANGED <<tokens, saved, asking, wire, lock, alive, crossed>>

\* The process dies with everything that was not on disk.
Kill ==
  /\ up
  /\ up' = FALSE /\ session' = Nobody
  /\ cache' = Empty /\ asking' = Empty
  /\ boot' = Nobody /\ spinner' = FALSE
  /\ signins' = {} /\ leaving' = {} /\ edits' = {} /\ updates' = {}
  /\ lock' = Unlocked
  /\ crossed' = FALSE
  /\ residue' = IF residue = "unsaved" THEN "yes" ELSE residue
  /\ UNCHANGED <<tokens, saved, disk, alive, budget>>

\* redux-persist and the query persister write a moment after a change.
SaveSession ==
  /\ up /\ saved # session
  /\ saved' = session
  /\ UNCHANGED <<up, tokens, session, cache, disk, asking, boot, spinner, wire, lock, alive, crossed, residue, budget>>

SaveCache ==
  /\ up /\ disk # cache
  /\ disk' = cache
  /\ residue' = IF residue = "unsaved" THEN "no" ELSE residue
  /\ UNCHANGED <<up, tokens, session, saved, cache, asking, boot, spinner, wire, lock, alive, crossed, budget>>

-----------------------------------------------------------------------------
(* The check at start *)

BootAccepted ==
  /\ boot # Nobody /\ alive[boot]
  /\ session' = Session(boot)
  /\ boot' = Nobody /\ spinner' = FALSE
  /\ crossed' = (tokens # boot)
  /\ UNCHANGED <<up, tokens, saved, cache, disk, asking, wire, lock, alive, residue, budget>>

\* Mutant: the catch forgets the session and clears the tokens only.
BootFailedKeepsSession ==
  /\ boot # Nobody
  /\ tokens' = Nobody
  /\ boot' = Nobody /\ spinner' = FALSE
  /\ crossed' = FALSE
  /\ LeaveRows
  /\ UNCHANGED <<up, session, saved, cache, disk, asking, wire, lock, alive, budget>>

\* Refused, or no answer: whatever failed, the user is signed out.
BootFailed ==
  /\ boot # Nobody
  /\ tokens' = Nobody /\ session' = Nobody
  /\ boot' = Nobody /\ spinner' = FALSE
  /\ crossed' = FALSE
  /\ LeaveRows
  /\ UNCHANGED <<up, saved, cache, disk, asking, wire, lock, alive, budget>>

-----------------------------------------------------------------------------
(* Signing in *)

OnSignIn == up /\ session = Nobody /\ ~spinner

SubmitLogin(a) ==
  /\ OnSignIn /\ ~Locked
  /\ budget.signins > 0 /\ budget' = [budget EXCEPT !.signins = @ - 1]
  /\ signins' = signins \cup {[by |-> "login", who |-> a]}
  /\ UNCHANGED <<up, tokens, session, saved, cache, disk, asking, boot, spinner, leaving, edits, updates, lock, alive, crossed, residue>>

\* The registration form is behind the sign-in form, whose state stays.
SubmitRegister(a) ==
  /\ OnSignIn
  /\ budget.signins > 0 /\ budget' = [budget EXCEPT !.signins = @ - 1]
  /\ signins' = signins \cup {[by |-> "register", who |-> a]}
  /\ UNCHANGED <<up, tokens, session, saved, cache, disk, asking, boot, spinner, leaving, edits, updates, lock, alive, crossed, residue>>

\* Tokens are stored, then the session is set; a second answer after a
\* double submission replaces both.
SignedIn(s) ==
  /\ s \in signins
  /\ signins' = signins \ {s}
  /\ alive' = [alive EXCEPT ![s.who] = TRUE]
  /\ tokens' = s.who
  /\ session' = Session(s.who)
  /\ lock' = Unlocked
  /\ crossed' = FALSE
  /\ IF tokens \in {Nobody, s.who} THEN residue' = residue ELSE LeaveRows
  /\ UNCHANGED <<up, saved, cache, disk, asking, boot, spinner, leaving, edits, updates, budget>>

\* Mutant: the counter is compared with the limit too late.
LoginFailedPastLimit(s) ==
  /\ s \in signins
  /\ signins' = signins \ {s}
  /\ \/ lock' = lock
     \/ /\ s.by = "login" /\ session = Nobody
        /\ lock' = IF lock.failures >= MaxAttempts
                   THEN [failures |-> 0, left |-> LockoutSeconds]
                   ELSE [lock EXCEPT !.failures = @ + 1]
  /\ UNCHANGED <<up, tokens, session, saved, cache, disk, asking, boot, spinner, leaving, edits, updates, alive, crossed, residue, budget>>

\* Only the newest submission of a mounted form is counted.
LoginFailed(s) ==
  /\ s \in signins
  /\ signins' = signins \ {s}
  /\ \/ lock' = lock
     \/ /\ s.by = "login" /\ session = Nobody
        /\ lock' = IF lock.failures + 1 >= MaxAttempts
                   THEN [failures |-> 0, left |-> LockoutSeconds]
                   ELSE [lock EXCEPT !.failures = @ + 1]
  /\ UNCHANGED <<up, tokens, session, saved, cache, disk, asking, boot, spinner, leaving, edits, updates, alive, crossed, residue, budget>>

\* Mutant: the interval is cleared one second early.
TickStopsEarly ==
  /\ up /\ lock.left > 1
  /\ lock' = [lock EXCEPT !.left = @ - 1]
  /\ UNCHANGED <<up, tokens, session, saved, cache, disk, asking, boot, spinner, wire, alive, crossed, residue, budget>>

\* One second of the lockout.
Tick ==
  /\ up /\ Locked
  /\ lock' = [lock EXCEPT !.left = @ - 1]
  /\ UNCHANGED <<up, tokens, session, saved, cache, disk, asking, boot, spinner, wire, alive, crossed, residue, budget>>

-----------------------------------------------------------------------------
(* Signing out *)

SignOut ==
  /\ up /\ session # Nobody
  /\ leaving' = leaving \cup {tokens}
  /\ UNCHANGED <<up, tokens, session, saved, cache, disk, asking, boot, spinner, signins, edits, updates, lock, alive, crossed, residue, budget>>

\* Mutant: the query cache is not cleared.
LogoutKeepsCache(a) ==
  /\ a \in leaving
  /\ leaving' = leaving \ {a}
  /\ \E arrived \in BOOLEAN : alive' = [b \in Accounts |-> alive[b] /\ ~(arrived /\ b = a)]
  /\ tokens' = Nobody /\ session' = Nobody
  /\ crossed' = FALSE
  /\ UNCHANGED <<up, saved, cache, disk, asking, boot, spinner, signins, edits, updates, lock, residue, budget>>

\* Answered or not, tokens, cache and session go, and the updates on the wire
\* stay.
LogoutDone(a) ==
  /\ a \in leaving
  /\ leaving' = leaving \ {a}
  /\ \E arrived \in BOOLEAN : alive' = [b \in Accounts |-> alive[b] /\ ~(arrived /\ b = a)]
  /\ tokens' = Nobody /\ session' = Nobody
  /\ cache' = Empty /\ asking' = Empty
  /\ residue' = IF updates # {} THEN "yes" ELSE IF disk = Empty THEN "no" ELSE "unsaved"
  /\ crossed' = FALSE
  /\ UNCHANGED <<up, saved, disk, boot, spinner, signins, edits, updates, lock, budget>>

\* The refresh interceptor announces that it could not refresh.
LogoutEvent ==
  /\ EventArrives /\ up /\ (tokens # Nobody \/ session # Nobody)
  /\ tokens' = Nobody /\ session' = Nobody
  /\ crossed' = FALSE
  /\ LeaveRows
  /\ UNCHANGED <<up, saved, cache, disk, asking, boot, spinner, wire, lock, alive, budget>>

\* The session ends on the backend: elsewhere, or with age.
Revoked(a) ==
  /\ alive[a]
  /\ alive' = [alive EXCEPT ![a] = FALSE]
  /\ UNCHANGED <<up, tokens, session, saved, cache, disk, asking, boot, spinner, wire, lock, crossed, residue, budget>>

-----------------------------------------------------------------------------
(* Queries and edits of the signed-in user *)

Fetch(q) ==
  /\ up /\ session # Nobody /\ tokens # Nobody /\ asking[q] = Nobody
  /\ asking' = [asking EXCEPT ![q] = tokens]
  /\ UNCHANGED <<up, tokens, session, saved, cache, disk, boot, spinner, wire, lock, alive, crossed, residue, budget>>

\* A failed fetch leaves the rows.
Fetched(q) ==
  /\ asking[q] # Nobody
  /\ asking' = [asking EXCEPT ![q] = Nobody]
  /\ \/ alive[asking[q]] /\ cache' = [cache EXCEPT ![q] = asking[q]]
     \/ cache' = cache
  /\ UNCHANGED <<up, tokens, session, saved, disk, boot, spinner, wire, lock, alive, crossed, residue, budget>>

SubmitEdit(what) ==
  /\ up /\ session # Nobody /\ tokens # Nobody
  /\ budget.edits > 0 /\ budget' = [budget EXCEPT !.edits = @ - 1]
  /\ edits' = edits \cup {[of |-> what, who |-> tokens]}
  /\ UNCHANGED <<up, tokens, session, saved, cache, disk, asking, boot, spinner, signins, leaving, updates, lock, alive, crossed, residue>>

\* The answer is merged into whatever session there is.
Edited(e) ==
  /\ e \in edits
  /\ edits' = edits \ {e}
  /\ \/ /\ alive[e.who] /\ session # Nobody
        /\ session' = IF e.of = "profile" THEN [session EXCEPT !.profile = e.who]
                                          ELSE [session EXCEPT !.organization = e.who]
        /\ crossed' = (crossed \/ session.who # e.who)
     \/ UNCHANGED <<session, crossed>>
  /\ UNCHANGED <<up, tokens, saved, cache, disk, asking, boot, spinner, signins, leaving, updates, lock, alive, residue, budget>>

\* A change of status takes the rows there are for a rollback, and cancels the
\* fetches of the task lists.
SubmitUpdate(by) ==
  /\ up /\ session # Nobody /\ tokens # Nobody
  /\ budget.edits > 0 /\ budget' = [budget EXCEPT !.edits = @ - 1]
  /\ updates' = updates \cup {[by |-> by, at |-> "sent", who |-> tokens,
                               back |-> IF by = "status" THEN cache ELSE Empty]}
  /\ \E cancelled \in IF by = "status" THEN SUBSET Queries ELSE {{}} :
       asking' = [q \in Queries |-> IF q \in cancelled THEN Nobody ELSE asking[q]]
  /\ UNCHANGED <<up, tokens, session, saved, cache, disk, boot, spinner, signins, leaving, edits, lock, alive, crossed, residue>>

\* The status is stored; the task is then read with the tokens stored by now.
UpdateStored(u) ==
  /\ u \in updates /\ u.by = "status" /\ u.at = "sent" /\ alive[u.who]
  /\ updates' = (updates \ {u}) \cup {[u EXCEPT !.at = "read", !.who = tokens]}
  /\ UNCHANGED <<up, tokens, session, saved, cache, disk, asking, boot, spinner, signins, leaving, edits, lock, alive, crossed, residue, budget>>

\* The answer becomes a row of whatever cache there is.
UpdateDone(u, q) ==
  /\ u \in updates /\ (u.by = "update" \/ u.at = "read")
  /\ u.who # Nobody /\ alive[u.who]
  /\ updates' = updates \ {u}
  /\ cache' = [cache EXCEPT ![q] = u.who]
  /\ UNCHANGED <<up, tokens, session, saved, disk, asking, boot, spinner, signins, leaving, edits, lock, alive, crossed, residue, budget>>

\* The rollback of a change of status.
UpdateFailed(u) ==
  /\ u \in updates
  /\ updates' = updates \ {u}
  /\ cache' = [q \in Queries |-> IF u.back[q] = Nobody THEN cache[q] ELSE u.back[q]]
  /\ UNCHANGED <<up, tokens, session, saved, disk, asking, boot, spinner, signins, leaving, edits, lock, alive, crossed, residue, budget>>

-----------------------------------------------------------------------------
Process == Start \/ Kill \/ SaveSession \/ SaveCache
Boot == BootAccepted \/ BootFailed
User ==
  \/ \E a \in Accounts : SubmitLogin(a) \/ SubmitRegister(a)
  \/ SignOut
  \/ \E q \in Queries : Fetch(q)
  \/ \E what \in {"profile", "organization"} : SubmitEdit(what)
  \/ \E by \in {"update", "status"} : SubmitUpdate(by)
Answers ==
  \/ \E s \in SignIns : SignedIn(s) \/ LoginFailed(s)
  \/ \E a \in Accounts \cup {Nobody} : LogoutDone(a)
  \/ \E q \in Queries : Fetched(q)
  \/ \E e \in Edits : Edited(e)
  \/ \E u \in updates : UpdateStored(u) \/ UpdateFailed(u) \/ \E q \in Queries : UpdateDone(u, q)

AccountNext == Process \/ Boot \/ User \/ Answers \/ Tick \/ LogoutEvent \/ \E a \in Accounts : Revoked(a)
AccountSpec == AccountInit /\ [][AccountNext]_accountVars

\* The check ends with an answer or the client's timeout; the interval runs.
FairAccountSpec == AccountSpec /\ WF_accountVars(Boot) /\ WF_accountVars(Tick)

-----------------------------------------------------------------------------
(* Properties *)

\* Once the check at start is over, the session is that of the user whose
\* tokens are stored, in every part, and there is none without tokens; unless
\* an answer to an earlier user was taken over.
TokensMatchSession ==
  up /\ boot = Nobody /\ ~crossed =>
    session = IF tokens = Nobody THEN Nobody ELSE Session(tokens)

\* Cached rows belong to the user whose tokens are stored, in memory and after
\* a restart, if every earlier session ended at the logout button with no
\* update on the wire and its clearing of the cache reached the disk.  (The
\* answer of an update that is late, or its rollback, brings rows back.)
RowsAreOwn ==
  up /\ tokens # Nobody /\ residue = "no" =>
    \A q \in Queries : cache[q] \in {Nobody, tokens}

\* The check at start, with its spinner, and the lockout of the sign-in form end.
WaitsEnd == (boot # Nobody ~> boot = Nobody) /\ (Locked ~> ~Locked)

=============================================================================
