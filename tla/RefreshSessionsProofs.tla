------------------------ MODULE RefreshSessionsProofs ------------------------
(***************************************************************************)
(* Proofs about RefreshSessions, for every number of users, tokens and     *)
(* concurrent handlers.                                                    *)
(***************************************************************************)
EXTENDS RefreshSessions, FiniteSetTheorems, TLAPS

\* What a handler that is past a statement knows about its tokens.
JobInv ==
  \A r \in Requests :
    /\ job[r].pc = "lookup" => job[r].old \in Issued
    /\ job[r].pc = "revoke" => job[r].old \in Issued
    /\ job[r].pc \in {"revoke", "persist"} =>
         /\ job[r].new \in Minted \ Issued
         /\ claims[job[r].new].parent = job[r].old
         /\ claims[job[r].new].minter = r
    /\ Rotating(r) =>
         /\ job[r].old \in Issued
         /\ claims[job[r].new].user = claims[job[r].old].user
    /\ Rotating(r) /\ job[r].pc = "persist" => row[job[r].old] # "live"

\* Rows are only written for minted tokens, and clients only hold written ones.
RowInv == held \subseteq Issued /\ Issued \subseteq Minted

\* The predecessor of a stored token was stored, and is no longer live.
ParentInv ==
  \A t \in Issued : claims[t].parent # None =>
    claims[t].parent \in Issued /\ row[claims[t].parent] # "live"

\* A handler rotating a token has not stored a successor of it before.
FanOutInv ==
  \A r \in Requests : Rotating(r) =>
    \A t \in Issued : ~(claims[t].parent = job[r].old /\ claims[t].minter = r)

\* A rotation that started before its user's latest logout raced with it.
RotationEraInv ==
  \A r \in Requests : Rotating(r) =>
    (era[job[r].old].logout < logouts[claims[job[r].old].user]
       => claims[job[r].old].user \in raced)

IInv == /\ TypeOK /\ RowInv /\ JobInv /\ ParentInv /\ FanOutInv
        /\ OneSuccessorPerHandler /\ RotationEraInv /\ LogoutFinalWhenQuiet

-----------------------------------------------------------------------------
\* The initial state, with an empty table and idle handlers, satisfies IInv.
LEMMA InitIInv == Init => IInv
<1> SUFFICES ASSUME Init PROVE IInv OBVIOUS
<1> USE DEF Init
<1>1. TypeOK BY DEF TypeOK, RowStates, Jobs, Idle, Eras
<1>2. Issued = {} BY DEF Issued
<1>3. \A r \in Requests : job[r].pc = "idle" /\ ~Rotating(r)
  BY DEF Idle, Rotating
<1>4. RowInv /\ ParentInv /\ OneSuccessorPerHandler
  BY <1>2 DEF RowInv, ParentInv, OneSuccessorPerHandler
<1>5. JobInv /\ FanOutInv /\ RotationEraInv
  BY <1>3 DEF JobInv, FanOutInv, RotationEraInv
<1>6. LogoutFinalWhenQuiet BY DEF LogoutFinalWhenQuiet, Live
<1> QED BY <1>1, <1>4, <1>5, <1>6 DEF IInv

(***************************************************************************)
(* Steps that touch neither the table nor the claims: a handler returns,   *)
(* starts a refresh, or the clock or a password moves.                     *)
(***************************************************************************)
LEMMA QuietStep ==
  ASSUME IInv, TypeOK',
         UNCHANGED <<claims, row, held, logouts, era, raced>>,
         \A r \in Requests :
           \/ job'[r] = job[r]
           \/ job'[r] = Idle
           \/ job'[r].pc = "lookup" /\ job'[r].old \in Issued
  PROVE  IInv'
<1> USE DEF IInv
<1>1. Issued' = Issued /\ Minted' = Minted /\ Live' = Live
  BY DEF Issued, Minted, Live
<1>2. ASSUME NEW r \in Requests, Rotating(r)'
      PROVE  job'[r] = job[r] /\ Rotating(r)
  BY <1>2 DEF Rotating, Idle
<1>3. RowInv' BY <1>1 DEF RowInv
<1>4. ParentInv' BY <1>1 DEF ParentInv
<1>5. JobInv'
  <2> SUFFICES ASSUME NEW r \in Requests
               PROVE  /\ job'[r].pc = "lookup" => job'[r].old \in Issued
                      /\ job'[r].pc = "revoke" => job'[r].old \in Issued
                      /\ job'[r].pc \in {"revoke", "persist"} =>
                           /\ job'[r].new \in Minted \ Issued
                           /\ claims[job'[r].new].parent = job'[r].old
                           /\ claims[job'[r].new].minter = r
                      /\ Rotating(r)' =>
                           /\ job'[r].old \in Issued
                           /\ claims[job'[r].new].user = claims[job'[r].old].user
                      /\ Rotating(r)' /\ job'[r].pc = "persist"
                           => row[job'[r].old] # "live"
    BY <1>1 DEF JobInv
  <2>1. CASE job'[r] = job[r] BY <1>2, <2>1 DEF JobInv
  <2>2. CASE job'[r] = Idle BY <2>2, <1>2 DEF Idle, JobInv
  <2>3. CASE job'[r].pc = "lookup" /\ job'[r].old \in Issued
    BY <2>3 DEF Rotating
  <2> QED BY <2>1, <2>2, <2>3
<1>6. FanOutInv' BY <1>1, <1>2 DEF FanOutInv
<1>7. OneSuccessorPerHandler' BY <1>1 DEF OneSuccessorPerHandler
<1>8. RotationEraInv' BY <1>2 DEF RotationEraInv
<1>9. LogoutFinalWhenQuiet' BY <1>1 DEF LogoutFinalWhenQuiet
<1> QED BY <1>3, <1>4, <1>5, <1>6, <1>7, <1>8, <1>9

(***************************************************************************)
(* Minting a token: the handler of t is the only one that will store it,   *)
(* and nothing about the tokens already minted changes.                    *)
(***************************************************************************)
LEMMA MintStep ==
  ASSUME IInv, NEW r \in Requests, NEW u \in Users, NEW t \in Tokens,
         NEW p \in Tokens \cup {None}, Generate(t, u, p, r),
         job' \in [Requests -> Jobs],
         job'[r].pc = (IF p = None THEN "persist" ELSE "revoke"),
         job'[r].old = p, job'[r].new = t,
         \A q \in Requests : q # r => job'[q] = job[q],
         p # None => p \in Live /\ claims[p].user = u,
         UNCHANGED <<now, row, held, logouts, pwChanges, era, raced>>
  PROVE  IInv'
<1> USE DEF IInv
<1>1. claims' = [claims EXCEPT ![t] = [user |-> u, exp |-> now + RefreshTTL,
                                       parent |-> p, minter |-> r]]
      /\ t \notin Minted /\ t \notin Issued
  BY DEF Generate, RowInv
<1>2. claims'[t] \in Claims /\ claims'[t] # Unminted
  BY <1>1, TTLAssumption, NoneAssumption DEF TypeOK, Claims, Unminted
<1>3. TypeOK'
  <2>1. claims' \in [Tokens -> Claims \cup {Unminted}]
    BY <1>1, <1>2 DEF TypeOK
  <2> QED BY <2>1 DEF TypeOK
<1>4. Issued' = Issued /\ Live' = Live BY DEF Issued, Live
<1>5. Minted' = Minted \cup {t}
  BY <1>1, <1>2 DEF Minted, TypeOK
<1>6. \A s \in Tokens : s # t => claims'[s] = claims[s]
  BY <1>1 DEF TypeOK
<1>7. \A s \in Issued : s # t /\ s \in Minted
  BY <1>1 DEF RowInv
<1>10. claims'[t].user = u /\ claims'[t].parent = p /\ claims'[t].minter = r
  BY <1>1 DEF TypeOK
<1>11. Live \subseteq Issued BY DEF Live, Issued
<1>12. \A q \in Requests : q # r /\ Rotating(q)' => Rotating(q)
  BY DEF Rotating
<1>13. Rotating(r)' => p # None BY DEF Rotating
<1>14. RowInv' BY <1>4, <1>5 DEF RowInv
<1>15. JobInv'
  <2> SUFFICES ASSUME NEW q \in Requests
               PROVE  /\ job'[q].pc = "lookup" => job'[q].old \in Issued
                      /\ job'[q].pc = "revoke" => job'[q].old \in Issued
                      /\ job'[q].pc \in {"revoke", "persist"} =>
                           /\ job'[q].new \in Minted' \ Issued
                           /\ claims'[job'[q].new].parent = job'[q].old
                           /\ claims'[job'[q].new].minter = q
                      /\ Rotating(q)' =>
                           /\ job'[q].old \in Issued
                           /\ claims'[job'[q].new].user = claims'[job'[q].old].user
                      /\ Rotating(q)' /\ job'[q].pc = "persist"
                           => row[job'[q].old] # "live"
    BY <1>4 DEF JobInv
  <2>1. CASE q = r
    BY <2>1, <1>1, <1>4, <1>5, <1>6, <1>7, <1>10, <1>11, <1>13
  <2>2. CASE q # r
    <3>1. job'[q] = job[q] BY <2>2
    <3>2. job[q].pc \in {"revoke", "persist"} => job[q].new \in Minted \ Issued
      BY DEF JobInv
    <3>3. job[q].pc \in {"revoke", "persist"} =>
            job[q].new # t /\ claims'[job[q].new] = claims[job[q].new]
      BY <3>2, <1>1, <1>6 DEF Minted
    <3>4. Rotating(q) => claims'[job[q].old] = claims[job[q].old]
      BY <1>6, <1>7 DEF JobInv, Issued
    <3>5. Rotating(q) => job[q].pc \in {"revoke", "persist"} BY DEF Rotating
    <3> QED BY <2>2, <3>1, <3>2, <3>3, <3>4, <3>5, <1>5, <1>12 DEF JobInv
  <2> QED BY <2>1, <2>2
<1>16. ParentInv' BY <1>4, <1>6, <1>7 DEF ParentInv, Issued
<1>17. FanOutInv'
  <2> SUFFICES ASSUME NEW q \in Requests, Rotating(q)', NEW s \in Issued
               PROVE  ~(claims'[s].parent = job'[q].old /\ claims'[s].minter = q)
    BY <1>4 DEF FanOutInv
  <2>1. claims'[s] = claims[s] BY <1>6, <1>7 DEF Issued
  <2>2. CASE q = r
    \* a live token has no stored successor at all
    BY <2>1, <2>2, <1>13 DEF ParentInv, Live
  <2>3. CASE q # r BY <2>1, <2>3, <1>12 DEF FanOutInv
  <2> QED BY <2>2, <2>3
<1>18. OneSuccessorPerHandler'
  BY <1>4, <1>6, <1>7 DEF OneSuccessorPerHandler, Issued
<1>19. RotationEraInv'
  <2> SUFFICES ASSUME NEW q \in Requests, Rotating(q)'
               PROVE  era[job'[q].old].logout < logouts[claims'[job'[q].old].user]
                        => claims'[job'[q].old].user \in raced
    BY DEF RotationEraInv
  <2>1. CASE q = r
    BY <2>1, <1>6, <1>7, <1>11, <1>13 DEF LogoutFinalWhenQuiet, Live
  <2>2. CASE q # r
    <3>1. Rotating(q) /\ job'[q] = job[q] BY <2>2, <1>12
    <3>2. claims'[job[q].old] = claims[job[q].old]
      BY <3>1, <1>6, <1>7 DEF JobInv, Issued
    <3> QED BY <3>1, <3>2 DEF RotationEraInv
  <2> QED BY <2>1, <2>2
<1>20. LogoutFinalWhenQuiet'
  BY <1>4, <1>6, <1>7, <1>11 DEF LogoutFinalWhenQuiet, Live
<1> QED BY <1>3, <1>14, <1>15, <1>16, <1>17, <1>18, <1>19, <1>20

(***************************************************************************)
(* Steps that only take rows away: RevokeByJTI, RevokeByUser, the DELETE.  *)
(***************************************************************************)
LEMMA KillStep ==
  ASSUME IInv, TypeOK', UNCHANGED <<claims, held, era>>,
         \A t \in Tokens :
           row'[t] # row[t] => t \in Stored /\ row'[t] \in {"revoked", "purged"},
         \A q \in Requests :
           \/ job'[q] = job[q]
           \/ /\ job[q].pc = "revoke"
              /\ job'[q].pc = "persist"
              /\ job'[q].old = job[q].old /\ job'[q].new = job[q].new
              /\ row'[job[q].old] # "live",
         raced \subseteq raced',
         \A w \in Users :
           \/ logouts'[w] = logouts[w]
           \/ /\ \A t \in Live' : claims[t].user # w
              /\ \A q \in Requests :
                   Rotating(q) /\ claims[job[q].new].user = w => w \in raced'
  PROVE  IInv'
<1> USE DEF IInv
<1>1. Issued' = Issued /\ Minted' = Minted /\ Live' \subseteq Live
  BY DEF Issued, Minted, Live, Stored
<1>2. \A t \in Tokens : row[t] # "live" => row'[t] # "live"
  BY <1>1 DEF Live
<1>3. \A q \in Requests :
        /\ job'[q].old = job[q].old /\ job'[q].new = job[q].new
        /\ Rotating(q)' <=> Rotating(q)
        /\ job'[q].pc = "lookup" => job[q].pc = "lookup"
        /\ job'[q].pc = "revoke" => job[q].pc = "revoke"
        /\ job'[q].pc = "persist" => job[q].pc \in {"revoke", "persist"}
  <2> TAKE q \in Requests
  <2>1. job[q] \in Jobs BY DEF TypeOK
  <2> QED BY <2>1 DEF Rotating, Jobs
<1>4. RowInv' BY <1>1 DEF RowInv
<1>5. JobInv'
  <2> SUFFICES ASSUME NEW q \in Requests
               PROVE  /\ job'[q].pc = "lookup" => job'[q].old \in Issued
                      /\ job'[q].pc = "revoke" => job'[q].old \in Issued
                      /\ job'[q].pc \in {"revoke", "persist"} =>
                           /\ job'[q].new \in Minted \ Issued
                           /\ claims[job'[q].new].parent = job'[q].old
                           /\ claims[job'[q].new].minter = q
                      /\ Rotating(q)' =>
                           /\ job'[q].old \in Issued
                           /\ claims[job'[q].new].user = claims[job'[q].old].user
                      /\ Rotating(q)' /\ job'[q].pc = "persist"
                           => row'[job'[q].old] # "live"
    BY <1>1 DEF JobInv
  <2>1. Rotating(q)' /\ job'[q].pc = "persist" => row'[job'[q].old] # "live"
    <3> SUFFICES ASSUME Rotating(q), job'[q].pc = "persist"
                 PROVE  row'[job[q].old] # "live"
      BY <1>3
    <3>1. CASE job'[q] = job[q] BY <3>1, <1>2 DEF JobInv, Issued
    <3>2. CASE job'[q] # job[q] BY <3>2
    <3> QED BY <3>1, <3>2
  <2> QED BY <2>1, <1>3 DEF JobInv
<1>6. ParentInv' BY <1>1, <1>2 DEF ParentInv, Issued
<1>7. FanOutInv' BY <1>1, <1>3 DEF FanOutInv
<1>8. OneSuccessorPerHandler' BY <1>1 DEF OneSuccessorPerHandler
<1>9. RotationEraInv'
  <2> SUFFICES ASSUME NEW q \in Requests, Rotating(q),
                      era[job[q].old].logout < logouts'[claims[job[q].old].user]
               PROVE  claims[job[q].old].user \in raced'
    BY <1>3 DEF RotationEraInv
  <2> DEFINE w == claims[job[q].old].user
  <2>1. w \in Users /\ claims[job[q].new].user = w
    BY DEF JobInv, RowInv, TypeOK, Issued, Minted, Claims
  <2>2. CASE logouts'[w] = logouts[w] BY <2>1, <2>2 DEF RotationEraInv
  <2>3. CASE logouts'[w] # logouts[w] BY <2>1, <2>3
  <2> QED BY <2>2, <2>3
<1>10. LogoutFinalWhenQuiet'
  <2> SUFFICES ASSUME NEW t \in Live',
                      era[t].logout < logouts'[claims[t].user]
               PROVE  claims[t].user \in raced'
    BY DEF LogoutFinalWhenQuiet
  <2>1. t \in Live /\ claims[t].user \in Users
    BY <1>1 DEF RowInv, TypeOK, Live, Issued, Minted, Claims
  <2> QED BY <2>1 DEF LogoutFinalWhenQuiet
<1> QED BY <1>4, <1>5, <1>6, <1>7, <1>8, <1>9, <1>10

(***************************************************************************)
(* Storing the new token.  This is the step that could break the fan-out   *)
(* bound: FanOutInv says that the handler stores its first successor.      *)
(***************************************************************************)
LEMMA PersistStep ==
  ASSUME IInv, NEW r \in Requests, Persist(r) PROVE IInv'
<1> DEFINE n == job[r].new
           p == job[r].old
<1> USE DEF IInv
<1>1. /\ n \in Minted /\ n \notin Issued /\ n \in Tokens
      /\ claims[n].parent = p /\ claims[n].minter = r
      /\ claims[n] \in Claims
      /\ p \in Tokens \cup {None}
      /\ p # None => Rotating(r) /\ p \in Issued /\ row[p] # "live"
                     /\ claims[n].user = claims[p].user
  BY DEF Persist, JobInv, Rotating, Minted, TypeOK, Jobs
<1>2. /\ row' = [row EXCEPT ![n] = "live"]
      /\ era' = [era EXCEPT ![n] =
           IF p # None THEN era[p]
           ELSE [logout |-> logouts[claims[n].user],
                 password |-> pwChanges[claims[n].user]]]
      /\ held' \in {held, held \cup {n}}
      /\ job' = [job EXCEPT ![r] = Idle]
      /\ UNCHANGED <<now, claims, logouts, pwChanges, raced>>
  BY DEF Persist
<1>3. TypeOK'
  <2>1. row' \in [Tokens -> RowStates] BY <1>1, <1>2 DEF TypeOK, RowStates
  <2>2. claims[n].user \in Users BY <1>1 DEF Claims
  <2>3. era' \in [Tokens -> Eras]
    BY <1>1, <1>2, <2>2 DEF TypeOK, Eras, Issued
  <2>4. job' \in [Requests -> Jobs] BY <1>2 DEF TypeOK, Jobs, Idle
  <2>5. held' \subseteq Tokens BY <1>1, <1>2 DEF TypeOK
  <2> QED BY <1>2, <2>1, <2>3, <2>4, <2>5 DEF TypeOK
<1>4. Issued' = Issued \cup {n} /\ Minted' = Minted /\ Live' = Live \cup {n}
  BY <1>1, <1>2 DEF Issued, Minted, Live, TypeOK
<1>5. \A t \in Tokens : t # n => row'[t] = row[t] /\ era'[t] = era[t]
  BY <1>2 DEF TypeOK
<1>6. \A q \in Requests :
        job'[q].pc # "idle" => q # r /\ job'[q] = job[q] /\ job[q].pc # "idle"
  BY <1>2 DEF TypeOK, Idle
<1>7. \A q \in Requests : Rotating(q)' => q # r /\ job'[q] = job[q] /\ Rotating(q)
  BY <1>6 DEF Rotating
<1>8. \A q \in Requests : Rotating(q)' => job[q].old \in Issued /\ job[q].old # n
  BY <1>1, <1>7 DEF JobInv
<1>9. RowInv' BY <1>1, <1>2, <1>4 DEF RowInv
<1>10. JobInv'
  <2> SUFFICES ASSUME NEW q \in Requests, job'[q].pc # "idle"
               PROVE  /\ job'[q].pc = "lookup" => job'[q].old \in Issued'
                      /\ job'[q].pc = "revoke" => job'[q].old \in Issued'
                      /\ job'[q].pc \in {"revoke", "persist"} =>
                           /\ job'[q].new \in Minted' \ Issued'
                           /\ claims'[job'[q].new].parent = job'[q].old
                           /\ claims'[job'[q].new].minter = q
                      /\ Rotating(q)' =>
                           /\ job'[q].old \in Issued'
                           /\ claims'[job'[q].new].user = claims'[job'[q].old].user
                      /\ Rotating(q)' /\ job'[q].pc = "persist"
                           => row'[job'[q].old] # "live"
    BY DEF JobInv, Rotating
  <2>1. q # r /\ job'[q] = job[q] BY <1>6
  <2>2. job[q].pc \in {"revoke", "persist"} => job[q].new # n
    BY <2>1, <1>1 DEF JobInv
  <2>3. Rotating(q)' /\ job[q].pc = "persist" => row'[job[q].old] # "live"
    BY <2>1, <1>5, <1>7, <1>8 DEF JobInv, Issued
  <2> QED BY <2>1, <2>2, <2>3, <1>2, <1>4, <1>7 DEF JobInv
<1>11. ParentInv'
  <2> SUFFICES ASSUME NEW t \in Issued', claims[t].parent # None
               PROVE  claims[t].parent \in Issued' /\ row'[claims[t].parent] # "live"
    BY <1>2 DEF ParentInv
  <2>1. claims[t].parent \in Issued /\ row[claims[t].parent] # "live"
    BY <1>1, <1>4 DEF ParentInv
  <2> QED BY <2>1, <1>1, <1>4, <1>5 DEF Issued
<1>12. FanOutInv'
  <2> SUFFICES ASSUME NEW q \in Requests, Rotating(q)', NEW t \in Issued'
               PROVE  ~(claims[t].parent = job'[q].old /\ claims[t].minter = q)
    BY <1>2 DEF FanOutInv
  <2> QED BY <1>1, <1>4, <1>7 DEF FanOutInv
<1>13. OneSuccessorPerHandler'
  BY <1>1, <1>2, <1>4 DEF OneSuccessorPerHandler, FanOutInv
<1>14. RotationEraInv'
  BY <1>2, <1>5, <1>7, <1>8 DEF RotationEraInv, Issued
<1>15. LogoutFinalWhenQuiet'
  <2> SUFFICES ASSUME NEW t \in Live', era'[t].logout < logouts[claims[t].user]
               PROVE  claims[t].user \in raced
    BY <1>2 DEF LogoutFinalWhenQuiet
  <2>1. CASE t # n BY <2>1, <1>4, <1>5 DEF LogoutFinalWhenQuiet, Live
  <2>2. CASE t = n /\ p # None
    BY <2>2, <1>1, <1>2 DEF RotationEraInv, TypeOK
  <2>3. CASE t = n /\ p = None
    <3>1. era'[n].logout = logouts[claims[n].user]
      BY <2>3, <1>1, <1>2 DEF TypeOK
    <3>2. logouts[claims[n].user] \in Nat BY <1>1 DEF TypeOK, Claims
    <3> QED BY <2>3, <3>1, <3>2
  <2> QED BY <2>1, <2>2, <2>3
<1> QED BY <1>3, <1>9, <1>10, <1>11, <1>12, <1>13, <1>14, <1>15

-----------------------------------------------------------------------------
\* The inductive step: one case per action.
LEMMA NextIInv == IInv /\ [Next]_vars => IInv'
<1> SUFFICES ASSUME IInv, [Next]_vars PROVE IInv' OBVIOUS
<1>0. TypeOK /\ RowInv /\ JobInv /\ LogoutFinalWhenQuiet BY DEF IInv
<1>1. ASSUME NEW r \in Requests, NEW u \in Users, Login(r, u) PROVE IInv'
  <2>1. PICK t \in Tokens :
          /\ Generate(t, u, None, r)
          /\ job' = [job EXCEPT ![r] = [pc |-> "persist", old |-> None, new |-> t]]
    BY <1>1 DEF Login
  <2>2. UNCHANGED <<now, row, held, logouts, pwChanges, era, raced>>
    BY <1>1 DEF Login
  <2>3. /\ job' \in [Requests -> Jobs]
        /\ job'[r].pc = "persist" /\ job'[r].old = None /\ job'[r].new = t
        /\ \A q \in Requests : q # r => job'[q] = job[q]
    BY <1>0, <2>1 DEF TypeOK, Jobs
  <2> QED BY <2>1, <2>2, <2>3, MintStep
<1>2. ASSUME NEW r \in Requests, NEW t \in Tokens, RefreshVerify(r, t) PROVE IInv'
  <2>1. TypeOK' BY <1>0, <1>2 DEF RefreshVerify, TypeOK, Jobs
  <2>2. \A q \in Requests :
          \/ job'[q] = job[q]
          \/ job'[q].pc = "lookup" /\ job'[q].old \in Issued
    BY <1>0, <1>2 DEF RefreshVerify, TypeOK, RowInv
  <2> QED BY <1>2, <2>1, <2>2, QuietStep DEF RefreshVerify
<1>3. ASSUME NEW r \in Requests, RefreshLookup(r) PROVE IInv'
  <2> DEFINE p == job[r].old
  <2>1. p \in Live /\ p \in Tokens /\ p # None /\ claims[p].user \in Users
    BY <1>0, <1>3, NoneAssumption
       DEF RefreshLookup, JobInv, RowInv, TypeOK, Usable, Live, Issued, Minted,
           Claims
  <2>2. PICK t \in Tokens :
          /\ Generate(t, claims[p].user, p, r)
          /\ job' = [job EXCEPT ![r].pc = "revoke", ![r].new = t]
    BY <1>3 DEF RefreshLookup
  <2>3. /\ job' \in [Requests -> Jobs]
        /\ job'[r].pc = "revoke" /\ job'[r].old = p /\ job'[r].new = t
        /\ \A q \in Requests : q # r => job'[q] = job[q]
    BY <1>0, <2>2 DEF TypeOK, Jobs
  <2>4. UNCHANGED <<now, row, held, logouts, pwChanges, era, raced>>
    BY <1>3 DEF RefreshLookup
  <2> QED BY <2>1, <2>2, <2>3, <2>4, MintStep
<1>4. ASSUME NEW r \in Requests, RefreshReject(r) PROVE IInv'
  <2>1. TypeOK' BY <1>0, <1>4 DEF RefreshReject, TypeOK, Jobs, Idle
  <2>2. \A q \in Requests : job'[q] = job[q] \/ job'[q] = Idle
    BY <1>0, <1>4 DEF RefreshReject, TypeOK
  <2> QED BY <1>4, <2>1, <2>2, QuietStep DEF RefreshReject
<1>5. ASSUME NEW r \in Requests, RefreshRevoke(r) PROVE IInv'
  <2> DEFINE p == job[r].old
  <2>1. p \in Tokens /\ job[r].pc = "revoke"
    BY <1>0, <1>5 DEF RefreshRevoke, JobInv, Issued
  <2>2. row' = [row EXCEPT ![p] = IF @ = "live" THEN "revoked" ELSE @]
        /\ job' = [job EXCEPT ![r].pc = "persist"]
        /\ UNCHANGED <<now, claims, held, logouts, pwChanges, era, raced>>
    BY <1>5 DEF RefreshRevoke
  <2>3. TypeOK' BY <1>0, <2>2 DEF TypeOK, Jobs, RowStates
  <2>4. \A t \in Tokens :
          row'[t] # row[t] => t \in Stored /\ row'[t] \in {"revoked", "purged"}
    BY <1>0, <2>1, <2>2 DEF TypeOK, Stored
  <2>5. row'[p] # "live" BY <1>0, <2>1, <2>2 DEF TypeOK
  <2>6. \A q \in Requests :
          \/ job'[q] = job[q]
          \/ /\ job[q].pc = "revoke" /\ job'[q].pc = "persist"
             /\ job'[q].old = job[q].old /\ job'[q].new = job[q].new
             /\ row'[job[q].old] # "live"
    BY <1>0, <2>1, <2>2, <2>5 DEF TypeOK, Jobs
  <2> QED BY <2>2, <2>3, <2>4, <2>6, KillStep
<1>6. ASSUME NEW r \in Requests, Persist(r) PROVE IInv'
  BY <1>6, PersistStep
<1>7. ASSUME NEW r \in Requests, Fail(r) PROVE IInv'
  <2>1. TypeOK' BY <1>0, <1>7 DEF Fail, TypeOK, Jobs, Idle
  <2>2. \A q \in Requests : job'[q] = job[q] \/ job'[q] = Idle
    BY <1>0, <1>7 DEF Fail, TypeOK
  <2> QED BY <1>7, <2>1, <2>2, QuietStep DEF Fail
<1>8. CASE Crash
  <2>1. TypeOK' BY <1>0, <1>8 DEF Crash, TypeOK, Jobs, Idle
  <2> QED BY <1>8, <2>1, QuietStep DEF Crash
<1>9. ASSUME NEW u \in Users, Logout(u) PROVE IInv'
  <2>1. TypeOK' BY <1>0, <1>9 DEF Logout, TypeOK, RowStates
  <2>2. \A t \in Tokens :
          row'[t] # row[t] => t \in Stored /\ row'[t] \in {"revoked", "purged"}
    BY <1>0, <1>9 DEF Logout, TypeOK, Stored
  <2>3. raced \subseteq raced' BY <1>9 DEF Logout
  <2>4. ASSUME NEW w \in Users
        PROVE  \/ logouts'[w] = logouts[w]
               \/ /\ \A t \in Live' : claims[t].user # w
                  /\ \A q \in Requests :
                       Rotating(q) /\ claims[job[q].new].user = w => w \in raced'
    <3>1. CASE w = u
      <4>1. \A t \in Live' : claims[t].user # u BY <1>9 DEF Logout, Live
      <4>2. \A q \in Requests :
              Rotating(q) /\ claims[job[q].new].user = u => u \in raced'
        BY <1>9 DEF Logout
      <4> QED BY <3>1, <4>1, <4>2
    <3>2. CASE w # u BY <1>0, <1>9, <3>2 DEF Logout, TypeOK
    <3> QED BY <3>1, <3>2
  <2>5. UNCHANGED <<claims, held, era>> /\ job' = job BY <1>9 DEF Logout
  <2> QED BY <2>1, <2>2, <2>3, <2>4, <2>5, KillStep
<1>10. ASSUME NEW u \in Users, ChangePassword(u) PROVE IInv'
  <2>1. TypeOK' BY <1>0, <1>10 DEF ChangePassword, TypeOK
  <2> QED BY <1>10, <2>1, QuietStep DEF ChangePassword
<1>11. CASE Cleanup
  <2>1. TypeOK' BY <1>0, <1>11 DEF Cleanup, TypeOK, RowStates
  <2>2. \A t \in Tokens :
          row'[t] # row[t] => t \in Stored /\ row'[t] \in {"revoked", "purged"}
    BY <1>0, <1>11 DEF Cleanup, TypeOK, Purgeable
  <2>3. UNCHANGED <<claims, held, era, job, logouts, raced>>
    BY <1>11 DEF Cleanup
  <2> QED BY <2>1, <2>2, <2>3, KillStep
<1>12. CASE Tick
  <2>1. TypeOK' BY <1>0, <1>12 DEF Tick, TypeOK
  <2> QED BY <1>12, <2>1, QuietStep DEF Tick
<1>13. CASE UNCHANGED vars
  <2>1. TypeOK' BY <1>0, <1>13 DEF vars, TypeOK
  <2> QED BY <1>13, <2>1, QuietStep DEF vars
<1> QED BY <1>1, <1>2, <1>3, <1>4, <1>5, <1>6, <1>7, <1>8, <1>9, <1>10, <1>11,
           <1>12, <1>13 DEF Next

\* IInv holds in every reachable state.
THEOREM Inductive == Spec => []IInv
BY InitIInv, NextIInv, PTL DEF Spec

\* Tables, tokens and handlers keep their shape.
THEOREM TypeCorrect == Spec => []TypeOK
<1>1. IInv => TypeOK BY DEF IInv
<1> QED BY <1>1, Inductive, PTL

\* Both halves of a rotation are never live together, whatever interleaves.
THEOREM RotationOrder == Spec => []RotationRevokesParent
<1>1. IInv => RotationRevokesParent
  BY DEF IInv, ParentInv, RotationRevokesParent
<1> QED BY <1>1, Inductive, PTL

\* One token yields at most one stored successor per concurrent handler.
THEOREM BoundedFanOut == Spec => []OneSuccessorPerHandler
<1>1. IInv => OneSuccessorPerHandler BY DEF IInv
<1> QED BY <1>1, Inductive, PTL

\* With a single handler the documented strict rotation holds.
THEOREM SerialRotation ==
  ASSUME \A q, r \in Requests : q = r
  PROVE  Spec => []StrictRotation
<1>1. IInv => StrictRotation
  <2> SUFFICES ASSUME IInv, NEW s \in Live, NEW t \in Live,
                      claims[s].parent # None, claims[s].parent = claims[t].parent
               PROVE  s = t
    BY DEF StrictRotation
  <2>1. s \in Issued /\ t \in Issued BY DEF Live, Issued
  <2>2. claims[s].minter \in Requests /\ claims[t].minter \in Requests
    BY <2>1 DEF IInv, RowInv, Minted, TypeOK, Claims
  <2> QED BY <2>1, <2>2 DEF IInv, OneSuccessorPerHandler
<1> QED BY <1>1, Inductive, PTL

\* A session survives its user's logout only if the logout raced a rotation.
THEOREM LogoutIsFinal == Spec => []LogoutFinalWhenQuiet
<1>1. IInv => LogoutFinalWhenQuiet BY DEF IInv
<1> QED BY <1>1, Inductive, PTL

(***************************************************************************)
(* How a step may move a row.  Only Persist makes a row live, and that row *)
(* belongs to a token that was never written nor handed out; only the      *)
(* cleanup job purges, and only rows that are past their expiry.           *)
(***************************************************************************)
LEMMA RowMoves ==
  ASSUME IInv, [Next]_vars, NEW t \in Tokens, row'[t] # row[t]
  PROVE  \/ /\ row[t] = "unwritten" /\ t \notin held
            /\ row'[t] = "live"
         \/ row[t] = "live" /\ row'[t] = "revoked"
         \/ /\ t \in Stored /\ row'[t] = "purged"
            /\ claims[t].exp + Retention < now
<1> USE DEF IInv
<1>1. ASSUME NEW r \in Requests, RefreshRevoke(r)
      PROVE  row[t] = "live" /\ row'[t] = "revoked"
  BY <1>1 DEF RefreshRevoke, TypeOK
<1>2. ASSUME NEW r \in Requests, Persist(r)
      PROVE  row[t] = "unwritten" /\ t \notin held /\ row'[t] = "live"
  <2>1. job[r].new = t /\ row'[t] = "live" BY <1>2 DEF Persist, TypeOK
  <2>2. t \notin Issued BY <1>2, <2>1 DEF Persist, JobInv
  <2> QED BY <2>1, <2>2 DEF RowInv, Issued
<1>3. ASSUME NEW u \in Users, Logout(u)
      PROVE  row[t] = "live" /\ row'[t] = "revoked"
  BY <1>3 DEF Logout, TypeOK
<1>4. ASSUME Cleanup
      PROVE  /\ t \in Stored /\ row'[t] = "purged"
             /\ claims[t].exp + Retention < now
  BY <1>4 DEF Cleanup, Purgeable, TypeOK
<1> QED
  BY <1>1, <1>2, <1>3, <1>4
     DEF Next, vars, Login, RefreshVerify, RefreshLookup, RefreshReject, Fail,
         Crash, ChangePassword, Tick

\* No step makes a revoked, purged or unheld-for token usable again.
THEOREM RevocationIsForever == Spec => NoResurrection
<1>1. IInv /\ [Next]_vars =>
        [\A t \in Tokens :
           row[t] \in {"revoked", "purged"} \/ (row[t] # "live" /\ t \in held)
             => row'[t] # "live"]_vars
  <2> SUFFICES ASSUME IInv, [Next]_vars, NEW t \in Tokens,
                      row[t] \in {"revoked", "purged"}
                        \/ (row[t] # "live" /\ t \in held)
               PROVE  row'[t] # "live"
    OBVIOUS
  <2>1. CASE row'[t] = row[t] BY <2>1
  <2>2. CASE row'[t] # row[t] BY <2>2, RowMoves DEF Stored
  <2> QED BY <2>1, <2>2
<1> QED BY <1>1, Inductive, PTL DEF Spec, NoResurrection

\* The cleanup job never deletes a row that Refresh could still accept.
THEOREM PurgeIsSafe == Spec => PurgeOnlyDead
<1>1. IInv /\ [Next]_vars =>
        [\A t \in Tokens :
           t \in Stored /\ row'[t] = "purged" => ~Usable(t) /\ ~Verify(t)]_vars
  <2> SUFFICES ASSUME IInv, [Next]_vars, NEW t \in Tokens,
                      t \in Stored, row'[t] = "purged"
               PROVE  ~Usable(t) /\ ~Verify(t)
    OBVIOUS
  <2>1. claims[t].exp + Retention < now BY RowMoves DEF Stored
  <2>2. claims[t].exp \in Nat /\ now \in Nat
    BY DEF IInv, TypeOK, RowInv, Issued, Stored, Minted, Claims
  <2> QED BY <2>1, <2>2, TTLAssumption DEF Usable, Verify
<1> QED BY <1>1, Inductive, PTL DEF Spec, PurgeOnlyDead

-----------------------------------------------------------------------------
(* Refinement *)

\* A handler about to store a successor leaves room for it: the stored
\* successors inject, by minter, into the other handlers.
LEMMA RoomForSuccessor ==
  ASSUME IInv, NEW r \in Requests, Persist(r), job[r].old # None
  PROVE  Cardinality(Lineage!Successors(job[r].old)) < Cardinality(Requests)
<1> DEFINE p == job[r].old
           S == Lineage!Successors(p)
           f == [t \in S |-> claims[t].minter]
<1>1. p \in Tokens /\ Rotating(r) BY DEF IInv, TypeOK, Jobs, Persist, Rotating
<1>2. S = {t \in Issued : claims[t].parent = p}
  BY <1>1, NoneAssumption
     DEF Lineage!Successors, phaseBar, parentBar, Issued, IInv, TypeOK, RowStates
<1>3. \A t \in S : claims[t].minter \in Requests \ {r}
  BY <1>1, <1>2 DEF IInv, FanOutInv, RowInv, Minted, TypeOK, Claims
<1>4. f \in Injection(S, Requests \ {r})
  <2>1. f \in [S -> Requests \ {r}] BY <1>3
  <2>2. ASSUME NEW s \in S, NEW t \in S, f[s] = f[t] PROVE s = t
    BY <2>2, <1>1, <1>2, NoneAssumption DEF IInv, OneSuccessorPerHandler
  <2> QED BY <2>1, <2>2 DEF Injection, IsInjective
<1>5. IsFiniteSet(Requests \ {r})
      /\ Cardinality(Requests \ {r}) = Cardinality(Requests) - 1
  BY RequestsAssumption, FS_RemoveElement
<1>6. Cardinality(S) <= Cardinality(Requests \ {r}) /\ IsFiniteSet(S)
  BY ONLY <1>4, <1>5, FS_Injection
<1>7. Cardinality(Requests) \in Nat /\ Cardinality(S) \in Nat
  BY <1>6, RequestsAssumption, FS_CardinalityType
<1> QED BY <1>5, <1>6, <1>7

\* The table with its handlers implements SessionLineage, with at most one
\* successor of a token for each handler that may run at once.
THEOREM Refinement == Spec => ImplementsLineage
<1>1. Init => Lineage!Init
  BY DEF Init, Lineage!Init, phaseBar, parentBar, Issued
<1>2. IInv /\ IInv' /\ [Next]_vars => [Lineage!Next]_<<phaseBar, parentBar>>
  <2> SUFFICES ASSUME IInv, IInv', [Next]_vars
               PROVE  Lineage!Next \/ UNCHANGED <<phaseBar, parentBar>>
    OBVIOUS
  <2>1. ASSUME NEW r \in Requests, Persist(r) PROVE Lineage!Next
    <3> DEFINE n == job[r].new
               p == job[r].old
    <3>1. /\ n \in Tokens /\ n \notin Issued /\ claims[n].parent = p
          /\ p # None => p \in Issued /\ row[p] # "live"
          /\ p \in Tokens \cup {None}
      BY <2>1 DEF IInv, JobInv, Persist, Rotating, Minted, TypeOK, Jobs
    <3>2. row' = [row EXCEPT ![n] = "live"] /\ claims' = claims
      BY <2>1 DEF Persist
    <3>3. Issued' = Issued \cup {n}
      BY <3>1, <3>2 DEF Issued, IInv, TypeOK
    <3>4. phaseBar[n] = "fresh" BY <3>1 DEF phaseBar, Issued
    <3>5. phaseBar' = [phaseBar EXCEPT ![n] = "live"]
      BY <3>1, <3>2 DEF phaseBar, IInv, TypeOK
    <3>6. parentBar' = [parentBar EXCEPT ![n] = p]
      BY <3>1, <3>2, <3>3 DEF parentBar
    <3>7. CASE p = None
      <4>1. parentBar' = parentBar
        BY <3>1, <3>6, <3>7 DEF parentBar
      <4>2. Lineage!Open(n) BY <3>4, <3>5, <4>1 DEF Lineage!Open
      <4> QED BY <3>1, <4>2 DEF Lineage!Next
    <3>8. CASE p # None
      <4>1. phaseBar[p] = "dead"
        BY <3>1, <3>8 DEF phaseBar, Issued, IInv, TypeOK, RowStates
      <4>2. Lineage!Cardinality(Lineage!Successors(p)) < Cardinality(Requests)
        BY <2>1, <3>8, RoomForSuccessor DEF Cardinality, Lineage!Cardinality
      <4>3. Lineage!Succeed(p, n)
        BY <3>4, <3>5, <3>6, <4>1, <4>2 DEF Lineage!Succeed
      <4>4. n \in Tokens /\ p \in Tokens BY <3>1, <3>8
      <4>5. \E q, t \in Tokens : Lineage!Succeed(q, t)
        <5> HIDE DEF n, p
        <5> QED BY <4>3, <4>4, Zenon
      <4> QED BY <4>5 DEF Lineage!Next
    <3> QED BY <3>7, <3>8
  <2>2. ASSUME row' = row, \A t \in Issued : claims'[t] = claims[t]
        PROVE  UNCHANGED <<phaseBar, parentBar>>
    BY <2>2 DEF phaseBar, parentBar, Issued
  <2>3. ASSUME Issued' = Issued, claims' = claims,
               \A t \in Tokens : row'[t] # row[t] =>
                 t \in Stored /\ row'[t] \in {"revoked", "purged"}
        PROVE  Lineage!Next
    <3> DEFINE S == {t \in Live : row'[t] # "live"}
    <3>1. parentBar' = parentBar BY <2>3 DEF parentBar
    <3>2. \A t \in S : phaseBar[t] = "live" BY DEF phaseBar, Live
    <3>3. phaseBar' = [t \in Tokens |-> IF t \in S THEN "dead" ELSE phaseBar[t]]
      <4> SUFFICES ASSUME NEW t \in Tokens
                   PROVE  phaseBar'[t] = IF t \in S THEN "dead" ELSE phaseBar[t]
        BY DEF phaseBar
      <4>1. CASE row'[t] = row[t] BY <4>1 DEF phaseBar, Live
      <4>2. CASE row'[t] # row[t] BY <4>2, <2>3 DEF phaseBar, Live, Stored
      <4> QED BY <4>1, <4>2
    <3>4. Lineage!Kill(S) BY <3>1, <3>2, <3>3 DEF Lineage!Kill
    <3>5. S \in SUBSET Tokens BY DEF Live
    <3> QED BY <3>4, <3>5 DEF Lineage!Next
  <2>4. ASSUME NEW r \in Requests, NEW u \in Users, Login(r, u)
        PROVE  UNCHANGED <<phaseBar, parentBar>>
    BY <2>2, <2>4 DEF Login, Generate, IInv, RowInv, TypeOK, Issued
  <2>5. ASSUME NEW r \in Requests, RefreshLookup(r)
        PROVE  UNCHANGED <<phaseBar, parentBar>>
    BY <2>2, <2>5 DEF RefreshLookup, Generate, IInv, RowInv, TypeOK, Issued
  <2>6. ASSUME NEW r \in Requests, RefreshRevoke(r) PROVE Lineage!Next
    BY <2>3, <2>6 DEF RefreshRevoke, IInv, TypeOK, Issued, Stored
  <2>7. ASSUME NEW u \in Users, Logout(u) PROVE Lineage!Next
    BY <2>3, <2>7 DEF Logout, IInv, TypeOK, Issued, Stored
  <2>8. ASSUME Cleanup PROVE Lineage!Next
    BY <2>3, <2>8 DEF Cleanup, Purgeable, IInv, TypeOK, Issued, Stored
  <2> QED
    BY <2>1, <2>2, <2>4, <2>5, <2>6, <2>7, <2>8
       DEF Next, vars, RefreshVerify, RefreshReject, Fail, Crash,
           ChangePassword, Tick
<1> QED BY <1>1, <1>2, Inductive, PTL DEF Spec, ImplementsLineage, Lineage!Spec
=============================================================================
