-------------------------- MODULE AuditServiceProofs --------------------------
(***************************************************************************)
(* Safety of AuditService for any number of requests and workers and any   *)
(* channel capacity.  One inductive invariant, AInv, carries all results.  *)
(***************************************************************************)
EXTENDS AuditService, TLAPS

\* An entry has a fate exactly when Log was called for it.
FateInv ==
  \A r \in Requests : fate[r] # "none" <=> handler[r] \in {"logged", "done"}

\* A connection is open or abandoned while its handler is on its way, and is
\* answered only by a handler that has finished.
ConnInv ==
  \A r \in Requests :
    /\ conn[r] = "none" <=> handler[r] = "new"
    /\ conn[r] = "answered" => handler[r] \in {"done", "failed"}

\* Only cancel() makes a worker leave its loop, and only an empty-handed
\* worker stops.
WorkerInv ==
  \A w \in Workers :
    /\ worker[w].pc # "select" => cancelled
    /\ worker[w].pc = "stopped" => worker[w].entry = None

\* What main() has established when it reaches each point of its shutdown.
MainInv ==
  /\ main \in {"serving", "draining", "drained", "jobless"} => ~cancelled
  /\ main \in {"waiting", "closing", "closed"} => cancelled
  /\ cancelled => main \notin {"serving", "draining", "drained", "jobless"}
  /\ main \notin {"serving", "draining"} /\ trouble \cap {"forced", "crash"} = {}
       => AllIdle
  /\ "crash" \in trouble => ~Up
  /\ main \in {"closing", "closed", "exited"}
       /\ trouble \cap {"impatient", "crash"} = {} => AllStopped

\* Late entries and dropped ones come from handlers nobody waited for.
LateInv ==
  \A r \in Requests :
    r \in late \/ fate[r] = "shutdown"
      => conn[r] = "abandoned" \/ "forced" \in trouble

\* main() goes on, and so closes the database, only when no job runs; a crash
\* leaves the database open.
JobInv ==
  /\ main \in {"jobless", "waiting", "closing", "closed"} => job = "idle"
  /\ db = "closed" => job = "idle" /\ main \in {"closed", "exited"}

AInv ==
  /\ TypeOK
  /\ OneHolder
  /\ FateInv
  /\ ConnInv
  /\ WorkerInv
  /\ MainInv
  /\ LateInv
  /\ StrandedOnlyLate
  /\ JobInv

-----------------------------------------------------------------------------
LEMMA InitAInv == Init => AInv
<1> SUFFICES ASSUME Init PROVE AInv OBVIOUS
<1>1. TypeOK
  <2>1. buffer \in Seq(Requests) /\ Len(buffer) <= BufferSize
    BY BufferAssumption DEF Init
  <2>2. worker \in [Workers -> WorkerStates] BY DEF Init, WorkerStates
  <2> QED BY <2>1, <2>2
          DEF Init, TypeOK, HandlerStates, ConnStates, Fates, MainStates, Troubles
<1>2. OneHolder
  <2>1. buffer = <<>> /\ DOMAIN buffer = {} BY DEF Init
  <2>2. \A r \in Requests : ~Buffered(r) BY <2>1 DEF Buffered
  <2>3. \A r \in Requests : TakenBy(r) = {}
    BY NoneAssumption DEF Init, TakenBy
  <2> QED BY <2>1, <2>2, <2>3 DEF Init, OneHolder
<1>3. FateInv /\ ConnInv /\ WorkerInv /\ LateInv
  BY DEF Init, FateInv, ConnInv, WorkerInv, LateInv
<1>4. MainInv
  BY DEF Init, MainInv, AllIdle, AllStopped, Up
<1>5. StrandedOnlyLate
  BY DEF Init, StrandedOnlyLate
<1>6. JobInv
  BY DEF Init, JobInv
<1> QED BY <1>1, <1>2, <1>3, <1>4, <1>5, <1>6 DEF AInv

\* Steps that only move the handler of r and its connection keep AInv.
LEMMA HandlerMoves ==
  ASSUME AInv, NEW r \in Requests,
         Accept(r) \/ Commit(r) \/ Reject(r) \/ Reply(r) \/ Timeout(r)
  PROVE  AInv'
<1> USE DEF Accept, Commit, Reject, Reply, Timeout
<1>1. TypeOK'
  BY DEF AInv, TypeOK, HandlerStates, ConnStates
<1>2. OneHolder'
  BY DEF AInv, OneHolder, Buffered, TakenBy
<1>3. FateInv'
  BY DEF AInv, TypeOK, FateInv, HandlerStates
<1>4. ConnInv'
  BY DEF AInv, TypeOK, ConnInv, HandlerStates, ConnStates
<1>5. WorkerInv'
  BY DEF AInv, WorkerInv
<1>6. MainInv'
  BY DEF AInv, TypeOK, MainInv, AllIdle, AllStopped, Up
<1>7. LateInv'
  BY DEF AInv, TypeOK, LateInv, ConnInv, FateInv, HandlerStates
<1>8. StrandedOnlyLate'
  BY DEF AInv, StrandedOnlyLate, AllStopped
<1>9. JobInv'
  BY DEF AInv, JobInv
<1> QED BY <1>1, <1>2, <1>3, <1>4, <1>5, <1>6, <1>7, <1>8, <1>9 DEF AInv

\* Once cancel() ran, a handler that still has to log is one nobody waits for.
LEMMA LogAfterCancel ==
  ASSUME AInv, NEW r \in Requests, Up, cancelled, handler[r] = "committed"
  PROVE  conn[r] = "abandoned" \/ "forced" \in trouble
<1>1. main \in {"waiting", "closing", "closed"} /\ "crash" \notin trouble
  BY DEF AInv, TypeOK, MainInv, MainStates, Up
<1>2. "forced" \notin trouble => conn[r] # "open"
  BY <1>1 DEF AInv, MainInv, AllIdle
<1> QED BY <1>2 DEF AInv, ConnInv, TypeOK, ConnStates

LEMMA LogStep ==
  ASSUME AInv, NEW r \in Requests, Log(r)
  PROVE  AInv'
<1>1. /\ handler' = [handler EXCEPT ![r] = "logged"] /\ handler[r] = "committed"
      /\ UNCHANGED <<conn, worker, cancelled, main, db, trouble, job>> /\ Up
  BY DEF Log
<1>2. fate[r] = "none" /\ ~Buffered(r) /\ TakenBy(r) = {}
  BY <1>1 DEF AInv, FateInv, OneHolder
<1>3. CASE Enqueue(r)
  <2>1. /\ buffer' = Append(buffer, r) /\ Len(buffer) < BufferSize
        /\ fate' = [fate EXCEPT ![r] = "queued"]
        /\ late' = IF cancelled THEN late \cup {r} ELSE late
    BY <1>3 DEF Enqueue, HasRoom
  <2>2. /\ buffer' \in Seq(Requests) /\ Len(buffer') = Len(buffer) + 1
        /\ DOMAIN buffer' = 1..Len(buffer) + 1 /\ DOMAIN buffer = 1..Len(buffer)
        /\ \A i \in 1..Len(buffer) : buffer'[i] = buffer[i]
        /\ buffer'[Len(buffer) + 1] = r /\ Len(buffer) \in Nat
    BY <2>1 DEF AInv, TypeOK
  <2>3. TypeOK'
    BY <1>1, <2>1, <2>2, BufferAssumption DEF AInv, TypeOK, HandlerStates, Fates
  <2>4. OneHolder'
    <3>1. \A q \in Requests : Buffered(q)' <=> Buffered(q) \/ q = r
      BY <2>2 DEF Buffered
    <3>2. \A q \in Requests : TakenBy(q)' = TakenBy(q)
      BY <1>1 DEF TakenBy
    <3>3. \A i, j \in DOMAIN buffer' : buffer'[i] = buffer'[j] => i = j
      BY <1>2, <2>2 DEF AInv, OneHolder, Buffered
    <3>4. \A q \in Requests : fate'[q] = IF q = r THEN "queued" ELSE fate[q]
      BY <2>1 DEF AInv, TypeOK
    <3> QED BY <3>1, <3>2, <3>3, <3>4, <1>2 DEF AInv, OneHolder
  <2>5. FateInv' /\ ConnInv' /\ WorkerInv'
    BY <1>1, <2>1 DEF AInv, TypeOK, FateInv, ConnInv, WorkerInv, HandlerStates
  <2>6. MainInv' /\ JobInv'
    BY <1>1 DEF AInv, MainInv, AllIdle, AllStopped, Up, JobInv
  <2>7. LateInv'
    BY <1>1, <2>1, LogAfterCancel DEF AInv, TypeOK, LateInv
  <2>8. StrandedOnlyLate'
    BY <1>1, <2>1, <2>2, WorkersAssumption
       DEF AInv, StrandedOnlyLate, AllStopped, WorkerInv, TypeOK
  <2> QED BY <2>3, <2>4, <2>5, <2>6, <2>7, <2>8 DEF AInv
<1>4. CASE DropForShutdown(r) \/ DropForSpace(r)
  <2>1. /\ fate' = [fate EXCEPT ![r] = IF cancelled THEN "shutdown" ELSE "full"]
        /\ UNCHANGED <<buffer, late>>
    BY <1>4 DEF DropForShutdown, DropForSpace
  <2>2. TypeOK'
    BY <1>1, <2>1 DEF AInv, TypeOK, HandlerStates, Fates
  <2>3. OneHolder'
    BY <1>1, <1>2, <2>1 DEF AInv, TypeOK, OneHolder, Buffered, TakenBy
  <2>4. FateInv' /\ ConnInv' /\ WorkerInv'
    BY <1>1, <2>1 DEF AInv, TypeOK, FateInv, ConnInv, WorkerInv, HandlerStates
  <2>5. MainInv' /\ JobInv'
    BY <1>1 DEF AInv, MainInv, AllIdle, AllStopped, Up, JobInv
  <2>6. LateInv'
    BY <1>1, <2>1, LogAfterCancel DEF AInv, TypeOK, LateInv
  <2>7. StrandedOnlyLate'
    BY <1>1, <2>1 DEF AInv, StrandedOnlyLate, AllStopped
  <2> QED BY <2>2, <2>3, <2>4, <2>5, <2>6, <2>7 DEF AInv
<1> QED BY <1>3, <1>4 DEF Log

LEMMA TakeStep ==
  ASSUME AInv, NEW w \in Workers, Take(w)
  PROVE  AInv'
<1> DEFINE r == Head(buffer)
<1>1. /\ worker' = [worker EXCEPT ![w].entry = r] /\ buffer' = Tail(buffer)
      /\ buffer # <<>> /\ worker[w].pc # "stopped" /\ worker[w].entry = None
      /\ UNCHANGED <<handler, conn, cancelled, fate, main, db, late, trouble, job>>
  BY DEF Take
<1>2. /\ buffer \in Seq(Requests) /\ Len(buffer) \in Nat /\ Len(buffer) > 0
      /\ r \in Requests /\ buffer[1] = r
      /\ buffer' \in Seq(Requests) /\ Len(buffer') = Len(buffer) - 1
      /\ DOMAIN buffer = 1..Len(buffer) /\ DOMAIN buffer' = 1..Len(buffer) - 1
      /\ \A i \in 1..Len(buffer) - 1 : buffer'[i] = buffer[i + 1]
  BY <1>1 DEF AInv, TypeOK
<1> HIDE DEF r
<1>3. TypeOK'
  BY <1>1, <1>2, BufferAssumption DEF AInv, TypeOK, WorkerStates
<1>4. OneHolder'
  <2>1. \A q \in Requests : Buffered(q)' <=> Buffered(q) /\ q # r
    <3> SUFFICES ASSUME NEW q \in Requests
                 PROVE  Buffered(q)' <=> Buffered(q) /\ q # r
      OBVIOUS
    <3>1. ASSUME Buffered(q)' PROVE Buffered(q) /\ q # r
      <4>1. PICK i \in DOMAIN buffer' : buffer'[i] = q BY <3>1 DEF Buffered
      <4>2. i + 1 \in DOMAIN buffer /\ buffer[i + 1] = q /\ i + 1 # 1
        BY <4>1, <1>2
      <4>3. 1 \in DOMAIN buffer BY <1>2
      <4>4. q # r BY <4>2, <4>3, <1>2 DEF AInv, OneHolder
      <4> QED BY <4>2, <4>4 DEF Buffered
    <3>2. ASSUME Buffered(q), q # r PROVE Buffered(q)'
      <4>1. PICK i \in DOMAIN buffer : buffer[i] = q BY <3>2 DEF Buffered
      <4>2. i # 1 BY <4>1, <3>2, <1>2
      <4>3. i - 1 \in DOMAIN buffer' /\ buffer'[i - 1] = q
        BY <4>1, <4>2, <1>2
      <4> QED BY <4>3 DEF Buffered
    <3> QED BY <3>1, <3>2
  <2>2. \A q \in Requests :
          TakenBy(q)' = IF q = r THEN TakenBy(q) \cup {w} ELSE TakenBy(q)
    BY <1>1, <1>2, NoneAssumption DEF TakenBy, AInv, TypeOK, WorkerStates
  <2>3. Buffered(r) BY <1>2 DEF Buffered
  <2>4. \A i, j \in DOMAIN buffer' : buffer'[i] = buffer'[j] => i = j
    <3> SUFFICES ASSUME NEW i \in DOMAIN buffer', NEW j \in DOMAIN buffer',
                        buffer'[i] = buffer'[j]
                 PROVE  i = j
      OBVIOUS
    <3>1. i + 1 \in DOMAIN buffer /\ j + 1 \in DOMAIN buffer
          /\ buffer[i + 1] = buffer[j + 1]
      BY <1>2
    <3>2. i + 1 = j + 1 BY <3>1 DEF AInv, OneHolder
    <3> QED BY <3>2, <1>2
  <2>5. \A q \in Requests : fate'[q] = fate[q] BY <1>1
  <2>6. \A q \in Requests : /\ fate'[q] = "queued" <=> Buffered(q)' \/ TakenBy(q)' # {}
                            /\ Buffered(q)' => TakenBy(q)' = {}
                            /\ \A v, u \in TakenBy(q)' : v = u
    <3> SUFFICES ASSUME NEW q \in Requests
                 PROVE  /\ fate'[q] = "queued" <=> Buffered(q)' \/ TakenBy(q)' # {}
                        /\ Buffered(q)' => TakenBy(q)' = {}
                        /\ \A v, u \in TakenBy(q)' : v = u
      OBVIOUS
    <3>1. /\ fate[q] = "queued" <=> Buffered(q) \/ TakenBy(q) # {}
          /\ Buffered(q) => TakenBy(q) = {}
          /\ \A v, u \in TakenBy(q) : v = u
      BY DEF AInv, OneHolder
    <3>2. CASE q = r BY <2>1, <2>2, <2>3, <2>5, <3>1, <3>2
    <3>3. CASE q # r BY <2>1, <2>2, <2>5, <3>1, <3>3
    <3> QED BY <3>2, <3>3
  <2> QED BY <2>4, <2>6 DEF OneHolder
<1>5. FateInv' /\ ConnInv' /\ LateInv'
  BY <1>1 DEF AInv, FateInv, ConnInv, LateInv
<1>6. WorkerInv' /\ (AllStopped' <=> AllStopped)
  BY <1>1 DEF AInv, WorkerInv, TypeOK, WorkerStates, AllStopped
<1>7. MainInv' /\ JobInv'
  BY <1>1, <1>6 DEF AInv, MainInv, AllIdle, Up, JobInv
<1>8. ~AllStopped'
  BY <1>1, <1>6 DEF AllStopped
<1> QED BY <1>3, <1>4, <1>5, <1>6, <1>7, <1>8 DEF AInv, StrandedOnlyLate

LEMMA WriteStep ==
  ASSUME AInv, NEW w \in Workers, Write(w)
  PROVE  AInv'
<1> DEFINE r == worker[w].entry
<1>1. PICK result \in {"written", "unwritten"} :
        fate' = [fate EXCEPT ![r] = result]
  BY DEF Write
<1>2. /\ worker' = [worker EXCEPT ![w].entry = None] /\ r # None
      /\ UNCHANGED <<handler, conn, buffer, cancelled, main, db, late, trouble, job>>
  BY DEF Write
<1>3. r \in Requests
  BY <1>2 DEF AInv, TypeOK, WorkerStates
<1>4. TakenBy(r) = {w} /\ fate[r] = "queued" /\ ~Buffered(r)
  BY <1>3 DEF AInv, OneHolder, TakenBy
<1>5. TypeOK'
  BY <1>1, <1>2, <1>3 DEF AInv, TypeOK, WorkerStates, Fates
<1>6. OneHolder'
  <2>1. \A q \in Requests : Buffered(q)' <=> Buffered(q)
    BY <1>2 DEF Buffered
  <2>2. \A q \in Requests : TakenBy(q)' = IF q = r THEN {} ELSE TakenBy(q)
    BY <1>2, <1>3, <1>4, NoneAssumption DEF TakenBy, AInv, TypeOK, WorkerStates
  <2>3. \A q \in Requests : fate'[q] = IF q = r THEN result ELSE fate[q]
    BY <1>1, <1>3 DEF AInv, TypeOK
  <2> QED BY <2>1, <2>2, <2>3, <1>2, <1>4 DEF AInv, OneHolder
<1>7. FateInv' /\ ConnInv' /\ LateInv'
  BY <1>1, <1>2, <1>3, <1>4 DEF AInv, TypeOK, FateInv, ConnInv, LateInv
<1>8. WorkerInv' /\ (AllStopped' <=> AllStopped)
  BY <1>2 DEF AInv, WorkerInv, TypeOK, WorkerStates, AllStopped
<1>9. MainInv' /\ StrandedOnlyLate' /\ JobInv'
  BY <1>2, <1>8 DEF AInv, MainInv, AllIdle, Up, StrandedOnlyLate, JobInv
<1> QED BY <1>5, <1>6, <1>7, <1>8, <1>9 DEF AInv

\* An empty-handed worker moves from select to drain or from drain to stopped.
LEMMA LeaveStep ==
  ASSUME AInv, NEW w \in Workers, SeeCancel(w) \/ StopWorker(w)
  PROVE  AInv'
<1>1. PICK pc \in {"drain", "stopped"} : worker' = [worker EXCEPT ![w].pc = pc]
  BY DEF SeeCancel, StopWorker
<1>2. /\ worker[w].entry = None /\ cancelled /\ worker[w].pc # "stopped"
      /\ StopWorker(w) => buffer = <<>>
      /\ SeeCancel(w) => worker'[w].pc = "drain"
      /\ UNCHANGED <<handler, conn, buffer, cancelled, fate, main, db, late, trouble,
                     job>>
  BY DEF SeeCancel, StopWorker, AInv, WorkerInv, TypeOK, WorkerStates
<1>3. TypeOK'
  BY <1>1, <1>2 DEF AInv, TypeOK, WorkerStates
<1>4. OneHolder'
  <2>1. \A q \in Requests : TakenBy(q)' = TakenBy(q)
    BY <1>1 DEF TakenBy, AInv, TypeOK, WorkerStates
  <2> QED BY <2>1, <1>2 DEF AInv, OneHolder, Buffered
<1>5. FateInv' /\ ConnInv' /\ LateInv' /\ WorkerInv'
  BY <1>1, <1>2 DEF AInv, FateInv, ConnInv, LateInv, WorkerInv, TypeOK, WorkerStates
<1>6. ~AllStopped
  BY <1>2 DEF AllStopped
<1>7. MainInv' /\ JobInv'
  BY <1>2, <1>6 DEF AInv, MainInv, AllIdle, AllStopped, Up, JobInv
<1>8. StrandedOnlyLate'
  BY <1>2 DEF StrandedOnlyLate, AllStopped
<1> QED BY <1>3, <1>4, <1>5, <1>7, <1>8 DEF AInv

LEMMA MainMoves ==
  ASSUME AInv,
         \/ StartJob \/ EndJob
         \/ Signal \/ Drained \/ JobsEnded \/ Cancel \/ Waited \/ CloseDB \/ Exit
         \/ Crash
  PROVE  AInv'
<1> USE DEF StartJob, EndJob, Signal, Drained, JobsEnded, Cancel, Waited, CloseDB,
            Exit, Crash
<1>1. UNCHANGED <<handler, conn, buffer, worker, fate, late>>
      /\ trouble \subseteq trouble' /\ (cancelled => cancelled')
  OBVIOUS
<1>2. TypeOK'
  BY <1>1 DEF AInv, TypeOK, MainStates, Troubles
<1>3. OneHolder'
  BY <1>1 DEF AInv, OneHolder, Buffered, TakenBy
<1>4. FateInv' /\ ConnInv' /\ LateInv' /\ WorkerInv'
  BY <1>1 DEF AInv, FateInv, ConnInv, LateInv, WorkerInv
<1>5. MainInv'
  BY <1>1 DEF AInv, MainInv, AllIdle, AllStopped, Up, TypeOK, MainStates
<1>6. StrandedOnlyLate'
  BY <1>1 DEF AInv, StrandedOnlyLate, AllStopped
<1>7. JobInv'
  BY DEF AInv, JobInv, Up
<1> QED BY <1>2, <1>3, <1>4, <1>5, <1>6, <1>7 DEF AInv

THEOREM AuditInductive == Spec => []AInv
<1>1. AInv /\ [Next]_vars => AInv'
  <2> SUFFICES ASSUME AInv, [Next]_vars PROVE AInv' OBVIOUS
  <2>1. CASE UNCHANGED vars
    BY <2>1 DEF vars, AInv, TypeOK, OneHolder, Buffered, TakenBy, FateInv, ConnInv,
       WorkerInv, MainInv, LateInv, StrandedOnlyLate, AllIdle, AllStopped, Up, JobInv
  <2>2. CASE Next
    BY <2>2, HandlerMoves, LogStep, TakeStep, WriteStep, LeaveStep, MainMoves DEF Next
  <2> QED BY <2>1, <2>2
<1> QED BY InitAInv, <1>1, PTL DEF Spec

-----------------------------------------------------------------------------
THEOREM AuditTypeCorrect == Spec => []TypeOK
BY AuditInductive, PTL DEF AInv

\* Every queued entry is in exactly one place.
THEOREM EntriesHaveOneHolder == Spec => []OneHolder
BY AuditInductive, PTL DEF AInv

\* A cleanup job never finds the database closed by the shutdown.
THEOREM JobsKeepTheirDatabase == Spec => []DatabaseOutlivesJobs
<1>1. AInv => DatabaseOutlivesJobs
  BY DEF AInv, JobInv, TypeOK, DatabaseOutlivesJobs
<1> QED BY <1>1, AuditInductive, PTL

\* The drain leaves nothing behind that Shutdown had seen.
THEOREM DrainIsComplete == Spec => []StrandedOnlyLate
BY AuditInductive, PTL DEF AInv

\* Only handlers that nobody waited for lose their entry to the shutdown.
THEOREM ShutdownLosesOnlyAbandoned == Spec => []LostOnlyInTrouble
<1>1. AInv => LostOnlyInTrouble BY DEF AInv, LateInv, LostOnlyInTrouble
<1> QED BY <1>1, AuditInductive, PTL

\* A shutdown that no timeout cut short accounts for every change it made.
THEOREM QuietShutdownLosesNothing == Spec => []QuietShutdownIsComplete
<1>1. AInv => QuietShutdownIsComplete
  <2> SUFFICES ASSUME AInv, main = "exited", trouble = {},
                      \A q \in Requests : conn[q] # "abandoned",
                      NEW r \in Requests
               PROVE  /\ handler[r] \in {"new", "failed", "done"}
                      /\ handler[r] = "done" => fate[r] \in {"written", "unwritten", "full"}
    BY DEF QuietShutdownIsComplete
  <2>1. AllIdle /\ AllStopped BY DEF AInv, MainInv
  <2>2. handler[r] \in {"new", "failed", "done"}
    BY <2>1 DEF AllIdle, AInv, TypeOK, ConnInv, ConnStates
  <2>3. fate[r] # "shutdown" /\ r \notin late BY DEF AInv, LateInv
  <2>4. ~Buffered(r) BY <2>1, <2>3 DEF AInv, StrandedOnlyLate, Buffered
  <2>5. TakenBy(r) = {}
    BY <2>1, NoneAssumption DEF AllStopped, TakenBy, AInv, WorkerInv
  <2>6. fate[r] # "queued" BY <2>4, <2>5 DEF AInv, OneHolder
  <2>7. handler[r] = "done" => fate[r] # "none" BY DEF AInv, FateInv
  <2> QED BY <2>2, <2>3, <2>6, <2>7 DEF AInv, TypeOK, Fates
<1> QED BY <1>1, AuditInductive, PTL
=============================================================================
