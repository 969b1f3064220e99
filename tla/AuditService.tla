----------------------------- MODULE AuditService -----------------------------
(***************************************************************************)
(* The audit trail of sekre-backend (pkg/audit) together with the two      *)
(* things that decide what reaches it: the Timeout middleware, which gives *)
(* up on a handler without stopping it, and the shutdown sequence of       *)
(* cmd/api/main.go, which waits for connections, then for the scheduler's  *)
(* running jobs, then for the audit workers, and then closes the database. *)
(*                                                                         *)
(* A request is one audited change.  Its handler commits the change, calls *)
(* Service.Log and writes the reply; a bounded channel carries the entry   *)
(* to a pool of workers that insert it into audit_logs.                    *)
(***************************************************************************)
EXTENDS Naturals, Sequences

CONSTANTS
  Requests,    \* audited requests; each one is accepted at most once
  Workers,     \* Config.Workers goroutines
  BufferSize,  \* Config.BufferSize
  None         \* no entry

ASSUME BufferAssumption == BufferSize \in Nat \ {0}
ASSUME NoneAssumption == None \notin Requests
ASSUME WorkersAssumption == Workers # {}

VARIABLES
  handler,    \* handler[r]: where the handler goroutine of r is
  conn,       \* conn[r]: the connection r came on, as net/http sees it
  buffer,     \* Service.buffer
  worker,     \* worker[w]: loop position and the entry being written
  cancelled,  \* Service.ctx is done
  fate,       \* fate[r]: what became of the entry of r
  main,       \* where main() is in its shutdown sequence
  db,         \* the connection pool: "open" or "closed"
  late,       \* history: entries buffered after cancel
  trouble,    \* history: how the shutdown was cut short
  job         \* a cleanup job of the scheduler: "idle" or "running"

vars == <<handler, conn, buffer, worker, cancelled, fate, main, db, late, trouble,
          job>>

HandlerStates == {"new", "running", "committed", "logged", "done", "failed"}
ConnStates == {"none", "open", "answered", "abandoned"}
Fates == {"none", "queued", "written", "unwritten", "full", "shutdown"}
WorkerStates == [pc : {"select", "drain", "stopped"}, entry : Requests \cup {None}]
MainStates == {"serving", "draining", "drained", "jobless", "waiting", "closing",
               "closed", "exited"}
Troubles == {"forced", "impatient", "crash"}

Init ==
  /\ handler = [r \in Requests |-> "new"]
  /\ conn = [r \in Requests |-> "none"]
  /\ buffer = <<>>
  /\ worker = [w \in Workers |-> [pc |-> "select", entry |-> None]]
  /\ cancelled = FALSE
  /\ fate = [r \in Requests |-> "none"]
  /\ main = "serving"
  /\ db = "open"
  /\ late = {}
  /\ trouble = {}
  /\ job = "idle"

Up == main # "exited"

-----------------------------------------------------------------------------
(***************************************************************************)
(* Handlers.  The change is the handler's last statement; it may already   *)
(* be on its way when the deadline passes, so a commit does not need the   *)
(* connection, only the database.                                          *)
(***************************************************************************)
Accept(r) ==
  /\ main = "serving"
  /\ handler[r] = "new"
  /\ handler' = [handler EXCEPT ![r] = "running"]
  /\ conn' = [conn EXCEPT ![r] = "open"]
  /\ UNCHANGED <<buffer, worker, cancelled, fate, main, db, late, trouble, job>>

Commit(r) ==
  /\ Up
  /\ handler[r] = "running"
  /\ db = "open"
  /\ handler' = [handler EXCEPT ![r] = "committed"]
  /\ UNCHANGED <<conn, buffer, worker, cancelled, fate, main, db, late, trouble, job>>

\* The use case returned an error: nothing is logged.
Reject(r) ==
  /\ Up
  /\ handler[r] = "running"
  /\ handler' = [handler EXCEPT ![r] = "failed"]
  /\ conn' = [conn EXCEPT ![r] = IF @ = "open" THEN "answered" ELSE @]
  /\ UNCHANGED <<buffer, worker, cancelled, fate, main, db, late, trouble, job>>

\* Mutant of HasRoom: one entry too many.
HasRoomForOneMore == Len(buffer) <= BufferSize

HasRoom == Len(buffer) < BufferSize

(***************************************************************************)
(* Log: a select over "send", "ctx done" and default.  Go picks at random  *)
(* among the cases that are ready and takes default only if none is.       *)
(***************************************************************************)
Enqueue(r) ==
  /\ HasRoom
  /\ buffer' = Append(buffer, r)
  /\ fate' = [fate EXCEPT ![r] = "queued"]
  /\ late' = IF cancelled THEN late \cup {r} ELSE late

DropForShutdown(r) ==
  /\ cancelled
  /\ fate' = [fate EXCEPT ![r] = "shutdown"]
  /\ UNCHANGED <<buffer, late>>

DropForSpace(r) ==
  /\ ~HasRoom
  /\ ~cancelled
  /\ fate' = [fate EXCEPT ![r] = "full"]
  /\ UNCHANGED <<buffer, late>>

Log(r) ==
  /\ Up
  /\ handler[r] = "committed"
  /\ Enqueue(r) \/ DropForShutdown(r) \/ DropForSpace(r)
  /\ handler' = [handler EXCEPT ![r] = "logged"]
  /\ UNCHANGED <<conn, worker, cancelled, main, db, trouble, job>>

Reply(r) ==
  /\ Up
  /\ handler[r] = "logged"
  /\ handler' = [handler EXCEPT ![r] = "done"]
  /\ conn' = [conn EXCEPT ![r] = IF @ = "open" THEN "answered" ELSE @]
  /\ UNCHANGED <<buffer, worker, cancelled, fate, main, db, late, trouble, job>>

(***************************************************************************)
(* Timeout: the deadline passed (408 is written) or the client went away;  *)
(* either way ServeHTTP returns, which ends the connection for net/http,   *)
(* and the handler goroutine goes on.                                      *)
(***************************************************************************)
Timeout(r) ==
  /\ Up
  /\ conn[r] = "open"
  /\ conn' = [conn EXCEPT ![r] = "abandoned"]
  /\ UNCHANGED <<handler, buffer, worker, cancelled, fate, main, db, late, trouble, job>>

-----------------------------------------------------------------------------
(* Workers: worker, processEntry and drainBuffer. *)

\* Mutant of Take: the entry is looked at but not received.
TakePeek(w) ==
  /\ Up
  /\ worker[w].pc # "stopped" /\ worker[w].entry = None
  /\ buffer # <<>>
  /\ worker' = [worker EXCEPT ![w].entry = Head(buffer)]
  /\ UNCHANGED <<handler, conn, buffer, cancelled, fate, main, db, late, trouble, job>>

Take(w) ==
  /\ Up
  /\ worker[w].pc # "stopped" /\ worker[w].entry = None
  /\ buffer # <<>>
  /\ worker' = [worker EXCEPT ![w].entry = Head(buffer)]
  /\ buffer' = Tail(buffer)
  /\ UNCHANGED <<handler, conn, cancelled, fate, main, db, late, trouble, job>>

\* repo.Create may fail; the error is logged and the entry is gone.
Write(w) ==
  /\ Up
  /\ worker[w].entry # None
  /\ \E result \in (IF db = "open" THEN {"written"} ELSE {}) \cup {"unwritten"} :
       fate' = [fate EXCEPT ![worker[w].entry] = result]
  /\ worker' = [worker EXCEPT ![w].entry = None]
  /\ UNCHANGED <<handler, conn, buffer, cancelled, main, db, late, trouble, job>>

\* Mutant of SeeCancel: an empty channel ends the loop, as in drainBuffer.
SeeCancelOrEmpty(w) ==
  /\ Up
  /\ worker[w] = [pc |-> "select", entry |-> None]
  /\ cancelled \/ buffer = <<>>
  /\ worker' = [worker EXCEPT ![w].pc = "drain"]
  /\ UNCHANGED <<handler, conn, buffer, cancelled, fate, main, db, late, trouble, job>>

\* The select in worker sees ctx.Done, possibly while entries are waiting.
SeeCancel(w) ==
  /\ Up
  /\ worker[w] = [pc |-> "select", entry |-> None]
  /\ cancelled
  /\ worker' = [worker EXCEPT ![w].pc = "drain"]
  /\ UNCHANGED <<handler, conn, buffer, cancelled, fate, main, db, late, trouble, job>>

StopWorker(w) ==
  /\ Up
  /\ worker[w] = [pc |-> "drain", entry |-> None]
  /\ buffer = <<>>
  /\ worker' = [worker EXCEPT ![w].pc = "stopped"]
  /\ UNCHANGED <<handler, conn, buffer, cancelled, fate, main, db, late, trouble, job>>

-----------------------------------------------------------------------------
(***************************************************************************)
(* The nightly cleanup of sessions and of audit_logs: one DELETE without a *)
(* context on a connection without statement_timeout, so nothing bounds    *)
(* its end.  cron starts no job once main() has called sched.Stop().       *)
(***************************************************************************)
StartJob ==
  /\ main \in {"serving", "draining"}
  /\ job = "idle"
  /\ job' = "running"
  /\ UNCHANGED <<handler, conn, buffer, worker, cancelled, fate, main, db, late, trouble>>

EndJob ==
  /\ Up
  /\ job = "running"
  /\ job' = "idle"
  /\ UNCHANGED <<handler, conn, buffer, worker, cancelled, fate, main, db, late, trouble>>

-----------------------------------------------------------------------------
(* main(): signal, server.Shutdown, sched.Stop, audit Shutdown, Close, exit. *)

Signal ==
  /\ main = "serving"
  /\ main' = "draining"
  /\ UNCHANGED <<handler, conn, buffer, worker, cancelled, fate, db, late, trouble, job>>

AllIdle == \A r \in Requests : conn[r] # "open"

\* Mutant of Drained: main does not wait for server.Shutdown.
DrainedAtOnce ==
  /\ main = "draining"
  /\ main' = "drained"
  /\ UNCHANGED <<handler, conn, buffer, worker, cancelled, fate, db, late, trouble, job>>

\* Mutant of Drained: server.Shutdown gets a context without a deadline.
DrainedNoDeadline ==
  /\ main = "draining"
  /\ AllIdle
  /\ main' = "drained"
  /\ UNCHANGED <<handler, conn, buffer, worker, cancelled, fate, db, late, trouble, job>>

\* server.Shutdown returns when every connection is idle, or with an error
\* when SHUTDOWN_TIMEOUT passes first.
Drained ==
  /\ main = "draining"
  /\ main' = "drained"
  /\ trouble' = IF AllIdle THEN trouble ELSE trouble \cup {"forced"}
  /\ UNCHANGED <<handler, conn, buffer, worker, cancelled, fate, db, late, job>>

\* Mutant of JobsEnded: cron.Stop() without waiting for its context.
JobsLeft ==
  /\ main = "drained"
  /\ main' = "jobless"
  /\ UNCHANGED <<handler, conn, buffer, worker, cancelled, fate, db, late, trouble, job>>

\* sched.Stop() returns when no job runs any more, however long that takes.
JobsEnded ==
  /\ main = "drained"
  /\ job = "idle"
  /\ main' = "jobless"
  /\ UNCHANGED <<handler, conn, buffer, worker, cancelled, fate, db, late, trouble, job>>

\* Service.Shutdown begins with cancel().
Cancel ==
  /\ main = "jobless"
  /\ main' = "waiting"
  /\ cancelled' = TRUE
  /\ UNCHANGED <<handler, conn, buffer, worker, fate, db, late, trouble, job>>

AllStopped == \A w \in Workers : worker[w].pc = "stopped"

\* wg.Wait, or time.After(timeout).
Waited ==
  /\ main = "waiting"
  /\ main' = "closing"
  /\ trouble' = IF AllStopped THEN trouble ELSE trouble \cup {"impatient"}
  /\ UNCHANGED <<handler, conn, buffer, worker, cancelled, fate, db, late, job>>

\* sql.DB.Close lets the statements in flight finish.
CloseDB ==
  /\ main = "closing"
  /\ main' = "closed"
  /\ db' = "closed"
  /\ UNCHANGED <<handler, conn, buffer, worker, cancelled, fate, late, trouble, job>>

Exit ==
  /\ main = "closed"
  /\ main' = "exited"
  /\ UNCHANGED <<handler, conn, buffer, worker, cancelled, fate, db, late, trouble, job>>

Crash ==
  /\ Up
  /\ main' = "exited"
  /\ trouble' = trouble \cup {"crash"}
  /\ UNCHANGED <<handler, conn, buffer, worker, cancelled, fate, db, late, job>>

Next ==
  \/ \E r \in Requests :
       \/ Accept(r)
       \/ Commit(r)
       \/ Reject(r)
       \/ Log(r)
       \/ Reply(r)
       \/ Timeout(r)
  \/ \E w \in Workers :
       \/ Take(w)
       \/ Write(w)
       \/ SeeCancel(w)
       \/ StopWorker(w)
  \/ StartJob
  \/ EndJob
  \/ Signal
  \/ Drained
  \/ JobsEnded
  \/ Cancel
  \/ Waited
  \/ CloseDB
  \/ Exit
  \/ Crash

Spec == Init /\ [][Next]_vars

(***************************************************************************)
(* A worker that can move is scheduled, processEntry gives up after five   *)
(* seconds, and server.Shutdown and the wait for the workers have timeouts.*)
(* The wait for the jobs has none: JobsEnded is fair only while no job     *)
(* runs, and no job has to end.  Nor has a request to arrive or finish or  *)
(* a signal to come.                                                       *)
(***************************************************************************)
WorkerStep(w) == Take(w) \/ Write(w) \/ SeeCancel(w) \/ StopWorker(w)
MainStep == Drained \/ JobsEnded \/ Cancel \/ Waited \/ CloseDB \/ Exit

FairSpec == Spec /\ (\A w \in Workers : WF_vars(WorkerStep(w))) /\ WF_vars(MainStep)

-----------------------------------------------------------------------------
(* Properties *)

Buffered(r) == \E i \in DOMAIN buffer : buffer[i] = r
TakenBy(r) == {w \in Workers : worker[w].entry = r}

\* The channel is within its capacity and every variable has its shape.
TypeOK ==
  /\ handler \in [Requests -> HandlerStates]
  /\ conn \in [Requests -> ConnStates]
  /\ buffer \in Seq(Requests) /\ Len(buffer) <= BufferSize
  /\ worker \in [Workers -> WorkerStates]
  /\ cancelled \in BOOLEAN
  /\ fate \in [Requests -> Fates]
  /\ main \in MainStates
  /\ db \in {"open", "closed"}
  /\ late \subseteq Requests
  /\ trouble \subseteq Troubles
  /\ job \in {"idle", "running"}

\* Hand-over: a queued entry is in exactly one place, the channel or the hands
\* of one worker, and nothing else is in either; so no entry is written twice
\* and none is forgotten between the channel and audit_logs.
OneHolder ==
  /\ \A i, j \in DOMAIN buffer : buffer[i] = buffer[j] => i = j
  /\ \A r \in Requests :
       /\ fate[r] = "queued" <=> Buffered(r) \/ TakenBy(r) # {}
       /\ Buffered(r) => TakenBy(r) = {}
       /\ \A v, w \in TakenBy(r) : v = w

\* What a finished drain leaves behind in the channel was put there after the
\* cancel: the workers empty the channel of everything that Shutdown saw.
StrandedOnlyLate ==
  AllStopped => \A i \in DOMAIN buffer : buffer[i] \in late

\* The order main() shuts things down in: as long as server.Shutdown came back
\* with every connection idle and no request had been given up by the Timeout
\* middleware, nothing is logged after cancel, so no entry is lost to it.
QuietShutdownIsComplete ==
  main = "exited" /\ trouble = {} /\ (\A r \in Requests : conn[r] # "abandoned")
    => \A r \in Requests :
         /\ handler[r] \in {"new", "failed", "done"}
         /\ handler[r] = "done" => fate[r] \in {"written", "unwritten", "full"}

\* An entry is lost to the shutdown only when its handler had outlived its
\* connection or a timeout of main() cut a wait short.
LostOnlyInTrouble ==
  \A r \in Requests :
    fate[r] = "shutdown" => conn[r] = "abandoned" \/ "forced" \in trouble

\* A buffered entry is written or its write has failed, unless the process ends.
QueuedIsProcessed ==
  \A r \in Requests : fate[r] = "queued" ~> fate[r] # "queued" \/ ~Up

\* No job of the scheduler finds the database closed under it, in the orderly
\* shutdown and in the forced one: main() closes it after sched.Stop().
DatabaseOutlivesJobs == job = "running" => db = "open"

\* Once the signal is received the process ends, provided the cleanup jobs end:
\* sched.Stop() is the one wait of main() that nothing bounds.
JobsEnd == job = "running" ~> job = "idle" \/ ~Up
ShutdownEnds == JobsEnd => (main = "draining" ~> ~Up)
=============================================================================
