------------------------------ MODULE JobEngine ------------------------------
(***************************************************************************)
(* The job execution engine of the connector: the sync_jobs table, the     *)
(* Celery queue, the worker processes that run execute_flow_job and the    *)
(* API threads that serve POST /flows/{id}/run, POST /jobs/{id}/cancel and *)
(* POST /jobs/{id}/reprocess.                                              *)
(*                                                                         *)
(* Every actor works as the code does, on the row its session loaded: it   *)
(* reads in one step and commits in a later one, and no step locks the row *)
(* or checks a version.  SQLAlchemy writes only the columns whose value    *)
(* differs from the loaded one, so a commit is a merge, column by column,  *)
(* of what the actor changed into what the row holds by then.              *)
(***************************************************************************)
EXTENDS Naturals, FiniteSets

CONSTANTS
  Jobs,          \* job ids: each submission takes one nobody has used (uuid4)
  KeyOf,         \* the idempotency key of the payload submitted as each job
  ReadJobs,      \* the submissions made while the flow runs a read operation
  Workers,       \* worker processes (docker-compose starts one)
  Threads,       \* API threads that serve requests
  Requests,      \* the requests clients send: "run", "cancel", "reprocess"
  SyncModes,     \* the values of the sync flag of run requests
  Faults,        \* the faults that happen: "request", "publish", "commit",
                 \*   "child", "worker" (see the actions that name them)
  MaxAttempts,   \* sync_jobs.max_attempts
  MaxResets,     \* bound: reprocess requests in a behaviour
  MaxFaults,     \* bound: faults in a behaviour
  NoJob

ASSUME MaxAttemptsAssumption == MaxAttempts \in Nat \ {0}
ASSUME ActorsAssumption == Workers \cap Threads = {}
ASSUME NoJobAssumption == NoJob \notin Jobs
ASSUME SyncModesAssumption == SyncModes \subseteq BOOLEAN

VARIABLES
  row,        \* the committed sync_jobs row of each job
  queue,      \* how many messages for each job wait in the broker
  act,        \* what each worker and each API thread is doing
  trail,      \* integration_logs of each job: how many attempts were logged
              \*   since it was created or reset, and the newest log's status
  withdrawn,  \* ghost: jobs whose cancellation was acknowledged and that no
              \*   reprocess has reset since
  syncJobs,   \* ghost: jobs submitted with sync=true and not reset since
  resets,     \* bound counter: reprocess requests so far
  faults      \* bound counter: faults so far

ghosts == <<withdrawn, syncJobs>>
bounds == <<resets, faults>>
vars == <<row, queue, act, trail, ghosts, bounds>>

-----------------------------------------------------------------------------
(* Rows.  "running" is only ever assigned in memory: execute_job replaces it
   before the session flushes, so no committed row holds it. *)

Live == {"pending", "retrying"}
Ended == {"failed", "dead_letter"}
Statuses == Live \cup Ended \cup {"absent", "ignored", "success", "cancelled"}

Rows == [status : Statuses, attempts : Nat, cancel : BOOLEAN]
NewRow(status) == [status |-> status, attempts |-> 0, cancel |-> FALSE]
Absent == NewRow("absent")

\* Mutant of Merge: the UPDATE carries every column of the loaded row.
MergeAll(current, loaded, new) == new

\* The UPDATE a session issues at commit: the columns it changed, and no other.
Merge(current, loaded, new) ==
  [c \in DOMAIN current |-> IF new[c] # loaded[c] THEN new[c] ELSE current[c]]

Actors == Workers \cup Threads
PCs == {"idle", "prepared", "prepared_sync", "publishing", "starting", "running",
        "cancelling", "resetting", "requeueing", "committed", "acking"}
Doing(pc, j, seen) == [pc |-> pc, job |-> j, seen |-> seen]
Idle == Doing("idle", NoJob, Absent)

Goto(a, pc) == act' = [act EXCEPT ![a].pc = pc]
\* Mutant of Leave: the actor keeps the job it is done with.
LeaveHolding(a) == act' = [act EXCEPT ![a].pc = "idle"]
Leave(a) == act' = [act EXCEPT ![a] = Idle]
Send(j) == queue' = [queue EXCEPT ![j] = @ + 1]
Save(a, new) ==
  row' = [row EXCEPT ![act[a].job] = Merge(@, act[a].seen, new)]
Fault(kind) ==
  /\ kind \in Faults
  /\ faults < MaxFaults
  /\ faults' = faults + 1

Init ==
  /\ row = [j \in Jobs |-> Absent]
  /\ queue = [j \in Jobs |-> 0]
  /\ act = [a \in Actors |-> Idle]
  /\ trail = [j \in Jobs |-> [count |-> 0, last |-> "absent"]]
  /\ withdrawn = {} /\ syncJobs = {}
  /\ resets = 0
  /\ faults = 0

-----------------------------------------------------------------------------
(* POST /flows/{flow_id}/run *)

\* Mutant of Duplicate: any earlier submission counts, successful or not.
DuplicateOfAny(j) ==
  /\ j \notin ReadJobs
  /\ \E d \in Jobs : KeyOf[d] = KeyOf[j] /\ row[d].status # "absent"

\* prepare_flow_job looks for a successful job with the same key, unless the
\* flow runs a read operation.
Duplicate(j) ==
  /\ j \notin ReadJobs
  /\ \E d \in Jobs : KeyOf[d] = KeyOf[j] /\ row[d].status = "success"

Prepare(t, j, sync) ==
  /\ "run" \in Requests
  /\ act[t].pc = "idle"
  /\ row[j].status = "absent" /\ \A u \in Threads : act[u].job # j
  /\ act' = [act EXCEPT ![t] =
               Doing(IF sync THEN "prepared_sync" ELSE "prepared", j,
                     NewRow(IF Duplicate(j) THEN "ignored" ELSE "pending"))]
  /\ UNCHANGED <<row, queue, trail, ghosts, bounds>>

\* The INSERT becomes visible; an ignored job is logged with it and done.
Insert(t) ==
  /\ act[t].pc \in {"prepared", "prepared_sync"}
  /\ row' = [row EXCEPT ![act[t].job] = act[t].seen]
  /\ IF act[t].seen.status = "ignored"
       THEN /\ trail' = [trail EXCEPT ![act[t].job].last = "ignored"]
            /\ Leave(t)
       ELSE /\ UNCHANGED trail
            /\ Goto(t, IF act[t].pc = "prepared" THEN "publishing" ELSE "starting")
  /\ syncJobs' = IF act[t].pc = "prepared" THEN syncJobs ELSE syncJobs \cup {act[t].job}
  /\ UNCHANGED <<queue, withdrawn, bounds>>

\* The row is refreshed, and handed to Celery if it is still pending.
Publish(t) ==
  /\ act[t].pc = "publishing"
  /\ IF row[act[t].job].status = "pending" THEN Send(act[t].job) ELSE UNCHANGED queue
  /\ Leave(t)
  /\ UNCHANGED <<row, trail, ghosts, bounds>>

\* Mutant of StartSync: the job is handed to Celery as well.
StartSyncAndPublish(t) ==
  /\ act[t].pc = "starting"
  /\ act' = [act EXCEPT ![t].pc = "running", ![t].seen = row[act[t].job]]
  /\ Send(act[t].job)
  /\ UNCHANGED <<row, trail, ghosts, bounds>>

\* sync=true: the same thread executes the refreshed row in its own session.
StartSync(t) ==
  /\ act[t].pc = "starting"
  /\ IF row[act[t].job].status = "pending"
       THEN act' = [act EXCEPT ![t].pc = "running", ![t].seen = row[act[t].job]]
       ELSE Leave(t)
  /\ UNCHANGED <<row, queue, trail, ghosts, bounds>>

-----------------------------------------------------------------------------
(* execute_job: one attempt, from the loaded row to the commit *)

ReadFailures == {"timeout_error", "rate_limit_error", "external_api_error",
                 "authentication_error", "authorization_error",
                 "validation_error", "unknown_error"}
WriteFailures == {"validation_error", "mapping_error"}
Retryable == {"timeout_error", "rate_limit_error", "external_api_error"}

\* execute_job resolves the flow again at each attempt: whatever the flow did when
\* the job was submitted, an edit may have made it read or write by now.
FailureKinds == {"business_rule_error"} \cup ReadFailures \cup WriteFailures

\* Mutants of FailureStatus: a retry too many, and no retry.
FailureStatusTooLate(kind, n) ==
  IF kind \notin Retryable THEN "failed"
  ELSE IF n <= MaxAttempts THEN "retrying" ELSE "dead_letter"
FailureStatusAtOnce(kind, n) ==
  IF kind \in Retryable THEN "dead_letter" ELSE "failed"

\* What becomes of a job whose attempt number n failed.
FailureStatus(kind, n) ==
  IF kind \notin Retryable THEN "failed"
  ELSE IF n < MaxAttempts THEN "retrying" ELSE "dead_letter"

Tried(seen, status) ==
  [status |-> status, attempts |-> seen.attempts + 1, cancel |-> seen.cancel]

\* Mutant of Conclude: the attempt ends without a log.
ConcludeUnlogged(a, status) ==
  /\ Save(a, Tried(act[a].seen, status))
  /\ IF a \in Workers THEN Goto(a, "committed") ELSE Leave(a)
  /\ UNCHANGED <<queue, trail, ghosts, bounds>>

\* The attempt's end is written with its log in one commit; a worker goes on to
\* refresh the row, a synchronous request answers.
Conclude(a, status) ==
  /\ Save(a, Tried(act[a].seen, status))
  /\ trail' = [trail EXCEPT ![act[a].job] = [count |-> @.count + 1, last |-> status]]
  /\ IF a \in Workers THEN Goto(a, "committed") ELSE Leave(a)
  /\ UNCHANGED <<queue, ghosts, bounds>>

AttemptCancelled(a) ==
  /\ act[a].pc = "running" /\ act[a].seen.cancel
  /\ Conclude(a, "cancelled")

AttemptSucceeds(a) ==
  /\ act[a].pc = "running" /\ ~act[a].seen.cancel
  /\ Conclude(a, "success")

AttemptFails(a) ==
  /\ act[a].pc = "running" /\ ~act[a].seen.cancel
  /\ \E kind \in FailureKinds :
       Conclude(a, FailureStatus(kind, act[a].seen.attempts + 1))

\* An exception that execute_job does not handle (no flow, an invalid
\* connection, credentials that do not decrypt): process_flow_job fails the job.
AttemptRaises(w) ==
  /\ act[w].pc = "running"
  /\ Conclude(w, "failed")

\* In a synchronous request nobody handles it: the session is closed unsaved.
SyncAttemptRaises(t) ==
  /\ act[t].pc = "running"
  /\ Leave(t)
  /\ UNCHANGED <<row, queue, trail, ghosts, bounds>>

-----------------------------------------------------------------------------
(* The Celery task execute_flow_job *)

\* Mutant of Load: an ended job is executed again.
LoadUnchecked(w, j) ==
  /\ act[w].pc = "idle" /\ queue[j] > 0
  /\ queue' = [queue EXCEPT ![j] = @ - 1]
  /\ act' = [act EXCEPT ![w] = Doing("running", j, row[j])]
  /\ UNCHANGED <<row, trail, ghosts, bounds>>

\* A message is delivered and the row loaded.  A job that has ended is left
\* alone, and its commit writes nothing.
Load(w, j) ==
  /\ act[w].pc = "idle" /\ queue[j] > 0
  /\ queue' = [queue EXCEPT ![j] = @ - 1]
  /\ act' = [act EXCEPT ![w] =
               Doing(IF row[j].status \in Live THEN "running" ELSE "committed", j, row[j])]
  /\ UNCHANGED <<row, trail, ghosts, bounds>>

\* Mutant of Schedule: the row as loaded, not refreshed, decides.
ScheduleOnLoaded(w) ==
  /\ act[w].pc = "committed"
  /\ IF act[w].seen.status = "retrying" THEN Send(act[w].job) ELSE UNCHANGED queue
  /\ Goto(w, "acking")
  /\ UNCHANGED <<row, trail, ghosts, bounds>>

\* The refreshed row, not the attempt's own outcome, decides on another task.
Schedule(w) ==
  /\ act[w].pc = "committed"
  /\ IF row[act[w].job].status = "retrying" THEN Send(act[w].job) ELSE UNCHANGED queue
  /\ Goto(w, "acking")
  /\ UNCHANGED <<row, trail, ghosts, bounds>>

\* task_acks_late: the message is acknowledged when the task has returned.
Ack(w) ==
  /\ act[w].pc = "acking"
  /\ Leave(w)
  /\ UNCHANGED <<row, queue, trail, ghosts, bounds>>

-----------------------------------------------------------------------------
(* POST /jobs/{job_id}/cancel and POST /jobs/{job_id}/reprocess.  A request the
   status refuses answers 409 and changes nothing. *)

CancelRequest(t, j) ==
  /\ "cancel" \in Requests
  /\ act[t].pc = "idle" /\ row[j].status \in Live
  /\ act' = [act EXCEPT ![t] = Doing("cancelling", j, row[j])]
  /\ UNCHANGED <<row, queue, trail, ghosts, bounds>>

\* Mutant of CancelCommit: the status alone is written.
CancelCommitUnflagged(t) ==
  /\ act[t].pc = "cancelling"
  /\ Save(t, [act[t].seen EXCEPT !.status = "cancelled"])
  /\ withdrawn' = withdrawn \cup {act[t].job}
  /\ Leave(t)
  /\ UNCHANGED <<queue, trail, syncJobs, bounds>>

CancelCommit(t) ==
  /\ act[t].pc = "cancelling"
  /\ Save(t, [act[t].seen EXCEPT !.status = "cancelled", !.cancel = TRUE])
  /\ withdrawn' = withdrawn \cup {act[t].job}
  /\ Leave(t)
  /\ UNCHANGED <<queue, trail, syncJobs, bounds>>

ReprocessRequest(t, j) ==
  /\ "reprocess" \in Requests /\ resets < MaxResets
  /\ act[t].pc = "idle" /\ row[j].status \in Ended
  /\ act' = [act EXCEPT ![t] = Doing("resetting", j, row[j])]
  /\ resets' = resets + 1
  /\ UNCHANGED <<row, queue, trail, ghosts, faults>>

\* Mutant of ReprocessCommit: attempt_count is not reset.
ReprocessCommitCounted(t) ==
  /\ act[t].pc = "resetting"
  /\ Save(t, [act[t].seen EXCEPT !.status = "pending", !.cancel = FALSE])
  /\ trail' = [trail EXCEPT ![act[t].job] = [count |-> 0, last |-> "pending"]]
  /\ withdrawn' = withdrawn \ {act[t].job}
  /\ syncJobs' = syncJobs \ {act[t].job}
  /\ Goto(t, "requeueing")
  /\ UNCHANGED <<queue, bounds>>

ReprocessCommit(t) ==
  /\ act[t].pc = "resetting"
  /\ Save(t, [status |-> "pending", attempts |-> 0, cancel |-> FALSE])
  /\ trail' = [trail EXCEPT ![act[t].job] = [count |-> 0, last |-> "pending"]]
  /\ withdrawn' = withdrawn \ {act[t].job}
  /\ syncJobs' = syncJobs \ {act[t].job}
  /\ Goto(t, "requeueing")
  /\ UNCHANGED <<queue, bounds>>

\* Mutant of Requeue: the message is never sent.
RequeueForgotten(t) ==
  /\ act[t].pc = "requeueing"
  /\ Leave(t)
  /\ UNCHANGED <<row, queue, trail, ghosts, bounds>>

\* The reset job is handed to Celery whatever its refreshed status.
Requeue(t) ==
  /\ act[t].pc = "requeueing"
  /\ Send(act[t].job)
  /\ Leave(t)
  /\ UNCHANGED <<row, trail, ghosts, bounds>>

-----------------------------------------------------------------------------
(* Faults *)

\* The API process dies, or the broker refuses the message of a request: what
\* was committed stays, the rest of the handler does not happen.
RequestDies(t) ==
  /\ act[t].pc # "idle" /\ Fault("request")
  /\ Leave(t)
  /\ UNCHANGED <<row, queue, trail, ghosts, resets>>

\* apply_async raises in the task: it fails, and Celery acknowledges it.
ScheduleFails(w) ==
  /\ act[w].pc = "committed" /\ row[act[w].job].status = "retrying"
  /\ Fault("publish")
  /\ Goto(w, "acking")
  /\ UNCHANGED <<row, queue, trail, ghosts, resets>>

\* The commit of the attempt and the one in the exception handler both fail (a
\* message over 500 characters, a flow deleted meanwhile): the task fails.
AttemptUnsaved(w) ==
  /\ act[w].pc = "running" /\ Fault("commit")
  /\ Goto(w, "acking")
  /\ UNCHANGED <<row, queue, trail, ghosts, resets>>

\* A pool child is killed: task_reject_on_worker_lost is off, so the parent
\* acknowledges the message.
ChildDies(w) ==
  /\ act[w].pc # "idle" /\ Fault("child")
  /\ Leave(w)
  /\ UNCHANGED <<row, queue, trail, ghosts, resets>>

\* The whole worker dies: the unacknowledged message is delivered again.
WorkerDies(w) ==
  /\ act[w].pc # "idle" /\ Fault("worker")
  /\ Send(act[w].job)
  /\ Leave(w)
  /\ UNCHANGED <<row, trail, ghosts, resets>>

-----------------------------------------------------------------------------
WorkerStep(w) ==
  \/ \E j \in Jobs : Load(w, j)
  \/ AttemptCancelled(w) \/ AttemptSucceeds(w) \/ AttemptFails(w) \/ AttemptRaises(w)
  \/ Schedule(w) \/ Ack(w)

HandlerStep(t) ==
  \/ Insert(t) \/ Publish(t) \/ StartSync(t)
  \/ AttemptCancelled(t) \/ AttemptSucceeds(t) \/ AttemptFails(t) \/ SyncAttemptRaises(t)
  \/ CancelCommit(t) \/ ReprocessCommit(t) \/ Requeue(t)

NewRequest(t) ==
  \E j \in Jobs :
    \/ \E sync \in SyncModes : Prepare(t, j, sync)
    \/ CancelRequest(t, j)
    \/ ReprocessRequest(t, j)

WorkerFault(w) == ScheduleFails(w) \/ AttemptUnsaved(w) \/ ChildDies(w) \/ WorkerDies(w)

Next ==
  \/ \E w \in Workers : WorkerStep(w) \/ WorkerFault(w)
  \/ \E t \in Threads : NewRequest(t) \/ HandlerStep(t) \/ RequestDies(t)

Spec == Init /\ [][Next]_vars

\* A worker that has work and a handler that has begun go on: httpx calls have
\* a timeout and no step waits for another actor, and somebody starts a worker
\* that died again.  Nobody has to send a request and no fault has to happen.
Fairness ==
  /\ \A w \in Workers : WF_vars(WorkerStep(w))
  /\ \A t \in Threads : WF_vars(HandlerStep(t))

FairSpec == Spec /\ Fairness

-----------------------------------------------------------------------------
(* Properties *)

\* The variables keep their types, and an actor that holds a row it means to
\* write holds one that its own checks let through.
TypeOK ==
  /\ row \in [Jobs -> Rows]
  /\ queue \in [Jobs -> Nat]
  /\ act \in [Actors -> [pc : PCs, job : Jobs \cup {NoJob}, seen : Rows]]
  /\ \A a \in Actors : act[a].pc = "idle" <=> act[a].job = NoJob
  /\ trail \in [Jobs -> [count : Nat, last : Statuses]]
  /\ withdrawn \subseteq Jobs /\ syncJobs \subseteq Jobs
  /\ resets \in Nat /\ faults \in Nat

\* Retry accounting (runner.py:134, 252, 928): a job that may be tried again
\* has attempts left, however the commits of cancellations, resets and
\* concurrent attempts were merged, and attempt_count never passes the limit.
AttemptBound ==
  \A j \in Jobs :
    /\ row[j].attempts <= MaxAttempts
    /\ row[j].status \in Live => row[j].attempts < MaxAttempts
    /\ row[j].status \in Ended => row[j].attempts > 0

\* Actor a will move job j on: a worker that is trying it or is about to
\* schedule its retry, or a handler about to publish its message.
WillMove(a, j) ==
  /\ act[a].job = j
  /\ \/ /\ a \in Workers /\ act[a].pc \in {"running", "committed"}
        /\ row[j].status = "retrying"
     \/ a \in Workers /\ act[a].pc = "running" /\ act[a].seen.status = "pending"
     \/ act[a].pc = "publishing" /\ row[j].status = "pending"
     \/ act[a].pc = "requeueing"

Backed(j) == queue[j] > 0 \/ \E a \in Actors : WillMove(a, j)

\* No stranded job (tasks.py:87, routes_flows.py:196, routes_jobs.py:95): a
\* pending or retrying job always has someone or something that moves it on,
\* under any interleaving, as long as messages and commits are not lost.  Jobs
\* submitted with sync=true have no message until they are reprocessed.
TaskBacked ==
  \A j \in Jobs \ syncJobs : row[j].status \in Live => Backed(j)

\* A synchronous attempt (routes_flows.py:202) has its job to itself: no worker
\* and no other request works on it, but for a cancellation.
SyncAttemptAlone ==
  \A t \in Threads : act[t].pc = "running" =>
    \A a \in Actors \ {t} : act[a].job = act[t].job => act[a].pc = "cancelling"

\* With one worker, a job is dead_letter only when its retries are used up
\* (runner.py:930), after redeliveries, overlapping resets and cancellations too.
DeadLetterExhausted ==
  \A j \in Jobs : row[j].status = "dead_letter" => row[j].attempts = MaxAttempts

\* With one worker, no attempt goes uncounted: since its last reset a job has at
\* most as many attempts in the log as attempt_count says, and so at most
\* max_attempts (runner.py:134; README.md:106 "Every attempt writes an
\* integration_log").
AttemptsCoverLogs == \A j \in Jobs : trail[j].count <= row[j].attempts

\* With one worker, the newest log of a job that has an outcome names it,
\* whatever cancellations and resets were merged into the row meanwhile.
AuditAgrees ==
  \A j \in Jobs : row[j].status \in Ended \cup {"success", "ignored", "retrying"} =>
    trail[j].last = row[j].status

(* What clients can rely on that wait for one answer before the next request.
   Requests that overlap can break each of the three: an old reset lands in a
   job that runs again, an old cancellation in a job that has succeeded. *)

\* With one client, attempt_count is the number of attempts in the log since
\* the job was created or reset, after redeliveries and overwritten rows too.
AttemptsMatchLogs == \A j \in Jobs : row[j].attempts = trail[j].count

\* An acknowledged cancellation is not forgotten: if the attempt in flight
\* overwrites the status, the flag stops the next one (runner.py:142).
CancelRemembered ==
  \A j \in withdrawn : row[j].status \in Live => row[j].cancel

\* A payload is ignored as a duplicate only next to the job that processed it
\* successfully (runner.py:78, docs/ARCHITECTURE.md:38).
IgnoredHasSuccess ==
  \A j \in Jobs : row[j].status = "ignored" =>
    \E d \in Jobs : KeyOf[d] = KeyOf[j] /\ row[d].status = "success"

\* A pending or retrying job reaches a status no worker leaves, without help, with
\* two workers too.  Only a job submitted with sync=true may wait for a reset.
LiveJobsFinish ==
  \A j \in Jobs :
    row[j].status \in Live /\ j \notin syncJobs ~> row[j].status \notin Live

(* The engine seen as the machine of JobLifecycle. *)

\* The jobs whose cancellation a thread has let through, and the cancelled jobs
\* that an actor is still trying.
Asked == {act[t].job : t \in {u \in Threads : act[u].pc = "cancelling"}}
Late ==
  {j \in Jobs : /\ row[j].status = "cancelled"
                /\ \E a \in Actors : act[a].pc = "running" /\ act[a].job = j}

\* Each job has at most one attempt, one cancellation and one reset at a time, no
\* cancellation with a reset, and no cancellation of a job that shares its key
\* with one about to be ignored as a duplicate.
Uncontended ==
  /\ \A a, b \in Actors :
       /\ act[a].job = act[b].job
       /\ \/ act[a].pc = "running" /\ act[b].pc = "running"
          \/ /\ act[a].pc \in {"cancelling", "resetting"}
             /\ act[b].pc \in {"cancelling", "resetting"}
       => a = b
  /\ \A t, u \in Threads :
       /\ act[t].pc = "cancelling"
       /\ act[u].pc \in {"prepared", "prepared_sync"} /\ act[u].seen.status = "ignored"
       => KeyOf[act[t].job] # KeyOf[act[u].job]

\* As long as no requests contend for a job, and messages and commits are not
\* lost, the engine does what JobLifecycle promises of each job.
Lifecycle == INSTANCE JobLifecycle WITH job <- row, asked <- Asked, late <- Late
ImplementsLifecycle == Lifecycle!Spec

-----------------------------------------------------------------------------
(* Statements of the documentation that the code does not keep *)

\* routes_jobs.py:56-60 and 84-88 refuse a cancelled job, and README.md:105
\* says that the request cancels a pending job: it stays cancelled.
CancelSticks ==
  [][\A j \in Jobs : row[j].status = "cancelled" => row'[j].status = "cancelled"]_vars

\* routes_jobs.py:55 "Success jobs cannot be cancelled" and :87 "Only failed or
\* dead_letter jobs can be reprocessed": a job that succeeded stays so.
SuccessFinal ==
  [][\A j \in Jobs : row[j].status = "success" => row'[j].status = "success"]_vars

\* docs/DECISIONS.md:30 "without executing the same payload twice": at most one
\* job per key of a flow that writes succeeds.
PayloadRunsOnce ==
  \A j, d \in Jobs :
    /\ KeyOf[j] = KeyOf[d] /\ j \notin ReadJobs /\ d \notin ReadJobs
    /\ row[j].status = "success" /\ row[d].status = "success"
    => j = d

\* README.md:103 "Retryable failures move through `retrying` and eventually
\* `dead_letter`": a job does not stay in retrying.
RetriesConclude ==
  \A j \in Jobs : row[j].status = "retrying" ~> row[j].status # "retrying"

=============================================================================
