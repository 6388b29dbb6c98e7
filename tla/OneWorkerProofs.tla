--------------------------- MODULE OneWorkerProofs ---------------------------
(***************************************************************************)
(* Theorems about JobEngine for a deployment with one worker process, which *)
(* is what docker-compose.yml starts, and for clients that wait for one    *)
(* answer before the next request; for any jobs, payloads, faults, bounds. *)
(***************************************************************************)
EXTENDS JobEngineProofs

OneWorker == \A v, w \in Workers : v = w
OneClient == \A t, u \in Threads : t = u

-----------------------------------------------------------------------------
(* The five kinds of steps, by what they do to the rows and the logs *)

OnlyActor(a) == \A b \in Actors \ {a} : act'[b] = act[b]
OnlyJob(j) == \A k \in Jobs \ {j} : row'[k] = row[k] /\ trail'[k] = trail[k]

Resting == {"idle", "publishing", "starting", "requeueing", "committed", "acking"}

\* An actor stays as it is, or comes to rest, or begins with the row as it is.
MovesOn(a) ==
  \/ act'[a] = act[a]
  \/ act'[a].pc \in Resting
  \/ /\ act'[a].job \in Jobs /\ act'[a].seen = row[act'[a].job]
     /\ \/ act'[a].pc = "running" /\ row[act'[a].job].status \in Live
        \/ /\ a \in Threads /\ act'[a].pc = "cancelling" /\ row[act'[a].job].status \in Live
           /\ "cancel" \in Requests
        \/ a \in Threads /\ act'[a].pc = "resetting" /\ row[act'[a].job].status \in Ended
  \/ /\ a \in Threads /\ act'[a].pc \in Preparing /\ act'[a].job \in Jobs
     /\ act'[a].seen.status = "ignored" => Duplicate(act'[a].job)
     /\ ~act'[a].seen.cancel

\* A step that commits nothing.
Quiet ==
  /\ UNCHANGED <<row, trail, withdrawn>>
  /\ \A a \in Actors : MovesOn(a)

Attempts(a) ==
  AttemptCancelled(a) \/ AttemptSucceeds(a) \/ AttemptFails(a) \/ AttemptRaises(a)

\* A step of a worker that is no attempt's end.
LEMMA WorkerQuiet ==
  ASSUME TypeOK, NEW w \in Workers,
         \/ \E j \in Jobs : Load(w, j)
         \/ Schedule(w) \/ Ack(w) \/ WorkerFault(w)
  PROVE  Quiet
<1> USE DEF ghosts, bounds
<1>0. ActOK /\ w \in Actors
  BY DEF TypeOK, ActOK, Actors
<1>1. ASSUME NEW j \in Jobs, Load(w, j)
      PROVE  Quiet
  <2>1. /\ OnlyActor(w) /\ act'[w].job = j /\ act'[w].seen = row[j]
        /\ act'[w].pc = IF row[j].status \in Live THEN "running" ELSE "committed"
    BY <1>0, <1>1 DEF Load, Doing, ActOK, OnlyActor
  <2> QED
    BY <1>1, <2>1 DEF Load, Quiet, MovesOn, OnlyActor, Resting
<1>2. ASSUME Schedule(w) \/ Ack(w) \/ WorkerFault(w)
      PROVE  Quiet
  <2>1. OnlyActor(w) /\ act'[w].pc \in {"idle", "acking"}
    BY <1>0, <1>2, GotoEffect, LeaveEffect
       DEF Schedule, Ack, WorkerFault, ScheduleFails, AttemptUnsaved, ChildDies,
           WorkerDies, PCs, OnlyActor
  <2>2. UNCHANGED <<row, trail, withdrawn>>
    BY <1>2 DEF Schedule, Ack, WorkerFault, ScheduleFails, AttemptUnsaved, ChildDies, WorkerDies
  <2> QED
    BY <2>1, <2>2 DEF Quiet, MovesOn, OnlyActor, Resting
<1> QED
  BY <1>1, <1>2

\* A step of a thread that commits nothing.
LEMMA ThreadQuiet ==
  ASSUME TypeOK, NEW t \in Threads,
         \/ NewRequest(t)
         \/ Publish(t) \/ StartSync(t) \/ SyncAttemptRaises(t) \/ Requeue(t) \/ RequestDies(t)
  PROVE  Quiet
<1> USE DEF ghosts, bounds
<1>0. ActOK /\ t \in Actors
  BY DEF TypeOK, ActOK, Actors
<1>1. ASSUME NEW j \in Jobs, NEW sync \in SyncModes, Prepare(t, j, sync)
      PROVE  Quiet
  <2>1. /\ OnlyActor(t) /\ act'[t].job = j /\ act'[t].pc \in Preparing
        /\ act'[t].seen = NewRow(IF Duplicate(j) THEN "ignored" ELSE "pending")
    BY <1>0, <1>1 DEF Prepare, Doing, ActOK, OnlyActor, Preparing
  <2>2. (act'[t].seen.status = "ignored" => Duplicate(j)) /\ ~act'[t].seen.cancel
    BY <2>1 DEF NewRow
  <2> QED
    BY <1>1, <2>1, <2>2 DEF Prepare, Quiet, MovesOn, OnlyActor
<1>2. ASSUME NEW j \in Jobs, CancelRequest(t, j) \/ ReprocessRequest(t, j)
      PROVE  Quiet
  <2>1. /\ OnlyActor(t) /\ act'[t].job = j /\ act'[t].seen = row[j]
        /\ \/ act'[t].pc = "cancelling" /\ row[j].status \in Live /\ "cancel" \in Requests
           \/ act'[t].pc = "resetting" /\ row[j].status \in Ended
    BY <1>0, <1>2 DEF CancelRequest, ReprocessRequest, Doing, ActOK, OnlyActor
  <2> QED
    BY <1>2, <2>1 DEF CancelRequest, ReprocessRequest, Quiet, MovesOn, OnlyActor
<1>3. ASSUME StartSync(t)
      PROVE  Quiet
  <2>1. act[t].job \in Jobs
    BY <1>0, <1>3, BusyActor DEF StartSync
  <2>2. /\ OnlyActor(t)
        /\ \/ act'[t].pc = "idle"
           \/ /\ act'[t].pc = "running" /\ act'[t].job = act[t].job
              /\ act'[t].seen = row[act[t].job] /\ row[act[t].job].status = "pending"
    BY <1>0, <1>3, LeaveEffect DEF StartSync, ActOK, OnlyActor
  <2> QED
    BY <1>3, <2>1, <2>2 DEF StartSync, Quiet, MovesOn, OnlyActor, Resting, Live
<1>4. ASSUME Publish(t) \/ SyncAttemptRaises(t) \/ Requeue(t) \/ RequestDies(t)
      PROVE  Quiet
  <2>1. OnlyActor(t) /\ act'[t].pc = "idle"
    BY <1>0, <1>4, LeaveEffect DEF Publish, SyncAttemptRaises, Requeue, RequestDies, OnlyActor
  <2> QED
    BY <1>4, <2>1
    DEF Publish, SyncAttemptRaises, Requeue, RequestDies, Quiet, MovesOn, OnlyActor, Resting
<1> QED
  BY <1>1, <1>2, <1>3, <1>4 DEF NewRequest

\* Every other step commits: an insert, an attempt's end, a cancellation or a reset.
LEMMA StepKinds ==
  ASSUME TypeOK, [Next]_vars
  PROVE  \/ Quiet
         \/ \E a \in Actors : Attempts(a)
         \/ \E t \in Threads : Insert(t) \/ CancelCommit(t) \/ ReprocessCommit(t)
<1>1. CASE UNCHANGED vars
  BY <1>1 DEF vars, ghosts, Quiet, MovesOn
<1>2. ASSUME NEW w \in Workers, WorkerStep(w) \/ WorkerFault(w)
      PROVE  Quiet \/ Attempts(w)
  BY <1>2, WorkerQuiet DEF WorkerStep, Attempts
<1>3. ASSUME NEW t \in Threads, NewRequest(t) \/ HandlerStep(t) \/ RequestDies(t)
      PROVE  Quiet \/ Attempts(t) \/ Insert(t) \/ CancelCommit(t) \/ ReprocessCommit(t)
  BY <1>3, ThreadQuiet DEF HandlerStep, Attempts
<1> QED
  BY <1>1, <1>2, <1>3 DEF Next, Actors

-----------------------------------------------------------------------------
(* What each commit writes *)

\* An attempt changes attempt_count for certain, and the status unless it takes a job
\* that was loaded as retrying to retrying.
LEMMA AttemptWrites ==
  ASSUME TypeOK, RetryInv, SyncInv, NEW a \in Actors, Attempts(a)
  PROVE  /\ act[a].pc = "running" /\ act[a].job \in Jobs
         /\ OnlyActor(a) /\ OnlyJob(act[a].job) /\ act'[a].pc \in Resting
         /\ UNCHANGED withdrawn
         /\ act[a].seen.status \in Live
         /\ row[act[a].job].status # "absent"
         /\ row'[act[a].job].attempts = act[a].seen.attempts + 1
         /\ row'[act[a].job].cancel = row[act[a].job].cancel
         /\ trail'[act[a].job].count = trail[act[a].job].count + 1
         /\ \E status \in Outcomes :
              /\ trail'[act[a].job].last = status
              /\ row'[act[a].job].status =
                   IF status # act[a].seen.status THEN status ELSE row[act[a].job].status
              /\ status = "dead_letter" => act[a].seen.attempts + 1 = MaxAttempts
<1> DEFINE j == act[a].job
           seen == act[a].seen
<1>1. act[a].pc = "running"
  BY DEF Attempts, AttemptCancelled, AttemptSucceeds, AttemptFails, AttemptRaises
<1>2. /\ j \in Jobs /\ seen \in Rows /\ row[j] \in Rows /\ row[j].status # "absent"
      /\ trail[j] \in [count : Nat, last : Statuses]
  BY <1>1, BusyActor, KnownJob DEF TypeOK, ActOK, Preparing
<1>3. seen.status \in Live /\ seen.attempts < MaxAttempts
  BY <1>1 DEF RetryInv, SeenOK
<1>4. PICK status \in Outcomes :
        Conclude(a, status) /\ (status = "dead_letter" => seen.attempts + 1 >= MaxAttempts)
  <2>1. CASE AttemptCancelled(a)
    BY <2>1 DEF AttemptCancelled, Outcomes
  <2>2. CASE AttemptSucceeds(a)
    BY <2>2 DEF AttemptSucceeds, Outcomes
  <2>3. CASE AttemptFails(a)
    <3>1. PICK kind \in FailureKinds : Conclude(a, FailureStatus(kind, seen.attempts + 1))
      BY <2>3 DEF AttemptFails
    <3>2. seen.attempts \in Nat /\ MaxAttempts \in Nat
      BY <1>2, MaxAttemptsAssumption DEF Rows
    <3>3. FailureStatus(kind, seen.attempts + 1) = "dead_letter" => seen.attempts + 1 >= MaxAttempts
      BY <3>2 DEF FailureStatus
    <3> QED
      BY <3>1, <3>3, FailureStatuses DEF Outcomes
  <2>4. CASE AttemptRaises(a)
    BY <2>4 DEF AttemptRaises, Outcomes
  <2> QED
    BY <2>1, <2>2, <2>3, <2>4 DEF Attempts
<1>5. status = "dead_letter" => seen.attempts + 1 = MaxAttempts
  BY <1>2, <1>3, <1>4, MaxAttemptsAssumption DEF Rows
<1>6. /\ row'[j] = Merge(row[j], seen, Tried(seen, status))
      /\ \A k \in Jobs \ {j} : row'[k] = row[k]
      /\ OnlyActor(a) /\ act'[a].pc \in Resting
  BY <1>1, <1>4, ConcludeEffect DEF OnlyActor, Resting
<1>7. /\ Tried(seen, status) \in Rows /\ Tried(seen, status).status = status
      /\ Tried(seen, status).attempts = seen.attempts + 1
      /\ Tried(seen, status).cancel = seen.cancel
  BY <1>2, TriedRows DEF Tried, Outcomes, Statuses, Live, Ended
<1>8. /\ row'[j].status = IF status # seen.status THEN status ELSE row[j].status
      /\ row'[j].attempts = seen.attempts + 1
      /\ row'[j].cancel = row[j].cancel
  <2>1. seen.attempts + 1 # seen.attempts
    BY <1>2 DEF Rows
  <2> QED
    BY <1>2, <1>6, <1>7, <2>1, MergeRows
<1>9. trail' = [trail EXCEPT ![j] = [count |-> @.count + 1, last |-> status]] /\ UNCHANGED withdrawn
  BY <1>4 DEF Conclude, ghosts
<1>10. /\ trail'[j].count = trail[j].count + 1 /\ trail'[j].last = status
       /\ \A k \in Jobs \ {j} : trail'[k] = trail[k]
  BY <1>2, <1>9 DEF TypeOK
<1> QED
  BY <1>1, <1>2, <1>3, <1>5, <1>6, <1>8, <1>9, <1>10 DEF OnlyJob

\* An insert is of a job nobody else has.
LEMMA InsertWrites ==
  ASSUME TypeOK, RetryInv, SyncInv, NEW t \in Threads, Insert(t)
  PROVE  /\ act[t].pc \in Preparing /\ act[t].job \in Jobs
         /\ OnlyActor(t) /\ OnlyJob(act[t].job) /\ act'[t].pc \in Resting
         /\ UNCHANGED withdrawn
         /\ \A b \in Actors \ {t} : act[b].job # act[t].job
         /\ row[act[t].job].status = "absent"
         /\ row'[act[t].job] = act[t].seen
         /\ act[t].seen.status \in {"pending", "ignored"} /\ act[t].seen.attempts = 0
         /\ trail'[act[t].job].count = trail[act[t].job].count
         /\ act[t].seen.status = "ignored" => trail'[act[t].job].last = "ignored"
<1>1. t \in Actors /\ act[t].pc \in Preparing /\ act[t].pc # "idle" /\ ActOK
  BY DEF Insert, Actors, Preparing, TypeOK, ActOK
<1>2. act[t].job \in Jobs
  BY <1>1, BusyActor
<1>3. act[t].seen.status \in {"pending", "ignored"} /\ act[t].seen.attempts = 0
  BY <1>1 DEF RetryInv, SeenOK, Preparing
<1>4. OnlyActor(t) /\ act'[t].pc \in Resting
  BY <1>1, GotoEffect, LeaveEffect DEF Insert, PCs, OnlyActor, Resting
<1>5. /\ row' = [row EXCEPT ![act[t].job] = act[t].seen]
      /\ trail' = IF act[t].seen.status = "ignored"
                    THEN [trail EXCEPT ![act[t].job].last = "ignored"] ELSE trail
      /\ UNCHANGED withdrawn
  BY DEF Insert
<1>6. /\ row'[act[t].job] = act[t].seen /\ OnlyJob(act[t].job)
      /\ trail'[act[t].job].count = trail[act[t].job].count
      /\ act[t].seen.status = "ignored" => trail'[act[t].job].last = "ignored"
  BY <1>2, <1>5 DEF TypeOK, OnlyJob
<1> QED
  BY <1>1, <1>2, <1>3, <1>4, <1>5, <1>6 DEF SyncInv, PreparedAlone

\* A cancellation writes its status and its flag.
LEMMA CancelWrites ==
  ASSUME TypeOK, RetryInv, SyncInv, NEW t \in Threads, CancelCommit(t)
  PROVE  /\ act[t].pc = "cancelling" /\ act[t].job \in Jobs
         /\ OnlyActor(t) /\ OnlyJob(act[t].job) /\ act'[t].pc \in Resting
         /\ withdrawn' = withdrawn \cup {act[t].job}
         /\ row[act[t].job].status # "absent"
         /\ row'[act[t].job].status = "cancelled"
         /\ row'[act[t].job].attempts = row[act[t].job].attempts
         /\ row'[act[t].job].cancel = (row[act[t].job].cancel \/ ~act[t].seen.cancel)
         /\ trail' = trail
<1> DEFINE seen == act[t].seen
           new == [seen EXCEPT !.status = "cancelled", !.cancel = TRUE]
<1>1. t \in Actors /\ act[t].pc = "cancelling" /\ ActOK
  BY DEF CancelCommit, Actors, TypeOK, ActOK
<1>2. /\ act[t].job \in Jobs /\ seen \in Rows /\ row[act[t].job] \in Rows
      /\ row[act[t].job].status # "absent"
  BY <1>1, BusyActor, KnownJob DEF TypeOK, Preparing
<1>3. seen.status # "cancelled"
  BY <1>1 DEF RetryInv, SeenOK, Live
<1>4. /\ new \in Rows /\ new.status = "cancelled" /\ new.attempts = seen.attempts
      /\ new.cancel = TRUE
  BY <1>2, CancelledRows DEF Rows
<1>5. /\ Save(t, new) /\ Leave(t) /\ trail' = trail
      /\ withdrawn' = withdrawn \cup {act[t].job}
  BY DEF CancelCommit
<1> HIDE DEF new
<1>6. /\ row'[act[t].job] = Merge(row[act[t].job], seen, new)
      /\ \A k \in Jobs \ {act[t].job} : row'[k] = row[k]
  BY <1>1, <1>4, <1>5, SaveEffect DEF TypeOK
<1>7. /\ row'[act[t].job].status = "cancelled"
      /\ row'[act[t].job].attempts = row[act[t].job].attempts
  BY <1>2, <1>3, <1>4, <1>6, MergeRows
<1>8. row'[act[t].job].cancel = (row[act[t].job].cancel \/ ~seen.cancel)
  <2>1. seen.cancel \in BOOLEAN /\ row[act[t].job].cancel \in BOOLEAN
    BY <1>2 DEF Rows
  <2>2. row'[act[t].job].cancel =
          IF new.cancel # seen.cancel THEN new.cancel ELSE row[act[t].job].cancel
    BY <1>2, <1>4, <1>6, MergeRows
  <2> QED
    BY <1>4, <2>1, <2>2, Zenon
<1>9. OnlyActor(t) /\ act'[t].pc \in Resting
  BY <1>1, <1>5, LeaveEffect DEF OnlyActor, Resting
<1> QED
  BY <1>1, <1>2, <1>5, <1>6, <1>7, <1>8, <1>9 DEF OnlyJob

\* A reset writes status and attempt_count for certain, for both had other values.
LEMMA ResetWrites ==
  ASSUME TypeOK, RetryInv, SyncInv, NEW t \in Threads, ReprocessCommit(t)
  PROVE  /\ act[t].pc = "resetting" /\ act[t].job \in Jobs
         /\ OnlyActor(t) /\ OnlyJob(act[t].job) /\ act'[t].pc \in Resting
         /\ withdrawn' = withdrawn \ {act[t].job}
         /\ row[act[t].job].status # "absent"
         /\ row'[act[t].job].status = "pending"
         /\ row'[act[t].job].attempts = 0
         /\ row'[act[t].job].cancel => row[act[t].job].cancel
         /\ trail'[act[t].job] = [count |-> 0, last |-> "pending"]
<1> DEFINE seen == act[t].seen
           new == [status |-> "pending", attempts |-> 0, cancel |-> FALSE]
<1>1. t \in Actors /\ act[t].pc = "resetting" /\ ActOK
  BY DEF ReprocessCommit, Actors, TypeOK, ActOK
<1>2. /\ act[t].job \in Jobs /\ seen \in Rows /\ row[act[t].job] \in Rows
      /\ row[act[t].job].status # "absent"
  BY <1>1, BusyActor, KnownJob DEF TypeOK, Preparing
<1>3. seen.status # "pending" /\ seen.attempts # 0
  BY <1>1, <1>2 DEF RetryInv, SeenOK, Ended, Rows
<1>4. new \in Rows /\ new.status = "pending" /\ new.attempts = 0 /\ ~new.cancel
  BY ResetRow
<1>5. /\ Save(t, new) /\ Goto(t, "requeueing")
      /\ trail' = [trail EXCEPT ![act[t].job] = [count |-> 0, last |-> "pending"]]
      /\ withdrawn' = withdrawn \ {act[t].job}
  BY DEF ReprocessCommit
<1> HIDE DEF new
<1>6. /\ row'[act[t].job] = Merge(row[act[t].job], seen, new)
      /\ \A k \in Jobs \ {act[t].job} : row'[k] = row[k]
  BY <1>1, <1>4, <1>5, SaveEffect DEF TypeOK
<1>7. row'[act[t].job].status = "pending" /\ row'[act[t].job].attempts = 0
  BY <1>2, <1>3, <1>4, <1>6, MergeRows
<1>8. row'[act[t].job].cancel => row[act[t].job].cancel
  <2>1. row'[act[t].job].cancel =
          IF new.cancel # seen.cancel THEN new.cancel ELSE row[act[t].job].cancel
    BY <1>2, <1>4, <1>6, MergeRows
  <2> QED
    BY <1>4, <2>1, Zenon
<1>9. OnlyActor(t) /\ act'[t].pc \in Resting
  BY <1>1, <1>5, GotoEffect DEF OnlyActor, Resting, PCs
<1>10. /\ trail'[act[t].job] = [count |-> 0, last |-> "pending"]
      /\ \A k \in Jobs \ {act[t].job} : trail'[k] = trail[k]
  BY <1>2, <1>5 DEF TypeOK
<1> QED
  BY <1>1, <1>2, <1>5, <1>6, <1>7, <1>9, <1>10, <1>8 DEF OnlyJob

-----------------------------------------------------------------------------
(* New jobs *)

\* What holds for any number of workers and threads.
EngineInv == TypeOK /\ RetryInv /\ SyncInv

\* A job that has no row yet was not attempted and not cancelled.
FreshInv ==
  \A j \in Jobs : row[j].status = "absent" =>
    row[j].attempts = 0 /\ trail[j].count = 0 /\ j \notin withdrawn

\* No step but its insert is about a job without a row.
LEMMA FreshStep ==
  ASSUME EngineInv, FreshInv, [Next]_vars
  PROVE  FreshInv'
<1> USE DEF EngineInv
<1>1. CASE Quiet
  BY <1>1 DEF Quiet, FreshInv
<1>2. ASSUME NEW a \in Actors, Attempts(a)
      PROVE  FreshInv'
  <2>1. row'[act[a].job].status # "absent"
    BY <1>2, AttemptWrites DEF Outcomes
  <2> QED
    BY <1>2, <2>1, AttemptWrites DEF FreshInv, OnlyJob
<1>3. ASSUME NEW t \in Threads, Insert(t)
      PROVE  FreshInv'
  BY <1>3, InsertWrites DEF FreshInv, OnlyJob
<1>4. ASSUME NEW t \in Threads, CancelCommit(t)
      PROVE  FreshInv'
  BY <1>4, CancelWrites DEF FreshInv, OnlyJob
<1>5. ASSUME NEW t \in Threads, ReprocessCommit(t)
      PROVE  FreshInv'
  BY <1>5, ResetWrites DEF FreshInv, OnlyJob
<1> QED
  BY <1>1, <1>2, <1>3, <1>4, <1>5, StepKinds

\* Both hold from the start and are kept.
LEMMA EngineHolds == Spec => [](EngineInv /\ FreshInv)
<1>1. Init => EngineInv /\ FreshInv
  BY InitType, InitRetry, InitSync DEF Init, EngineInv, FreshInv, Absent, NewRow
<1>2. EngineInv /\ FreshInv /\ [Next]_vars => (EngineInv /\ FreshInv)'
  BY FreshStep, TypeStep, RetryStep, SyncStep DEF EngineInv
<1> QED
  BY <1>1, <1>2, PTL DEF Spec

-----------------------------------------------------------------------------
(* One worker: an attempt has its job to itself *)

\* No other attempt writes the row of a job that is attempted: it can be cancelled
\* or reset meanwhile, and no more, and its log does not grow.
AttemptInv ==
  \A a \in Actors : act[a].pc = "running" =>
    /\ row[act[a].job].status \in Live \cup {"cancelled"}
    /\ trail[act[a].job].count <= act[a].seen.attempts

AuditInv == AttemptInv /\ DeadLetterExhausted /\ AttemptsCoverLogs /\ AuditAgrees

\* Two attempts of one job are one.
LEMMA OneAttempt ==
  ASSUME OneWorker, SyncInv, NEW a \in Actors, NEW b \in Actors,
         act[a].pc = "running", act[b].pc = "running", act[a].job = act[b].job
  PROVE  a = b
BY DEF OneWorker, SyncInv, AloneIn, Actors

\* The end of an attempt counts and logs it together.
LEMMA AuditAttempt ==
  ASSUME OneWorker, EngineInv, AuditInv, NEW a \in Actors, Attempts(a)
  PROVE  AuditInv'
<1> USE DEF EngineInv
<1> DEFINE j == act[a].job
<1>1. /\ j \in Jobs /\ act[a].pc = "running" /\ OnlyJob(j) /\ OnlyActor(a)
      /\ act'[a].pc \in Resting /\ act[a].seen.status \in Live
      /\ row'[j].attempts = act[a].seen.attempts + 1
      /\ trail'[j].count = trail[j].count + 1
  BY AttemptWrites
<1>2. PICK status \in Outcomes :
        /\ trail'[j].last = status
        /\ row'[j].status = IF status # act[a].seen.status THEN status ELSE row[j].status
        /\ status = "dead_letter" => act[a].seen.attempts + 1 = MaxAttempts
  BY AttemptWrites
<1>3. row[j].status \in Live \cup {"cancelled"} /\ trail[j].count <= act[a].seen.attempts
  BY <1>1 DEF AuditInv, AttemptInv
<1>4. trail[j].count \in Nat /\ act[a].seen.attempts \in Nat
  BY <1>1, BusyActor DEF TypeOK, ActOK, Rows
<1>5. status = act[a].seen.status => status = "retrying"
  BY <1>1 DEF Live, Outcomes
<1>6. AttemptInv'
  <2> SUFFICES ASSUME NEW b \in Actors, act'[b].pc = "running"
               PROVE  /\ row'[act'[b].job].status \in Live \cup {"cancelled"}
                      /\ trail'[act'[b].job].count <= act'[b].seen.attempts
    BY DEF AttemptInv
  <2>1. b # a /\ act'[b] = act[b] /\ act[b].job \in Jobs
    BY <1>1, BusyActor DEF OnlyActor, Resting, TypeOK, ActOK
  <2>2. act[b].job # j
    BY <1>1, <2>1, OneAttempt
  <2> QED
    BY <1>1, <2>1, <2>2 DEF OnlyJob, AuditInv, AttemptInv
<1>7. row'[j].status = "dead_letter" => row'[j].attempts = MaxAttempts
  BY <1>1, <1>2, <1>3 DEF Live
<1>8. trail'[j].count <= row'[j].attempts
  BY <1>1, <1>3, <1>4
<1>9. row'[j].status \in Ended \cup {"success", "ignored", "retrying"} =>
        trail'[j].last = row'[j].status
  BY <1>2, <1>3, <1>5 DEF Live, Ended
<1> QED
  BY <1>1, <1>6, <1>7, <1>8, <1>9
  DEF OnlyJob, AuditInv, DeadLetterExhausted, AttemptsCoverLogs, AuditAgrees

\* So does every other step.
LEMMA AuditStep ==
  ASSUME OneWorker, EngineInv, FreshInv, AuditInv, [Next]_vars
  PROVE  AuditInv'
<1> USE DEF EngineInv
<1>0. \A a \in Actors : act[a].pc = "running" => act[a].job \in Jobs
  BY BusyActor DEF TypeOK, ActOK
<1>1. CASE Quiet
  <2>1. UNCHANGED <<row, trail>> /\ \A a \in Actors : MovesOn(a)
    BY <1>1 DEF Quiet
  <2>2. AttemptInv'
    <3> SUFFICES ASSUME NEW a \in Actors, act'[a].pc = "running"
                 PROVE  /\ row[act'[a].job].status \in Live \cup {"cancelled"}
                        /\ trail[act'[a].job].count <= act'[a].seen.attempts
      BY <2>1 DEF AttemptInv
    <3>1. CASE act'[a] = act[a]
      BY <3>1 DEF AuditInv, AttemptInv
    <3>2. CASE act'[a] # act[a]
      BY <2>1, <3>2 DEF MovesOn, Resting, Preparing, AuditInv, AttemptsCoverLogs
    <3> QED
      BY <3>1, <3>2
  <2> QED
    BY <2>1, <2>2 DEF AuditInv, DeadLetterExhausted, AttemptsCoverLogs, AuditAgrees
<1>2. ASSUME NEW t \in Threads, NEW j \in Jobs, OnlyActor(t), OnlyJob(j),
             act'[t].pc \in Resting, row'[j].status \in {"pending", "cancelled", "ignored"},
             trail'[j].count <= row'[j].attempts,
             row'[j].status = "ignored" => trail'[j].last = "ignored",
             \A a \in Actors \ {t} : act[a].pc = "running" /\ act[a].job = j =>
               /\ row'[j].status # "ignored"
               /\ trail'[j].count <= act[a].seen.attempts
      PROVE  AuditInv'
  <2>1. AttemptInv'
    <3> SUFFICES ASSUME NEW a \in Actors, act'[a].pc = "running"
                 PROVE  /\ row'[act'[a].job].status \in Live \cup {"cancelled"}
                        /\ trail'[act'[a].job].count <= act'[a].seen.attempts
      BY DEF AttemptInv
    <3>1. a # t /\ act'[a] = act[a] /\ act[a].job \in Jobs
      BY <1>0, <1>2 DEF OnlyActor, Resting
    <3> QED
      BY <1>2, <3>1 DEF OnlyJob, AuditInv, AttemptInv, Live
  <2> QED
    BY <1>2, <2>1
    DEF OnlyJob, AuditInv, DeadLetterExhausted, AttemptsCoverLogs, AuditAgrees, Ended
<1>3. ASSUME NEW t \in Threads, Insert(t)
      PROVE  AuditInv'
  BY <1>2, <1>3, InsertWrites DEF FreshInv
<1>4. ASSUME NEW t \in Threads, CancelCommit(t)
      PROVE  AuditInv'
  BY <1>2, <1>4, CancelWrites DEF AuditInv, AttemptInv, AttemptsCoverLogs
<1>5. ASSUME NEW t \in Threads, ReprocessCommit(t)
      PROVE  AuditInv'
  <2>1. \A a \in Actors : act[a].pc = "running" => 0 <= act[a].seen.attempts
    BY BusyActor DEF TypeOK, ActOK, Rows
  <2> QED
    BY <1>2, <1>5, <2>1, ResetWrites
<1> QED
  BY <1>1, <1>3, <1>4, <1>5, AuditAttempt, StepKinds

\* With one worker, the audit trail and the row agree throughout.
LEMMA AuditHolds ==
  ASSUME OneWorker
  PROVE  Spec => []AuditInv
<1>1. Init => AuditInv
  BY DEF Init, AuditInv, AttemptInv, DeadLetterExhausted, AttemptsCoverLogs, AuditAgrees,
         Idle, Doing, Absent, NewRow, Ended
<1>2. EngineInv /\ FreshInv /\ AuditInv /\ [Next]_vars => AuditInv'
  BY AuditStep
<1> QED
  BY <1>1, <1>2, EngineHolds, PTL DEF Spec

\* With one worker, a job is dead_letter only when its retries are used up, whatever
\* cancellations, resets and redeliveries its attempts overlap with.
THEOREM DeadLetterExhaustedHolds ==
  ASSUME OneWorker
  PROVE  Spec => []DeadLetterExhausted
<1>1. AuditInv => DeadLetterExhausted
  BY DEF AuditInv
<1> QED
  BY <1>1, AuditHolds, PTL

\* With one worker, no attempt in the log goes uncounted.
THEOREM AttemptsCoverLogsHolds ==
  ASSUME OneWorker
  PROVE  Spec => []AttemptsCoverLogs
<1>1. AuditInv => AttemptsCoverLogs
  BY DEF AuditInv
<1> QED
  BY <1>1, AuditHolds, PTL

\* With one worker, the newest log of a job that has an outcome names it.
THEOREM AuditAgreesHolds ==
  ASSUME OneWorker
  PROVE  Spec => []AuditAgrees
<1>1. AuditInv => AuditAgrees
  BY DEF AuditInv
<1> QED
  BY <1>1, AuditHolds, PTL

-----------------------------------------------------------------------------
(* One client: nothing happens to a request between its check and its commit but the
   steps of workers *)

\* The flag of a job whose cancellation was acknowledged stays; a cancellation under way
\* has seen the flag as it is.
FlagInv ==
  /\ \A j \in withdrawn : row[j].cancel
  /\ \A t \in Threads : act[t].pc = "cancelling" => row[act[t].job].cancel = act[t].seen.cancel

\* No attempt writes the flag, and a reset takes back the cancellation with it.
LEMMA FlagStep ==
  ASSUME OneClient, EngineInv, FreshInv, FlagInv, [Next]_vars
  PROVE  FlagInv'
<1> USE DEF EngineInv
<1>0. /\ withdrawn \subseteq Jobs
      /\ \A t \in Threads : act[t].pc = "cancelling" => act[t].job \in Jobs
  BY BusyActor DEF TypeOK, ActOK, Actors
<1>1. CASE Quiet
  BY <1>1 DEF Quiet, FlagInv, MovesOn, Actors, Resting, Preparing
<1>2. ASSUME NEW a \in Actors, Attempts(a)
      PROVE  FlagInv'
  <2>1. \A j \in Jobs : row'[j].cancel = row[j].cancel
    BY <1>2, AttemptWrites DEF OnlyJob
  <2>2. \A b \in Actors : act'[b] = act[b] \/ act'[b].pc \in Resting
    BY <1>2, AttemptWrites DEF OnlyActor
  <2>3. withdrawn' = withdrawn
    BY <1>2, AttemptWrites
  <2> QED
    BY <1>0, <2>1, <2>2, <2>3 DEF FlagInv, Actors, Resting
<1>3. ASSUME NEW t \in Threads, Insert(t) \/ CancelCommit(t) \/ ReprocessCommit(t)
      PROVE  \A u \in Threads : act'[u].pc \in Resting
  BY <1>3, InsertWrites, CancelWrites, ResetWrites DEF OneClient
<1>4. ASSUME NEW t \in Threads, Insert(t)
      PROVE  FlagInv'
  <2>1. act[t].job \notin withdrawn
    BY <1>4, InsertWrites DEF FreshInv
  <2> QED
    BY <1>0, <1>3, <1>4, <2>1, InsertWrites DEF FlagInv, OnlyJob, Resting
<1>5. ASSUME NEW t \in Threads, CancelCommit(t)
      PROVE  FlagInv'
  <2>1. row'[act[t].job].cancel
    <3>1. row[act[t].job].cancel = act[t].seen.cancel
      BY <1>5, CancelWrites DEF FlagInv
    <3>2. row'[act[t].job].cancel = (row[act[t].job].cancel \/ ~act[t].seen.cancel)
      BY <1>5, CancelWrites
    <3> QED
      BY <3>1, <3>2, Zenon
  <2> QED
    BY <1>0, <1>3, <1>5, <2>1, CancelWrites DEF FlagInv, OnlyJob, Resting
<1>6. ASSUME NEW t \in Threads, ReprocessCommit(t)
      PROVE  FlagInv'
  BY <1>0, <1>3, <1>6, ResetWrites DEF FlagInv, OnlyJob, Resting
<1> QED
  BY <1>1, <1>2, <1>4, <1>5, <1>6, StepKinds

\* With one client, an acknowledged cancellation is not forgotten, however many workers
\* there are and whatever faults happen.
THEOREM CancelRememberedHolds ==
  ASSUME OneClient
  PROVE  Spec => []CancelRemembered
<1>1. Init => FlagInv
  BY DEF Init, FlagInv, Idle, Doing, Actors
<1>2. EngineInv /\ FreshInv /\ FlagInv /\ [Next]_vars => FlagInv'
  BY FlagStep
<1>3. FlagInv => CancelRemembered
  BY DEF FlagInv, CancelRemembered
<1> QED
  BY <1>1, <1>2, <1>3, EngineHolds, PTL DEF Spec

-----------------------------------------------------------------------------
(* One worker and one client *)

\* A job that is being reset has ended and is not attempted meanwhile, so that an
\* attempt has seen the count of the log it adds to.
SettledInv ==
  /\ AttemptsMatchLogs
  /\ \A a \in Actors : act[a].pc = "running" => trail[act[a].job].count = act[a].seen.attempts
  /\ \A t \in Threads : act[t].pc = "resetting" => row[act[t].job].status \in Ended

\* No attempt and no reset of one job overlap.
LEMMA NoAttemptReset ==
  ASSUME AttemptInv, SettledInv, NEW a \in Actors, NEW t \in Threads,
         act[a].pc = "running", act[t].pc = "resetting"
  PROVE  act[a].job # act[t].job
BY DEF AttemptInv, SettledInv, Live, Ended

\* Every step keeps count and log together.
LEMMA SettledStep ==
  ASSUME OneWorker, OneClient, EngineInv, FreshInv, AuditInv, SettledInv, [Next]_vars
  PROVE  SettledInv'
<1> USE DEF EngineInv
<1>0. \A a \in Actors : act[a].pc # "idle" => act[a].job \in Jobs
  BY BusyActor DEF TypeOK, ActOK
<1>1. CASE Quiet
  <2>1. UNCHANGED <<row, trail>> /\ \A a \in Actors : MovesOn(a)
    BY <1>1 DEF Quiet
  <2>2. ASSUME NEW a \in Actors
        PROVE  /\ act'[a].pc = "running" => trail[act'[a].job].count = act'[a].seen.attempts
               /\ a \in Threads /\ act'[a].pc = "resetting" => row[act'[a].job].status \in Ended
    <3>1. CASE act'[a] = act[a]
      BY <3>1 DEF SettledInv
    <3>2. CASE act'[a] # act[a]
      BY <2>1, <3>2 DEF MovesOn, Resting, Preparing, SettledInv, AttemptsMatchLogs
    <3> QED
      BY <3>1, <3>2
  <2> QED
    BY <2>1, <2>2 DEF SettledInv, AttemptsMatchLogs, Actors
<1>2. ASSUME NEW a \in Actors, Attempts(a)
      PROVE  SettledInv'
  <2> DEFINE j == act[a].job
  <2>1. /\ j \in Jobs /\ act[a].pc = "running" /\ OnlyJob(j) /\ OnlyActor(a)
        /\ act'[a].pc \in Resting
        /\ row'[j].attempts = act[a].seen.attempts + 1
        /\ trail'[j].count = trail[j].count + 1
    BY <1>2, AttemptWrites
  <2>2. AttemptsMatchLogs'
    BY <2>1 DEF OnlyJob, SettledInv, AttemptsMatchLogs
  <2>3. ASSUME NEW b \in Actors, act'[b].pc = "running"
        PROVE  trail'[act'[b].job].count = act'[b].seen.attempts
    <3>1. b # a /\ act'[b] = act[b] /\ act[b].job \in Jobs
      BY <1>0, <2>1, <2>3 DEF OnlyActor, Resting
    <3>2. act[b].job # j
      BY <2>1, <2>3, <3>1, OneAttempt
    <3> QED
      BY <2>1, <2>3, <3>1, <3>2 DEF OnlyJob, SettledInv
  <2>4. ASSUME NEW t \in Threads, act'[t].pc = "resetting"
        PROVE  row'[act'[t].job].status \in Ended
    <3>1. act'[t] = act[t] /\ act[t].job \in Jobs
      BY <1>0, <2>1, <2>4 DEF OnlyActor, Resting, Actors
    <3>2. act[t].job # j
      BY <2>1, <2>4, <3>1, NoAttemptReset DEF AuditInv
    <3> QED
      BY <2>1, <2>4, <3>1, <3>2 DEF OnlyJob, SettledInv
  <2> QED
    BY <2>2, <2>3, <2>4 DEF SettledInv
<1>3. ASSUME NEW t \in Threads, NEW j \in Jobs, OnlyActor(t), OnlyJob(j),
             act'[t].pc \in Resting, row'[j].attempts = trail'[j].count,
             \A a \in Actors \ {t} : act[a].pc = "running" /\ act[a].job = j =>
               trail'[j].count = trail[j].count
      PROVE  SettledInv'
  <2>1. ASSUME NEW a \in Actors, act'[a].pc = "running"
        PROVE  trail'[act'[a].job].count = act'[a].seen.attempts
    <3>1. a # t /\ act'[a] = act[a] /\ act[a].job \in Jobs
      BY <1>0, <1>3, <2>1 DEF OnlyActor, Resting
    <3> QED
      BY <1>3, <2>1, <3>1 DEF OnlyJob, SettledInv
  <2>2. \A u \in Threads : act'[u].pc # "resetting"
    BY <1>3 DEF OneClient, Resting
  <2> QED
    BY <1>3, <2>1, <2>2 DEF OnlyJob, SettledInv, AttemptsMatchLogs
<1>4. ASSUME NEW t \in Threads, Insert(t)
      PROVE  SettledInv'
  BY <1>3, <1>4, InsertWrites DEF FreshInv
<1>5. ASSUME NEW t \in Threads, CancelCommit(t)
      PROVE  SettledInv'
  BY <1>3, <1>5, CancelWrites DEF SettledInv, AttemptsMatchLogs
<1>6. ASSUME NEW t \in Threads, ReprocessCommit(t)
      PROVE  SettledInv'
  <2>1. \A a \in Actors : act[a].pc = "running" => act[a].job # act[t].job
    BY <1>6, ResetWrites, NoAttemptReset DEF AuditInv
  <2> QED
    BY <1>3, <1>6, <2>1, ResetWrites
<1> QED
  BY <1>1, <1>2, <1>4, <1>5, <1>6, StepKinds

\* Both hold from the start and are kept.
LEMMA SettledHolds ==
  ASSUME OneWorker, OneClient
  PROVE  Spec => [](AuditInv /\ SettledInv)
<1>1. Init => SettledInv
  BY DEF Init, SettledInv, AttemptsMatchLogs, Idle, Doing, Absent, NewRow, Actors
<1>2. EngineInv /\ FreshInv /\ AuditInv /\ SettledInv /\ [Next]_vars => SettledInv'
  BY SettledStep
<1> QED
  BY <1>1, <1>2, EngineHolds, AuditHolds, PTL DEF Spec

\* With one worker and one client, attempt_count is the number of attempts in the log.
THEOREM AttemptsMatchLogsHolds ==
  ASSUME OneWorker, OneClient
  PROVE  Spec => []AttemptsMatchLogs
<1>1. SettledInv => AttemptsMatchLogs
  BY DEF SettledInv
<1> QED
  BY <1>1, SettledHolds, PTL

-----------------------------------------------------------------------------
(* Duplicates *)

\* A success that is going to stay: no cancellation checked before it is under way.
Final(d) ==
  /\ row[d].status = "success"
  /\ \A t \in Threads : act[t].pc = "cancelling" => act[t].job # d

Processed(j) == \E d \in Jobs : KeyOf[d] = KeyOf[j] /\ Final(d)

\* What was ignored, or is about to be, has been processed.
DuplicateInv ==
  /\ \A j \in Jobs : row[j].status = "ignored" => Processed(j)
  /\ \A t \in Threads :
       act[t].pc \in Preparing /\ act[t].seen.status = "ignored" => Processed(act[t].job)

\* A final success is left by no step.
LEMMA FinalStays ==
  ASSUME OneClient, EngineInv, AuditInv, SettledInv, [Next]_vars, NEW d \in Jobs, Final(d)
  PROVE  Final(d)'
<1> USE DEF EngineInv
<1>0. /\ row[d].status = "success"
      /\ \A t \in Threads : act[t].pc = "cancelling" => act[t].job # d
  BY DEF Final
<1>1. CASE Quiet
  <2>1. row' = row /\ \A a \in Actors : MovesOn(a)
    BY <1>1 DEF Quiet
  <2>2. ASSUME NEW t \in Threads, act'[t].pc = "cancelling"
        PROVE  act'[t].job # d
    BY <1>0, <2>1, <2>2 DEF MovesOn, Resting, Preparing, Actors, Live
  <2> QED
    BY <1>0, <2>1, <2>2 DEF Final
<1>2. ASSUME NEW a \in Actors, Attempts(a)
      PROVE  Final(d)'
  <2>1. act[a].job # d
    BY <1>0, <1>2, AttemptWrites DEF AuditInv, AttemptInv, Live
  <2> QED
    BY <1>0, <1>2, <2>1, AttemptWrites DEF Final, OnlyJob, OnlyActor, Resting, Actors
<1>3. ASSUME NEW t \in Threads, Insert(t) \/ CancelCommit(t) \/ ReprocessCommit(t)
      PROVE  Final(d)'
  <2>1. act[t].job # d
    BY <1>0, <1>3, InsertWrites, CancelWrites, ResetWrites DEF SettledInv, Ended
  <2>2. OnlyJob(act[t].job) /\ OnlyActor(t) /\ act'[t].pc \in Resting
    BY <1>3, InsertWrites, CancelWrites, ResetWrites
  <2> QED
    BY <1>0, <2>1, <2>2 DEF Final, OnlyJob, OnlyActor, Resting, Actors
<1> QED
  BY <1>1, <1>2, <1>3, StepKinds

\* A job becomes ignored by its insert only.
LEMMA IgnoredByInsert ==
  ASSUME EngineInv, [Next]_vars, NEW j \in Jobs,
         row'[j].status = "ignored", row[j].status # "ignored"
  PROVE  \E t \in Threads : /\ act[t].pc \in Preparing /\ act[t].job = j
                            /\ act[t].seen.status = "ignored"
<1> USE DEF EngineInv
<1>1. ~Quiet
  BY DEF Quiet
<1>2. ASSUME NEW a \in Actors, Attempts(a)
      PROVE  FALSE
  BY <1>2, AttemptWrites DEF OnlyJob, Outcomes
<1>3. ASSUME NEW t \in Threads, CancelCommit(t) \/ ReprocessCommit(t)
      PROVE  FALSE
  BY <1>3, CancelWrites, ResetWrites DEF OnlyJob
<1>4. ASSUME NEW t \in Threads, Insert(t)
      PROVE  act[t].pc \in Preparing /\ act[t].job = j /\ act[t].seen.status = "ignored"
  BY <1>4, InsertWrites DEF OnlyJob
<1> QED
  BY <1>1, <1>2, <1>3, <1>4, StepKinds

\* The lookup of a duplicate finds a final success, for nobody else asks for anything.
LEMMA DuplicateStep ==
  ASSUME OneClient, EngineInv, AuditInv, SettledInv, DuplicateInv, [Next]_vars
  PROVE  DuplicateInv'
<1> USE DEF EngineInv
<1>1. \A d \in Jobs : Final(d) => Final(d)'
  BY FinalStays
<1>2. ASSUME NEW j \in Jobs, row'[j].status = "ignored"
      PROVE  \E d \in Jobs : KeyOf[d] = KeyOf[j] /\ Final(d)'
  <2>1. CASE row[j].status = "ignored"
    BY <1>1, <2>1 DEF DuplicateInv, Processed
  <2>2. CASE row[j].status # "ignored"
    BY <1>1, <1>2, <2>2, IgnoredByInsert DEF DuplicateInv, Processed
  <2> QED
    BY <2>1, <2>2
<1>3. ASSUME NEW t \in Threads, act'[t].pc \in Preparing, act'[t].seen.status = "ignored"
      PROVE  \E d \in Jobs : KeyOf[d] = KeyOf[act'[t].job] /\ Final(d)'
  <2>1. CASE act'[t] = act[t]
    BY <1>1, <1>3, <2>1 DEF DuplicateInv, Processed
  <2>2. CASE act'[t] # act[t]
    <3>1. Quiet
      BY <1>3, <2>2, StepKinds, AttemptWrites, InsertWrites, CancelWrites, ResetWrites
      DEF OnlyActor, Actors, Resting, Preparing
    <3>2. row' = row /\ Duplicate(act'[t].job)
      BY <1>3, <2>2, <3>1 DEF Quiet, MovesOn, Actors, Resting, Preparing
    <3>3. \A u \in Threads : act'[u].pc # "cancelling"
      BY <1>3 DEF OneClient, Preparing
    <3>4. \A d \in Jobs : row[d].status = "success" => Final(d)'
      BY <3>2, <3>3 DEF Final
    <3> QED
      BY <3>2, <3>4 DEF Duplicate
  <2> QED
    BY <2>1, <2>2
<1> QED
  BY <1>2, <1>3 DEF DuplicateInv, Processed

\* With one worker and one client, a payload is ignored as a duplicate only next to the
\* job that processed it successfully.
THEOREM IgnoredHasSuccessHolds ==
  ASSUME OneWorker, OneClient
  PROVE  Spec => []IgnoredHasSuccess
<1>1. Init => DuplicateInv
  BY DEF Init, DuplicateInv, Idle, Doing, Absent, NewRow, Preparing, Actors
<1>2. EngineInv /\ AuditInv /\ SettledInv /\ DuplicateInv /\ [Next]_vars => DuplicateInv'
  BY DuplicateStep
<1>3. DuplicateInv => IgnoredHasSuccess
  BY DEF DuplicateInv, Processed, Final, IgnoredHasSuccess
<1> QED
  BY <1>1, <1>2, <1>3, EngineHolds, SettledHolds, PTL DEF Spec

\* With one worker and one client, the one thing that undoes a success is a cancellation
\* that looked at the job before it succeeded (routes_jobs.py:55-62): SuccessFinal, which
\* the code does not keep, fails in no other way.
THEOREM FinalSuccessStays ==
  ASSUME OneWorker, OneClient
  PROVE  Spec => [][\A d \in Jobs : Final(d) => row'[d].status = "success"]_vars
<1>1. EngineInv /\ AuditInv /\ SettledInv /\ [Next]_vars
        => [\A d \in Jobs : Final(d) => row'[d].status = "success"]_vars
  BY FinalStays DEF Final
<1> QED
  BY <1>1, EngineHolds, SettledHolds, PTL DEF Spec

=============================================================================
