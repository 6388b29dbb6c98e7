--------------------------- MODULE JobEngineProofs ---------------------------
(***************************************************************************)
(* Theorems about JobEngine for any sets of jobs, workers, threads and     *)
(* faults and any limit of attempts.                                       *)
(***************************************************************************)
EXTENDS JobEngine, TLAPS

-----------------------------------------------------------------------------
(* Rows *)

\* A merged row is a row, and each of its columns is the new value where the
\* actor changed it and the current one elsewhere.
LEMMA MergeRows ==
  ASSUME NEW current \in Rows, NEW loaded \in Rows, NEW new \in Rows
  PROVE  /\ Merge(current, loaded, new) \in Rows
         /\ Merge(current, loaded, new).status =
              IF new.status # loaded.status THEN new.status ELSE current.status
         /\ Merge(current, loaded, new).attempts =
              IF new.attempts # loaded.attempts THEN new.attempts ELSE current.attempts
         /\ Merge(current, loaded, new).cancel =
              IF new.cancel # loaded.cancel THEN new.cancel ELSE current.cancel
<1>1. DOMAIN current = {"status", "attempts", "cancel"}
  BY DEF Rows
<1>2. Merge(current, loaded, new) =
        [status |-> IF new.status # loaded.status THEN new.status ELSE current.status,
         attempts |-> IF new.attempts # loaded.attempts THEN new.attempts ELSE current.attempts,
         cancel |-> IF new.cancel # loaded.cancel THEN new.cancel ELSE current.cancel]
  BY <1>1 DEF Merge
<1> QED
  BY <1>2 DEF Rows

\* The row of a new job, and the row an attempt writes.
LEMMA NewRows ==
  ASSUME NEW status \in Statuses
  PROVE  /\ NewRow(status) \in Rows
         /\ NewRow(status).status = status
         /\ NewRow(status).attempts = 0
  BY DEF NewRow, Rows

LEMMA TriedRows ==
  ASSUME NEW seen \in Rows, NEW status \in Statuses
  PROVE  /\ Tried(seen, status) \in Rows
         /\ Tried(seen, status).status = status
         /\ Tried(seen, status).attempts = seen.attempts + 1
  BY DEF Tried, Rows

\* The row a cancellation writes, and the row a reset writes.
LEMMA CancelledRows ==
  ASSUME NEW seen \in Rows
  PROVE  /\ [seen EXCEPT !.status = "cancelled", !.cancel = TRUE] \in Rows
         /\ [seen EXCEPT !.status = "cancelled", !.cancel = TRUE].status = "cancelled"
         /\ [seen EXCEPT !.status = "cancelled", !.cancel = TRUE].attempts = seen.attempts
  BY DEF Rows, Statuses

LEMMA ResetRow ==
  [status |-> "pending", attempts |-> 0, cancel |-> FALSE] \in Rows
  BY DEF Rows, Statuses, Live

\* A failed attempt leaves one of three statuses.
LEMMA FailureStatuses ==
  \A kind, n : FailureStatus(kind, n) \in {"failed", "retrying", "dead_letter"}
  BY DEF FailureStatus

-----------------------------------------------------------------------------
(* What the primitives do to the actors and to the rows *)

ActOK ==
  /\ act \in [Actors -> [pc : PCs, job : Jobs \cup {NoJob}, seen : Rows]]
  /\ \A a \in Actors : act[a].pc = "idle" <=> act[a].job = NoJob

\* An actor that is not idle has a job.
LEMMA BusyActor ==
  ASSUME ActOK, NEW a \in Actors, act[a].pc # "idle"
  PROVE  act[a].job \in Jobs /\ act[a].seen \in Rows /\ act[a].pc \in PCs
  BY DEF ActOK

\* An actor that goes on keeps its job and the row it loaded.
LEMMA GotoEffect ==
  ASSUME ActOK, NEW a \in Actors, act[a].pc # "idle",
         NEW pc \in PCs \ {"idle"}, Goto(a, pc)
  PROVE  /\ ActOK'
         /\ act'[a].pc = pc /\ act'[a].job = act[a].job /\ act'[a].seen = act[a].seen
         /\ \A b \in Actors \ {a} : act'[b] = act[b]
  BY DEF ActOK, Goto

\* An actor that begins holds the job and the row it loaded.
LEMMA DoingEffect ==
  ASSUME ActOK, NEW a \in Actors, NEW pc \in PCs \ {"idle"}, NEW j \in Jobs,
         NEW seen \in Rows, act' = [act EXCEPT ![a] = Doing(pc, j, seen)]
  PROVE  /\ ActOK'
         /\ act'[a].pc = pc /\ act'[a].job = j /\ act'[a].seen = seen
         /\ \A b \in Actors \ {a} : act'[b] = act[b]
  BY NoJobAssumption DEF ActOK, Doing

\* An actor that is done is idle.
LEMMA LeaveEffect ==
  ASSUME ActOK, NEW a \in Actors, Leave(a)
  PROVE  /\ ActOK'
         /\ act'[a].pc = "idle" /\ act'[a].job = NoJob
         /\ \A b \in Actors \ {a} : act'[b] = act[b]
<1>1. Idle \in [pc : PCs, job : Jobs \cup {NoJob}, seen : Rows]
  BY NewRows DEF Idle, Doing, Absent, PCs, Statuses
<1>2. Idle.pc = "idle" /\ Idle.job = NoJob
  BY DEF Idle, Doing
<1> QED
  BY <1>1, <1>2 DEF ActOK, Leave

\* A commit merges the actor's changes into the row of its job.
LEMMA SaveEffect ==
  ASSUME ActOK, row \in [Jobs -> Rows], NEW a \in Actors, act[a].pc # "idle",
         NEW new \in Rows, Save(a, new)
  PROVE  /\ row' \in [Jobs -> Rows]
         /\ row'[act[a].job] = Merge(row[act[a].job], act[a].seen, new)
         /\ \A j \in Jobs \ {act[a].job} : row'[j] = row[j]
<1>1. act[a].job \in Jobs /\ act[a].seen \in Rows
  BY BusyActor
<1>2. Merge(row[act[a].job], act[a].seen, new) \in Rows
  BY <1>1, MergeRows
<1> QED
  BY <1>1, <1>2 DEF Save

\* A message more for one job.
LEMMA SendEffect ==
  ASSUME queue \in [Jobs -> Nat], NEW j \in Jobs, Send(j)
  PROVE  /\ queue' \in [Jobs -> Nat]
         /\ queue'[j] = queue[j] + 1
         /\ \A k \in Jobs \ {j} : queue'[k] = queue[k]
  BY DEF Send

\* A fault is counted.
LEMMA FaultEffect ==
  ASSUME faults \in Nat, NEW kind, Fault(kind)
  PROVE  faults' \in Nat
  BY DEF Fault

-----------------------------------------------------------------------------
(* Attempts *)

Outcomes == {"cancelled", "success", "failed", "retrying", "dead_letter"}

\* However an attempt ends, it commits one outcome, and retrying only while
\* attempts are left.
LEMMA AttemptEnds ==
  ASSUME NEW a \in Actors,
         AttemptCancelled(a) \/ AttemptSucceeds(a) \/ AttemptFails(a) \/ AttemptRaises(a)
  PROVE  /\ act[a].pc = "running"
         /\ \E status \in Outcomes :
              /\ Conclude(a, status)
              /\ status = "retrying" => act[a].seen.attempts + 1 < MaxAttempts
<1>1. CASE AttemptCancelled(a)
  BY <1>1 DEF AttemptCancelled, Outcomes
<1>2. CASE AttemptSucceeds(a)
  BY <1>2 DEF AttemptSucceeds, Outcomes
<1>3. CASE AttemptFails(a)
  <2>1. PICK kind \in FailureKinds :
          Conclude(a, FailureStatus(kind, act[a].seen.attempts + 1))
    BY <1>3 DEF AttemptFails
  <2>2. FailureStatus(kind, act[a].seen.attempts + 1) = "retrying"
          => act[a].seen.attempts + 1 < MaxAttempts
    BY DEF FailureStatus
  <2> QED
    BY <1>3, <2>1, <2>2, FailureStatuses DEF AttemptFails, Outcomes
<1>4. CASE AttemptRaises(a)
  BY <1>4 DEF AttemptRaises, Outcomes
<1> QED
  BY <1>1, <1>2, <1>3, <1>4

\* The commit of an outcome.
LEMMA ConcludeEffect ==
  ASSUME TypeOK, NEW a \in Actors, act[a].pc = "running",
         NEW status \in Outcomes, Conclude(a, status)
  PROVE  /\ TypeOK'
         /\ act[a].job \in Jobs
         /\ row'[act[a].job] =
              Merge(row[act[a].job], act[a].seen, Tried(act[a].seen, status))
         /\ \A j \in Jobs \ {act[a].job} : row'[j] = row[j]
         /\ UNCHANGED <<queue, syncJobs>>
         /\ \A b \in Actors \ {a} : act'[b] = act[b]
         /\ a \in Workers => /\ act'[a].pc = "committed" /\ act'[a].job = act[a].job
                             /\ act'[a].seen = act[a].seen
         /\ a \notin Workers => act'[a].pc = "idle" /\ act'[a].job = NoJob
<1>1. ActOK /\ act[a].pc # "idle" /\ status \in Statuses /\ "committed" \in PCs \ {"idle"}
  BY DEF TypeOK, ActOK, Outcomes, Statuses, Live, Ended, PCs
<1>2. act[a].job \in Jobs /\ act[a].seen \in Rows
  BY <1>1, BusyActor
<1>3. Tried(act[a].seen, status) \in Rows
  BY <1>1, <1>2, TriedRows
<1>4. /\ row' \in [Jobs -> Rows]
      /\ row'[act[a].job] =
           Merge(row[act[a].job], act[a].seen, Tried(act[a].seen, status))
      /\ \A j \in Jobs \ {act[a].job} : row'[j] = row[j]
  BY <1>1, <1>3, SaveEffect DEF Conclude, TypeOK
<1>5. /\ ActOK' /\ \A b \in Actors \ {a} : act'[b] = act[b]
      /\ a \in Workers => /\ act'[a].pc = "committed" /\ act'[a].job = act[a].job
                          /\ act'[a].seen = act[a].seen
      /\ a \notin Workers => act'[a].pc = "idle" /\ act'[a].job = NoJob
  <2>1. CASE a \in Workers
    BY <1>1, <2>1, GotoEffect DEF Conclude
  <2>2. CASE a \notin Workers
    BY <1>1, <2>2, LeaveEffect DEF Conclude
  <2> QED
    BY <2>1, <2>2
<1>6. trail' \in [Jobs -> [count : Nat, last : Statuses]]
  BY <1>1, <1>2 DEF Conclude, TypeOK
<1>7. UNCHANGED <<queue, withdrawn, syncJobs, resets, faults>>
  BY DEF Conclude, ghosts, bounds
<1> QED
  BY <1>2, <1>4, <1>5, <1>6, <1>7 DEF TypeOK, ActOK

-----------------------------------------------------------------------------
(* Types *)

\* Every variable keeps its type, whatever the actors do: execute_job, the
\* task and the three request handlers only ever commit rows of the table.
LEMMA TypeStep ==
  ASSUME TypeOK, [Next]_vars
  PROVE  TypeOK'
<1> USE DEF ghosts, bounds
<1>0. ActOK
  BY DEF TypeOK, ActOK
<1>1. ASSUME NEW w \in Workers, WorkerStep(w)
      PROVE  TypeOK'
  <2>0. w \in Actors
    BY DEF Actors
  <2>1. ASSUME NEW j \in Jobs, Load(w, j)
        PROVE  TypeOK'
    <3>1. row[j] \in Rows
      BY DEF TypeOK
    <3>2. ActOK'
      <4> DEFINE pc == IF row[j].status \in Live THEN "running" ELSE "committed"
      <4>1. pc \in PCs \ {"idle"}
        BY DEF PCs
      <4>2. act' = [act EXCEPT ![w] = Doing(pc, j, row[j])]
        BY <2>1 DEF Load
      <4> HIDE DEF pc
      <4> QED
        BY <1>0, <2>0, <3>1, <4>1, <4>2, DoingEffect
    <3>3. queue' \in [Jobs -> Nat]
      BY <2>1 DEF Load, TypeOK
    <3> QED
      BY <2>1, <3>2, <3>3 DEF Load, TypeOK, ActOK
  <2>2. CASE AttemptCancelled(w) \/ AttemptSucceeds(w) \/ AttemptFails(w) \/ AttemptRaises(w)
    BY <2>0, <2>2, AttemptEnds, ConcludeEffect
  <2>3. CASE Schedule(w)
    <3>1. act[w].job \in Jobs
      BY <1>0, <2>0, <2>3, BusyActor DEF Schedule
    <3>2. queue' \in [Jobs -> Nat]
      BY <2>3, <3>1, SendEffect DEF Schedule, TypeOK
    <3>3. ActOK'
      BY <1>0, <2>0, <2>3, GotoEffect DEF Schedule, PCs
    <3> QED
      BY <2>3, <3>2, <3>3 DEF Schedule, TypeOK, ActOK
  <2>4. CASE Ack(w)
    BY <1>0, <2>0, <2>4, LeaveEffect DEF Ack, TypeOK, ActOK
  <2> QED
    BY <1>1, <2>1, <2>2, <2>3, <2>4 DEF WorkerStep
<1>2. ASSUME NEW w \in Workers, WorkerFault(w)
      PROVE  TypeOK'
  <2>0. w \in Actors
    BY DEF Actors
  <2>1. CASE ScheduleFails(w)
    BY <1>0, <2>0, <2>1, GotoEffect, FaultEffect DEF ScheduleFails, TypeOK, ActOK, PCs
  <2>2. CASE AttemptUnsaved(w)
    BY <1>0, <2>0, <2>2, GotoEffect, FaultEffect DEF AttemptUnsaved, TypeOK, ActOK, PCs
  <2>3. CASE ChildDies(w)
    BY <1>0, <2>0, <2>3, LeaveEffect, FaultEffect DEF ChildDies, TypeOK, ActOK
  <2>4. CASE WorkerDies(w)
    <3>1. act[w].job \in Jobs
      BY <1>0, <2>0, <2>4, BusyActor DEF WorkerDies
    <3> QED
      BY <1>0, <2>0, <2>4, <3>1, LeaveEffect, SendEffect, FaultEffect
         DEF WorkerDies, TypeOK, ActOK
  <2> QED
    BY <1>2, <2>1, <2>2, <2>3, <2>4 DEF WorkerFault
<1>3. ASSUME NEW t \in Threads, NewRequest(t)
      PROVE  TypeOK'
  <2>0. t \in Actors
    BY DEF Actors
  <2>1. ASSUME NEW j \in Jobs, NEW sync \in SyncModes, Prepare(t, j, sync)
        PROVE  TypeOK'
    <3>1. NewRow(IF Duplicate(j) THEN "ignored" ELSE "pending") \in Rows
      BY NewRows DEF Statuses, Live
    <3>2. ActOK'
      BY <1>0, <2>0, <2>1, <3>1, DoingEffect DEF Prepare, PCs
    <3> QED
      BY <2>1, <3>2 DEF Prepare, TypeOK, ActOK
  <2>2. ASSUME NEW j \in Jobs, CancelRequest(t, j) \/ ReprocessRequest(t, j)
        PROVE  TypeOK'
    <3>1. row[j] \in Rows
      BY DEF TypeOK
    <3>2. ActOK'
      BY <1>0, <2>0, <2>2, <3>1, DoingEffect DEF CancelRequest, ReprocessRequest, PCs
    <3> QED
      BY <2>2, <3>2 DEF CancelRequest, ReprocessRequest, TypeOK, ActOK
  <2> QED
    BY <1>3, <2>1, <2>2 DEF NewRequest
<1>4. ASSUME NEW t \in Threads, HandlerStep(t)
      PROVE  TypeOK'
  <2>0. t \in Actors
    BY DEF Actors
  <2>1. CASE Insert(t)
    <3>1. act[t].job \in Jobs /\ act[t].seen \in Rows
      BY <1>0, <2>0, <2>1, BusyActor DEF Insert
    <3>2. row' \in [Jobs -> Rows]
      BY <2>1, <3>1 DEF Insert, TypeOK
    <3>3. ActOK'
      BY <1>0, <2>0, <2>1, LeaveEffect, GotoEffect DEF Insert, PCs
    <3>4. trail' \in [Jobs -> [count : Nat, last : Statuses]]
      BY <2>1, <3>1 DEF Insert, TypeOK, Statuses
    <3> QED
      BY <2>1, <3>1, <3>2, <3>3, <3>4 DEF Insert, TypeOK, ActOK
  <2>2. CASE Publish(t)
    <3>1. act[t].job \in Jobs
      BY <1>0, <2>0, <2>2, BusyActor DEF Publish
    <3> QED
      BY <1>0, <2>0, <2>2, <3>1, LeaveEffect, SendEffect DEF Publish, TypeOK, ActOK
  <2>3. CASE StartSync(t)
    <3>1. act[t].job \in Jobs
      BY <1>0, <2>0, <2>3, BusyActor DEF StartSync
    <3>2. row[act[t].job] \in Rows
      BY <3>1 DEF TypeOK
    <3>3. ActOK'
      BY <1>0, <2>0, <2>3, <3>2, LeaveEffect DEF StartSync, ActOK, PCs
    <3> QED
      BY <2>3, <3>3 DEF StartSync, TypeOK, ActOK
  <2>4. CASE AttemptCancelled(t) \/ AttemptSucceeds(t) \/ AttemptFails(t)
    BY <2>0, <2>4, AttemptEnds, ConcludeEffect
  <2>5. CASE SyncAttemptRaises(t)
    BY <1>0, <2>0, <2>5, LeaveEffect DEF SyncAttemptRaises, TypeOK, ActOK
  <2>6. CASE CancelCommit(t)
    <3>1. act[t].job \in Jobs /\ act[t].seen \in Rows
      BY <1>0, <2>0, <2>6, BusyActor DEF CancelCommit
    <3>2. row' \in [Jobs -> Rows]
      BY <1>0, <2>0, <2>6, <3>1, CancelledRows, SaveEffect DEF CancelCommit, TypeOK
    <3> QED
      BY <1>0, <2>0, <2>6, <3>1, <3>2, LeaveEffect DEF CancelCommit, TypeOK, ActOK
  <2>7. CASE ReprocessCommit(t)
    <3>1. act[t].job \in Jobs
      BY <1>0, <2>0, <2>7, BusyActor DEF ReprocessCommit
    <3>2. row' \in [Jobs -> Rows]
      BY <1>0, <2>0, <2>7, ResetRow, SaveEffect DEF ReprocessCommit, TypeOK
    <3>3. ActOK'
      BY <1>0, <2>0, <2>7, GotoEffect DEF ReprocessCommit, PCs
    <3>4. trail' \in [Jobs -> [count : Nat, last : Statuses]]
      BY <2>7, <3>1 DEF ReprocessCommit, TypeOK, Statuses, Live
    <3> QED
      BY <2>7, <3>2, <3>3, <3>4 DEF ReprocessCommit, TypeOK, ActOK
  <2>8. CASE Requeue(t)
    <3>1. act[t].job \in Jobs
      BY <1>0, <2>0, <2>8, BusyActor DEF Requeue
    <3> QED
      BY <1>0, <2>0, <2>8, <3>1, LeaveEffect, SendEffect DEF Requeue, TypeOK, ActOK
  <2> QED
    BY <1>4, <2>1, <2>2, <2>3, <2>4, <2>5, <2>6, <2>7, <2>8 DEF HandlerStep
<1>5. ASSUME NEW t \in Threads, RequestDies(t)
      PROVE  TypeOK'
  BY <1>0, <1>5, LeaveEffect, FaultEffect DEF RequestDies, TypeOK, ActOK, Actors
<1>6. CASE UNCHANGED vars
  BY <1>6 DEF vars, TypeOK
<1> QED
  BY <1>1, <1>2, <1>3, <1>4, <1>5, <1>6 DEF Next

LEMMA InitType == Init => TypeOK
<1>1. Absent \in Rows /\ Idle \in [pc : PCs, job : Jobs \cup {NoJob}, seen : Rows]
  BY NewRows DEF Idle, Doing, Absent, PCs, Statuses
<1>2. Idle.pc = "idle" /\ Idle.job = NoJob
  BY DEF Idle, Doing
<1> QED
  BY <1>1, <1>2 DEF Init, TypeOK, Statuses

\* The state keeps its type in every run of the engine.
THEOREM TypeCorrect == Spec => []TypeOK
  BY InitType, TypeStep, PTL DEF Spec

-----------------------------------------------------------------------------
(* Retry accounting.  AttemptBound alone is not inductive: a commit merges into
   the row a decision taken on an older one.  What makes it safe is what each
   actor's loaded row had to satisfy before the actor went on, and that every
   commit that changes attempt_count to something dangerous, or the status to
   something live, changes the other column too. *)

RowOK(r) ==
  /\ r.attempts <= MaxAttempts
  /\ r.status \in Live => r.attempts < MaxAttempts
  /\ r.status \in Ended => r.attempts > 0

SeenOK(a) ==
  /\ act[a].pc = "running" =>
       act[a].seen.status \in Live /\ act[a].seen.attempts < MaxAttempts
  /\ act[a].pc = "resetting" =>
       act[a].seen.status \in Ended /\ act[a].seen.attempts > 0
  /\ act[a].pc = "cancelling" => act[a].seen.status \in Live
  /\ act[a].pc \in {"prepared", "prepared_sync"} =>
       act[a].seen.status \in {"pending", "ignored"} /\ act[a].seen.attempts = 0

RetryInv ==
  /\ \A j \in Jobs : RowOK(row[j])
  /\ \A a \in Actors : SeenOK(a)

\* The merge of an outcome into whatever the row has become.
LEMMA OutcomeRowOK ==
  ASSUME NEW current \in Rows, NEW seen \in Rows, NEW status \in Outcomes,
         RowOK(current), seen.status \in Live, seen.attempts < MaxAttempts,
         status = "retrying" => seen.attempts + 1 < MaxAttempts
  PROVE  RowOK(Merge(current, seen, Tried(seen, status)))
<1> DEFINE new == Tried(seen, status)
           r == Merge(current, seen, new)
<1>1. status \in Statuses
  BY DEF Outcomes, Statuses, Live, Ended
<1>2. new \in Rows /\ new.status = status /\ new.attempts = seen.attempts + 1
  BY <1>1, TriedRows
<1>3. seen.attempts \in Nat /\ current.attempts \in Nat
  BY DEF Rows
<1> HIDE DEF new
<1>4. /\ r.status = IF new.status # seen.status THEN new.status ELSE current.status
      /\ r.attempts = IF new.attempts # seen.attempts THEN new.attempts ELSE current.attempts
  BY <1>2, MergeRows
<1>5. r.attempts = seen.attempts + 1
  BY <1>2, <1>3, <1>4
<1> HIDE DEF r
<1>6. ASSUME status = "retrying"
      PROVE  RowOK(r)
  BY <1>3, <1>5, <1>6, MaxAttemptsAssumption DEF RowOK
<1>7. ASSUME status # "retrying"
      PROVE  RowOK(r)
  <2>1. r.status = status /\ status \notin Live
    BY <1>2, <1>4, <1>7 DEF Outcomes, Live
  <2> QED
    BY <1>3, <1>5, <2>1, MaxAttemptsAssumption DEF RowOK
<1> QED
  BY <1>6, <1>7 DEF new, r

\* The merge of a cancellation touches neither attempt_count nor its limit.
LEMMA CancelRowOK ==
  ASSUME NEW current \in Rows, NEW seen \in Rows, RowOK(current), seen.status \in Live
  PROVE  RowOK(Merge(current, seen, [seen EXCEPT !.status = "cancelled", !.cancel = TRUE]))
<1> DEFINE new == [seen EXCEPT !.status = "cancelled", !.cancel = TRUE]
<1>1. new \in Rows /\ new.status = "cancelled" /\ new.attempts = seen.attempts
  BY CancelledRows
<1> HIDE DEF new
<1>2. /\ Merge(current, seen, new).status = "cancelled"
      /\ Merge(current, seen, new).attempts = current.attempts
  BY <1>1, MergeRows DEF Live
<1>3. Merge(current, seen, new).status \notin Live \cup Ended
  BY <1>2 DEF Live, Ended
<1> QED
  BY <1>2, <1>3 DEF RowOK, new

\* The merge of a reset starts the count again.
LEMMA ResetRowOK ==
  ASSUME NEW current \in Rows, NEW seen \in Rows, seen.status \in Ended, seen.attempts > 0
  PROVE  LET new == [status |-> "pending", attempts |-> 0, cancel |-> FALSE]
         IN  /\ Merge(current, seen, new).status = "pending"
             /\ RowOK(Merge(current, seen, new))
<1> DEFINE new == [status |-> "pending", attempts |-> 0, cancel |-> FALSE]
<1>1. new \in Rows /\ new.status = "pending" /\ new.attempts = 0
  BY ResetRow
<1>2. seen.attempts \in Nat
  BY DEF Rows
<1> HIDE DEF new
<1>3. Merge(current, seen, new).status = "pending" /\ Merge(current, seen, new).attempts = 0
  BY <1>1, <1>2, MergeRows DEF Ended
<1>4. "pending" \notin Ended
  BY DEF Ended
<1> QED
  BY <1>3, <1>4, MaxAttemptsAssumption DEF RowOK, new

\* A program counter after which nothing is written asks nothing of the loaded
\* row.
LEMMA SeenFrame ==
  ASSUME NEW a \in Actors, \A b \in Actors \ {a} : act'[b] = act[b],
         \A b \in Actors : SeenOK(b),
         act'[a].pc \in {"idle", "publishing", "starting", "requeueing", "committed", "acking"}
  PROVE  \A b \in Actors : SeenOK(b)'
  BY DEF SeenOK

LEMMA RetryStep ==
  ASSUME TypeOK, RetryInv, [Next]_vars
  PROVE  RetryInv'
<1> USE DEF ghosts, bounds
<1>0. ActOK /\ \A a \in Actors : SeenOK(a)
  BY DEF TypeOK, ActOK, RetryInv
<1>1. ASSUME NEW a \in Actors,
             AttemptCancelled(a) \/ AttemptSucceeds(a) \/ AttemptFails(a) \/ AttemptRaises(a)
      PROVE  RetryInv'
  <2>1. PICK status \in Outcomes :
          /\ act[a].pc = "running" /\ Conclude(a, status)
          /\ status = "retrying" => act[a].seen.attempts + 1 < MaxAttempts
    BY <1>1, AttemptEnds
  <2>2. /\ act[a].job \in Jobs
        /\ row'[act[a].job] =
             Merge(row[act[a].job], act[a].seen, Tried(act[a].seen, status))
        /\ \A j \in Jobs \ {act[a].job} : row'[j] = row[j]
        /\ \A b \in Actors \ {a} : act'[b] = act[b]
        /\ act'[a].pc \in {"committed", "idle"}
    BY <2>1, ConcludeEffect
  <2>3. /\ row[act[a].job] \in Rows /\ act[a].seen \in Rows /\ RowOK(row[act[a].job])
        /\ act[a].seen.status \in Live /\ act[a].seen.attempts < MaxAttempts
    BY <1>0, <2>1, <2>2 DEF TypeOK, RetryInv, SeenOK
  <2>4. RowOK(row'[act[a].job])
    BY <2>1, <2>2, <2>3, OutcomeRowOK
  <2>5. \A j \in Jobs : RowOK(row'[j])
    BY <2>2, <2>4 DEF RetryInv
  <2>6. \A b \in Actors : SeenOK(b)'
    BY <1>0, <2>2, SeenFrame
  <2> QED
    BY <2>5, <2>6 DEF RetryInv
<1>2. ASSUME NEW w \in Workers, NEW j \in Jobs, Load(w, j)
      PROVE  RetryInv'
  <2>1. row[j] \in Rows /\ RowOK(row[j])
    BY DEF TypeOK, RetryInv
  <2>2. /\ \A b \in Actors \ {w} : act'[b] = act[b]
        /\ act'[w].pc = IF row[j].status \in Live THEN "running" ELSE "committed"
        /\ act'[w].seen = row[j]
    BY <1>0, <1>2 DEF Load, Doing, ActOK, Actors
  <2>3. \A b \in Actors : SeenOK(b)'
    BY <1>0, <2>1, <2>2 DEF SeenOK, RowOK
  <2> QED
    BY <1>2, <2>3 DEF Load, RetryInv
<1>3. ASSUME NEW w \in Workers,
             Schedule(w) \/ Ack(w) \/ WorkerFault(w)
      PROVE  RetryInv'
  <2>1. /\ \A b \in Actors \ {w} : act'[b] = act[b]
        /\ act'[w].pc \in {"idle", "acking"}
    BY <1>0, <1>3, GotoEffect, LeaveEffect
       DEF Schedule, Ack, WorkerFault, ScheduleFails, AttemptUnsaved, ChildDies,
           WorkerDies, Actors, PCs
  <2>2. row' = row
    BY <1>3 DEF Schedule, Ack, WorkerFault, ScheduleFails, AttemptUnsaved, ChildDies, WorkerDies
  <2>3. \A b \in Actors : SeenOK(b)'
    BY <1>0, <2>1, SeenFrame DEF Actors
  <2> QED
    BY <2>2, <2>3 DEF RetryInv
<1>4. ASSUME NEW t \in Threads, NEW j \in Jobs, NEW sync \in SyncModes, Prepare(t, j, sync)
      PROVE  RetryInv'
  <2> DEFINE seen == NewRow(IF Duplicate(j) THEN "ignored" ELSE "pending")
             pc == IF sync THEN "prepared_sync" ELSE "prepared"
  <2>1. /\ \A b \in Actors \ {t} : act'[b] = act[b]
        /\ act'[t].pc = pc /\ act'[t].seen = seen
    BY <1>0, <1>4 DEF Prepare, Doing, ActOK, Actors
  <2>2. seen.status \in {"pending", "ignored"} /\ seen.attempts = 0
    BY NewRows DEF Statuses, Live
  <2>3. \A b \in Actors : SeenOK(b)'
    BY <1>0, <2>1, <2>2 DEF SeenOK
  <2> QED
    BY <1>4, <2>3 DEF Prepare, RetryInv
<1>5. ASSUME NEW t \in Threads, NEW j \in Jobs, CancelRequest(t, j) \/ ReprocessRequest(t, j)
      PROVE  RetryInv'
  <2>1. row[j] \in Rows /\ RowOK(row[j])
    BY DEF TypeOK, RetryInv
  <2>2. /\ \A b \in Actors \ {t} : act'[b] = act[b]
        /\ act'[t].seen = row[j]
        /\ \/ act'[t].pc = "cancelling" /\ row[j].status \in Live
           \/ act'[t].pc = "resetting" /\ row[j].status \in Ended
    BY <1>0, <1>5 DEF CancelRequest, ReprocessRequest, Doing, ActOK, Actors
  <2>3. \A b \in Actors : SeenOK(b)'
    BY <1>0, <2>1, <2>2 DEF SeenOK, RowOK
  <2> QED
    BY <1>5, <2>3 DEF CancelRequest, ReprocessRequest, RetryInv
<1>6. ASSUME NEW t \in Threads, Insert(t)
      PROVE  RetryInv'
  <2>1. t \in Actors /\ act[t].job \in Jobs
    BY <1>0, <1>6, BusyActor DEF Insert, Actors
  <2>2. act[t].seen.status \in {"pending", "ignored"} /\ act[t].seen.attempts = 0
    BY <1>0, <1>6, <2>1 DEF Insert, SeenOK
  <2>3. RowOK(act[t].seen)
    BY <2>2, MaxAttemptsAssumption DEF RowOK, Ended
  <2>4. \A j \in Jobs : RowOK(row'[j])
    BY <1>6, <2>1, <2>3 DEF Insert, TypeOK, RetryInv
  <2>5. /\ \A b \in Actors \ {t} : act'[b] = act[b]
        /\ act'[t].pc \in {"idle", "publishing", "starting"}
    BY <1>0, <1>6, <2>1, GotoEffect, LeaveEffect DEF Insert, PCs
  <2>6. \A b \in Actors : SeenOK(b)'
    BY <1>0, <2>1, <2>5, SeenFrame
  <2> QED
    BY <2>4, <2>6 DEF RetryInv
<1>7. ASSUME NEW t \in Threads, StartSync(t)
      PROVE  RetryInv'
  <2>1. t \in Actors /\ act[t].job \in Jobs
    BY <1>0, <1>7, BusyActor DEF StartSync, Actors
  <2>2. RowOK(row[act[t].job])
    BY <2>1 DEF RetryInv
  <2>3. /\ \A b \in Actors \ {t} : act'[b] = act[b]
        /\ \/ act'[t].pc = "idle"
           \/ /\ act'[t].pc = "running" /\ act'[t].seen = row[act[t].job]
              /\ row[act[t].job].status = "pending"
    BY <1>0, <1>7, <2>1, LeaveEffect DEF StartSync, ActOK
  <2>4. \A b \in Actors : SeenOK(b)'
    BY <1>0, <2>2, <2>3 DEF SeenOK, RowOK, Live
  <2> QED
    BY <1>7, <2>4 DEF StartSync, RetryInv
<1>8. ASSUME NEW t \in Threads, CancelCommit(t)
      PROVE  RetryInv'
  <2>1. t \in Actors /\ act[t].job \in Jobs /\ act[t].seen \in Rows
    BY <1>0, <1>8, BusyActor DEF CancelCommit, Actors
  <2>2. /\ row[act[t].job] \in Rows /\ RowOK(row[act[t].job])
        /\ act[t].seen.status \in Live
    BY <1>0, <1>8, <2>1 DEF CancelCommit, SeenOK, TypeOK, RetryInv
  <2> DEFINE new == [act[t].seen EXCEPT !.status = "cancelled", !.cancel = TRUE]
  <2>3a. new \in Rows /\ RowOK(Merge(row[act[t].job], act[t].seen, new))
    BY <2>1, <2>2, CancelledRows, CancelRowOK
  <2>3b. act[t].pc = "cancelling" /\ Save(t, new)
    BY <1>8 DEF CancelCommit
  <2> HIDE DEF new
  <2>3. /\ RowOK(row'[act[t].job])
        /\ \A j \in Jobs \ {act[t].job} : row'[j] = row[j]
    BY <1>0, <2>1, <2>3a, <2>3b, SaveEffect DEF TypeOK
  <2>4. \A b \in Actors : SeenOK(b)'
    BY <1>0, <1>8, <2>1, LeaveEffect, SeenFrame DEF CancelCommit
  <2> QED
    BY <2>3, <2>4 DEF RetryInv
<1>9. ASSUME NEW t \in Threads, ReprocessCommit(t)
      PROVE  RetryInv'
  <2>1. t \in Actors /\ act[t].job \in Jobs /\ act[t].seen \in Rows
    BY <1>0, <1>9, BusyActor DEF ReprocessCommit, Actors
  <2>2. /\ row[act[t].job] \in Rows
        /\ act[t].seen.status \in Ended /\ act[t].seen.attempts > 0
    BY <1>0, <1>9, <2>1 DEF ReprocessCommit, SeenOK, TypeOK
  <2>3. /\ RowOK(row'[act[t].job])
        /\ \A j \in Jobs \ {act[t].job} : row'[j] = row[j]
    BY <1>0, <1>9, <2>1, <2>2, ResetRow, SaveEffect, ResetRowOK DEF ReprocessCommit, TypeOK
  <2>4. \A b \in Actors : SeenOK(b)'
    BY <1>0, <1>9, <2>1, GotoEffect, SeenFrame DEF ReprocessCommit, PCs
  <2> QED
    BY <2>3, <2>4 DEF RetryInv
<1>10. ASSUME NEW t \in Threads,
              Publish(t) \/ SyncAttemptRaises(t) \/ Requeue(t) \/ RequestDies(t)
       PROVE  RetryInv'
  <2>1. \A b \in Actors : SeenOK(b)'
    BY <1>0, <1>10, LeaveEffect, SeenFrame
       DEF Publish, SyncAttemptRaises, Requeue, RequestDies, Actors
  <2> QED
    BY <1>10, <2>1 DEF Publish, SyncAttemptRaises, Requeue, RequestDies, RetryInv
<1>11. CASE UNCHANGED vars
  BY <1>11 DEF vars, RetryInv, SeenOK
<1> QED
  BY <1>1, <1>2, <1>3, <1>4, <1>5, <1>6, <1>7, <1>8, <1>9, <1>10, <1>11
     DEF Next, WorkerStep, NewRequest, HandlerStep, Actors

LEMMA InitRetry == Init => RetryInv
<1>1. Absent.attempts = 0 /\ Absent.status \notin Live \cup Ended
  BY NewRows DEF Absent, Statuses, Live, Ended
<1>2. Idle.pc = "idle"
  BY DEF Idle, Doing
<1> QED
  BY <1>1, <1>2, MaxAttemptsAssumption DEF Init, RetryInv, RowOK, SeenOK

\* No interleaving of workers, cancellations, resets and redeliveries lets a job
\* be tried with no attempts left, or counts more attempts than the limit.
THEOREM AttemptBoundHolds == Spec => []AttemptBound
<1>1. Init => TypeOK /\ RetryInv
  BY InitType, InitRetry
<1>2. TypeOK /\ RetryInv /\ [Next]_vars => (TypeOK /\ RetryInv)'
  BY TypeStep, RetryStep
<1>3. RetryInv => AttemptBound
  BY DEF RetryInv, RowOK, AttemptBound
<1> QED
  BY <1>1, <1>2, <1>3, PTL DEF Spec

-----------------------------------------------------------------------------
(* Synchronous attempts.  That an attempt has its job to itself rests on where
   the job comes from: nobody knows a job that is not inserted yet, and nobody
   but its request has a way to run it until it has failed. *)

Preparing == {"prepared", "prepared_sync"}

\* A job with no row yet belongs to the request that prepares it, at most.
NewJobsUnknown ==
  \A j \in Jobs : row[j].status = "absent" =>
    /\ queue[j] = 0
    /\ \A a \in Actors : act[a].job = j => a \in Threads /\ act[a].pc \in Preparing

PreparedAlone ==
  \A a \in Actors : act[a].pc \in Preparing =>
    /\ row[act[a].job].status = "absent"
    /\ \A b \in Actors \ {a} : act[b].job # act[a].job

\* Nobody else has the job of thread t, but for cancellations.
AloneIn(t) ==
  /\ act[t].job \in syncJobs
  /\ row[act[t].job].status \in {"pending", "cancelled"}
  /\ queue[act[t].job] = 0
  /\ \A a \in Actors \ {t} : act[a].job = act[t].job => act[a].pc = "cancelling"

WorkerPCs == {"idle", "running", "committed", "acking"}

SyncInv ==
  /\ \A w \in Workers : act[w].pc \in WorkerPCs
  /\ NewJobsUnknown
  /\ PreparedAlone
  /\ \A t \in Threads : act[t].pc \in {"starting", "running"} => AloneIn(t)

\* One actor moves and the rows and the queue lose nothing: what the invariant
\* says survives if it survives for that actor and its job.
LEMMA SyncFrame ==
  ASSUME TypeOK, SyncInv, NEW a \in Actors, NEW k \in Jobs,
         act'[a].job \in {k, NoJob}, act[a].job \in {k, NoJob},
         \A b \in Actors \ {a} : act'[b] = act[b],
         \A j \in Jobs \ {k} : row'[j] = row[j] /\ queue'[j] = queue[j],
         row'[k].status # "absent",
         act'[a].pc \notin Preparing, act'[a].pc = "idle" <=> act'[a].job = NoJob,
         a \in Workers => act'[a].pc \in WorkerPCs,
         \A b \in Actors \ {a} : act[b].job = k => act[b].pc \notin Preparing,
         \A j \in Jobs \ {k} : j \in syncJobs => j \in syncJobs',
         \A t \in Threads : act'[t].job = k /\ act'[t].pc \in {"starting", "running"}
           => AloneIn(t)'
  PROVE  SyncInv'
<1>0. \A b \in Actors : act[b].pc = "idle" <=> act[b].job = NoJob
  BY DEF TypeOK
<1>1. NewJobsUnknown'
  BY NoJobAssumption DEF SyncInv, NewJobsUnknown
<1>2. PreparedAlone'
  <2> SUFFICES ASSUME NEW b \in Actors, act'[b].pc \in Preparing
               PROVE  /\ row'[act'[b].job].status = "absent"
                      /\ \A c \in Actors \ {b} : act'[c].job # act'[b].job
    BY DEF PreparedAlone
  <2>1. b # a /\ act'[b] = act[b] /\ act[b].job \in Jobs
    BY DEF TypeOK, Preparing
  <2>2. /\ row[act[b].job].status = "absent"
        /\ \A c \in Actors \ {b} : act[c].job # act[b].job
    BY <2>1 DEF SyncInv, PreparedAlone
  <2>3. act[b].job # k
    BY <2>1
  <2> QED
    BY <2>1, <2>2, <2>3, NoJobAssumption
<1>3. ASSUME NEW t \in Threads, act'[t].pc \in {"starting", "running"}
      PROVE  AloneIn(t)'
  <2>1. CASE act'[t].job = k
    BY <1>3, <2>1
  <2>2. CASE act'[t].job # k
    <3>1. t \in Actors /\ t # a
      BY <1>3, <2>2 DEF Actors
    <3>2. act'[t] = act[t] /\ act[t].job \in Jobs \ {k}
      BY <1>0, <1>3, <2>2, <3>1 DEF TypeOK
    <3>3. AloneIn(t)
      BY <1>3, <3>2 DEF SyncInv
    <3>4. \A b \in Actors \ {t} : act'[b].job = act[t].job => act'[b].pc = "cancelling"
      BY <3>2, <3>3, NoJobAssumption DEF AloneIn
    <3> QED
      BY <3>2, <3>3, <3>4 DEF AloneIn
  <2> QED
    BY <2>1, <2>2
<1>4. \A w \in Workers : act'[w].pc \in WorkerPCs
  BY DEF SyncInv, Actors
<1> QED
  BY <1>1, <1>2, <1>3, <1>4 DEF SyncInv

\* An actor that goes idle, or a worker that goes on to its acknowledgement,
\* takes nothing from what the invariant says of the others.
LEMMA SyncLeave ==
  ASSUME TypeOK, SyncInv, NEW a \in Actors, UNCHANGED <<row, queue, syncJobs>>,
         \A b \in Actors \ {a} : act'[b] = act[b],
         \/ act'[a].pc = "idle" /\ act'[a].job = NoJob
         \/ /\ a \in Workers /\ act'[a].pc = "acking" /\ act'[a].job = act[a].job
            /\ act[a].pc \in {"running", "committed"}
  PROVE  SyncInv'
<1>0. /\ \A b \in Actors : act[b].pc = "idle" <=> act[b].job = NoJob
      /\ \A b \in Actors : act[b].job \in Jobs \cup {NoJob}
  BY DEF TypeOK
<1>1. NewJobsUnknown'
  BY NoJobAssumption DEF SyncInv, NewJobsUnknown, Preparing
<1>2. PreparedAlone'
  BY <1>0, NoJobAssumption DEF SyncInv, PreparedAlone, Preparing
<1>3. ASSUME NEW t \in Threads, act'[t].pc \in {"starting", "running"}
      PROVE  AloneIn(t)'
  <2>1. t \in Actors /\ t # a
    BY <1>3, ActorsAssumption DEF Actors
  <2>2. act'[t] = act[t] /\ AloneIn(t) /\ act[t].job \in Jobs
    BY <1>0, <1>3, <2>1 DEF SyncInv
  <2> QED
    BY <2>1, <2>2, NoJobAssumption DEF AloneIn
<1>4. \A w \in Workers : act'[w].pc \in WorkerPCs
  BY DEF SyncInv, Actors, WorkerPCs
<1> QED
  BY <1>1, <1>2, <1>3, <1>4 DEF SyncInv

\* A busy actor's job has a row, unless the actor is preparing it.
LEMMA KnownJob ==
  ASSUME TypeOK, SyncInv, NEW a \in Actors, act[a].pc \notin Preparing \cup {"idle"}
  PROVE  act[a].job \in Jobs /\ row[act[a].job].status # "absent"
<1>1. act[a].job \in Jobs
  BY DEF TypeOK
<1> QED
  BY <1>1 DEF SyncInv, NewJobsUnknown

\* Nobody prepares a job that has a row.
LEMMA KnownNotPrepared ==
  ASSUME SyncInv, NEW k \in Jobs, row[k].status # "absent"
  PROVE  \A b \in Actors : act[b].job = k => act[b].pc \notin Preparing
  BY DEF SyncInv, PreparedAlone

\* Where somebody else does more than cancel, no synchronous attempt is near.
LEMMA NoSyncNear ==
  ASSUME SyncInv, NEW a \in Actors, NEW k \in Jobs,
         \/ act[a].job = k /\ act[a].pc # "cancelling"
         \/ queue[k] > 0
         \/ row[k].status \in Ended
  PROVE  \A t \in Threads \ {a} :
           act[t].job = k => act[t].pc \notin {"starting", "running"}
  BY DEF SyncInv, AloneIn, Actors, Ended

\* The same for the actor itself, once it is past its attempt.
LEMMA NoSyncAfter ==
  ASSUME SyncInv, NEW a \in Actors, NEW k \in Jobs,
         \/ act[a].job = k /\ act[a].pc # "cancelling"
         \/ queue[k] > 0
         \/ row[k].status \in Ended,
         \A b \in Actors \ {a} : act'[b] = act[b],
         a \in Threads => act'[a].pc \notin {"starting", "running"}
  PROVE  \A t \in Threads :
           act'[t].job = k /\ act'[t].pc \in {"starting", "running"} => AloneIn(t)'
<1> SUFFICES ASSUME NEW t \in Threads, act'[t].job = k,
                    act'[t].pc \in {"starting", "running"}
             PROVE  FALSE
  OBVIOUS
<1>1. t # a /\ t \in Actors
  BY DEF Actors
<1>2. act'[t] = act[t]
  BY <1>1
<1> QED
  BY <1>1, <1>2, NoSyncNear

LEMMA SyncStep ==
  ASSUME TypeOK, TypeOK', RetryInv, SyncInv, [Next]_vars
  PROVE  SyncInv'
<1> USE DEF ghosts, bounds
<1>0. ActOK
  BY DEF TypeOK, ActOK
<1>00. \A a \in Actors : act'[a].pc = "idle" <=> act'[a].job = NoJob
  BY DEF TypeOK
<1>1. ASSUME NEW a \in Actors,
             AttemptCancelled(a) \/ AttemptSucceeds(a) \/ AttemptFails(a) \/ AttemptRaises(a)
      PROVE  SyncInv'
  <2>1. PICK status \in Outcomes : act[a].pc = "running" /\ Conclude(a, status)
    BY <1>1, AttemptEnds
  <2> DEFINE k == act[a].job
  <2>2. /\ k \in Jobs
        /\ row'[k] = Merge(row[k], act[a].seen, Tried(act[a].seen, status))
        /\ \A j \in Jobs \ {k} : row'[j] = row[j]
        /\ UNCHANGED <<queue, syncJobs>>
        /\ \A b \in Actors \ {a} : act'[b] = act[b]
        /\ act'[a].pc \in {"committed", "idle"} /\ act'[a].job \in {k, NoJob}
    BY <2>1, ConcludeEffect DEF Actors
  <2>3. row[k].status # "absent"
    BY <2>1, KnownJob DEF Preparing
  <2>4. row'[k].status # "absent"
    <3>1. row[k] \in Rows /\ act[a].seen \in Rows /\ status \in Statuses
      BY <2>2 DEF TypeOK, Outcomes, Statuses, Live, Ended
    <3>2. /\ Tried(act[a].seen, status) \in Rows
          /\ Tried(act[a].seen, status).status = status
      BY <3>1, TriedRows
    <3>3. row'[k].status \in {status, row[k].status}
      BY <2>2, <3>1, <3>2, MergeRows
    <3> QED
      BY <2>3, <3>3 DEF Outcomes
  <2>5. \A t \in Threads :
          act'[t].job = k /\ act'[t].pc \in {"starting", "running"} => AloneIn(t)'
    BY <2>1, <2>2, NoSyncAfter
  <2>6. \A b \in Actors \ {a} : act[b].job = k => act[b].pc \notin Preparing
    BY <2>2, <2>3, KnownNotPrepared
  <2> HIDE DEF k
  <2>7. /\ act[a].job \in {k, NoJob}
        /\ act'[a].pc \notin Preparing /\ act'[a].pc \in WorkerPCs
    BY <2>2 DEF k, Preparing, WorkerPCs
  <2> QED
    BY <1>00, <2>2, <2>4, <2>5, <2>6, <2>7, SyncFrame
<1>2. ASSUME NEW w \in Workers, NEW k \in Jobs, Load(w, k)
      PROVE  SyncInv'
  <2>1. /\ w \in Actors /\ queue[k] > 0 /\ act[w].job = NoJob
        /\ row' = row /\ syncJobs' = syncJobs
        /\ \A j \in Jobs \ {k} : queue'[j] = queue[j]
    BY <1>0, <1>2 DEF Load, TypeOK, ActOK, Actors
  <2>2. /\ \A b \in Actors \ {w} : act'[b] = act[b]
        /\ act'[w].pc \in {"running", "committed"} /\ act'[w].job = k
    BY <1>0, <1>2, <2>1 DEF Load, Doing, ActOK
  <2>3. row[k].status # "absent"
    BY <2>1 DEF SyncInv, NewJobsUnknown, TypeOK
  <2>4. \A t \in Threads :
          act'[t].job = k /\ act'[t].pc \in {"starting", "running"} => AloneIn(t)'
    BY <2>1, <2>2, NoSyncAfter, ActorsAssumption
  <2>5. \A b \in Actors \ {w} : act[b].job = k => act[b].pc \notin Preparing
    BY <2>3, KnownNotPrepared
  <2> QED
    BY <1>00, <2>1, <2>2, <2>3, <2>4, <2>5, SyncFrame DEF Preparing, WorkerPCs
<1>3. ASSUME NEW a \in Actors,
             \/ a \in Workers /\ (Ack(a) \/ ScheduleFails(a) \/ AttemptUnsaved(a) \/ ChildDies(a))
             \/ SyncAttemptRaises(a) \/ RequestDies(a)
      PROVE  SyncInv'
  <2>1. /\ UNCHANGED <<row, queue, syncJobs>>
        /\ \A b \in Actors \ {a} : act'[b] = act[b]
        /\ \/ act'[a].pc = "idle" /\ act'[a].job = NoJob
           \/ /\ a \in Workers /\ act'[a].pc = "acking" /\ act'[a].job = act[a].job
              /\ act[a].pc \in {"running", "committed"}
    BY <1>0, <1>3, GotoEffect, LeaveEffect
       DEF Ack, ScheduleFails, AttemptUnsaved, ChildDies, SyncAttemptRaises, RequestDies, PCs
  <2> QED
    BY <2>1, SyncLeave
<1>4. ASSUME NEW a \in Actors,
             \/ a \in Workers /\ (Schedule(a) \/ WorkerDies(a))
             \/ a \in Threads /\ (Publish(a) \/ Requeue(a))
      PROVE  SyncInv'
  <2> DEFINE k == act[a].job
  <2>1. act[a].pc \notin Preparing \cup {"idle", "cancelling"}
    BY <1>4 DEF Schedule, WorkerDies, Publish, Requeue, SyncInv, WorkerPCs, Preparing
  <2>2. k \in Jobs /\ row[k].status # "absent"
    BY <2>1, KnownJob
  <2>3. /\ \A b \in Actors \ {a} : act'[b] = act[b]
        /\ act'[a].pc \in {"idle", "acking"} /\ act'[a].job \in {k, NoJob}
        /\ row' = row /\ syncJobs' = syncJobs
        /\ \A j \in Jobs \ {k} : queue'[j] = queue[j]
    BY <1>0, <1>4, <2>1, <2>2, GotoEffect, LeaveEffect, SendEffect
       DEF Schedule, WorkerDies, Publish, Requeue, PCs, TypeOK
  <2>4. \A t \in Threads :
          act'[t].job = k /\ act'[t].pc \in {"starting", "running"} => AloneIn(t)'
    BY <2>1, <2>2, <2>3, NoSyncAfter
  <2>5. \A b \in Actors \ {a} : act[b].job = k => act[b].pc \notin Preparing
    BY <2>2, KnownNotPrepared
  <2> HIDE DEF k
  <2>6. /\ act[a].job \in {k, NoJob}
        /\ act'[a].pc \notin Preparing /\ act'[a].pc \in WorkerPCs
    BY <2>3 DEF k, Preparing, WorkerPCs
  <2> QED
    BY <1>00, <2>2, <2>3, <2>4, <2>5, <2>6, SyncFrame
<1>5. ASSUME NEW t \in Threads, NEW k \in Jobs, NEW sync \in SyncModes, Prepare(t, k, sync)
      PROVE  SyncInv'
  <2>1. t \in Actors /\ t \notin Workers /\ row[k].status = "absent"
    BY <1>5, ActorsAssumption DEF Prepare, Actors
  <2>2. /\ \A b \in Actors \ {t} : act'[b] = act[b]
        /\ act'[t].pc \in Preparing /\ act'[t].job = k
        /\ UNCHANGED <<row, queue, syncJobs>>
    BY <1>0, <1>5, <2>1 DEF Prepare, Doing, ActOK, Preparing
  <2>3. \A b \in Actors : act[b].job # k
    BY <1>5, <2>1 DEF Prepare, SyncInv, NewJobsUnknown
  <2>4. NewJobsUnknown'
    BY <1>5, <2>1, <2>2, <2>3 DEF SyncInv, NewJobsUnknown
  <2>5. PreparedAlone'
    BY <2>1, <2>2, <2>3 DEF SyncInv, PreparedAlone
  <2>6. ASSUME NEW u \in Threads, act'[u].pc \in {"starting", "running"}
        PROVE  AloneIn(u)'
    <3>1. u # t /\ u \in Actors
      BY <2>2, <2>6 DEF Preparing, Actors
    <3>2. act'[u] = act[u] /\ AloneIn(u) /\ act[u].job # k
      BY <2>2, <2>3, <2>6, <3>1 DEF SyncInv
    <3> QED
      BY <2>2, <3>1, <3>2 DEF AloneIn
  <2> QED
    BY <2>1, <2>2, <2>4, <2>5, <2>6 DEF SyncInv, Actors
<1>6. ASSUME NEW t \in Threads, NEW k \in Jobs, CancelRequest(t, k) \/ ReprocessRequest(t, k)
      PROVE  SyncInv'
  <2>1. /\ t \in Actors /\ t \notin Workers /\ act[t].job = NoJob
        /\ row[k].status # "absent"
        /\ UNCHANGED <<row, queue, syncJobs>>
    BY <1>0, <1>6, ActorsAssumption
       DEF CancelRequest, ReprocessRequest, Actors, ActOK, Live, Ended
  <2>2. /\ \A b \in Actors \ {t} : act'[b] = act[b]
        /\ act'[t].job = k
        /\ \/ act'[t].pc = "cancelling"
           \/ act'[t].pc = "resetting" /\ row[k].status \in Ended
    BY <1>0, <1>6, <2>1 DEF CancelRequest, ReprocessRequest, Doing, ActOK
  <2>3. ASSUME NEW u \in Threads, act'[u].job = k, act'[u].pc \in {"starting", "running"}
        PROVE  AloneIn(u)'
    <3>1. u # t /\ u \in Actors
      BY <2>2, <2>3 DEF Actors
    <3>2. act'[u] = act[u] /\ AloneIn(u)
      BY <2>2, <2>3, <3>1 DEF SyncInv
    <3>3. act'[t].pc = "cancelling"
      BY <2>2, <2>3, <3>2 DEF AloneIn, Ended
    <3> QED
      BY <2>1, <2>2, <3>1, <3>2, <3>3 DEF AloneIn
  <2>4. \A b \in Actors \ {t} : act[b].job = k => act[b].pc \notin Preparing
    BY <2>1, KnownNotPrepared
  <2>5. act'[t].pc \notin Preparing
    BY <2>2 DEF Preparing
  <2> QED
    BY <1>00, <2>1, <2>2, <2>3, <2>4, <2>5, SyncFrame
<1>7. ASSUME NEW t \in Threads, Insert(t)
      PROVE  SyncInv'
  <2> DEFINE k == act[t].job
  <2>1. /\ t \in Actors /\ t \notin Workers /\ act[t].pc \in Preparing
        /\ k \in Jobs /\ act[t].seen.status \in {"pending", "ignored"}
    BY <1>0, <1>7, BusyActor, ActorsAssumption DEF Insert, Actors, Preparing, RetryInv, SeenOK
  <2>2. /\ row'[k] = act[t].seen
        /\ \A j \in Jobs \ {k} : row'[j] = row[j]
        /\ queue' = queue
        /\ \A j \in Jobs \ {k} : j \in syncJobs => j \in syncJobs'
    BY <1>7, <2>1 DEF Insert, TypeOK
  <2>3. /\ \A b \in Actors \ {t} : act'[b] = act[b]
        /\ act'[t].job \in {k, NoJob} /\ act'[t].pc \in {"idle", "publishing", "starting"}
    BY <1>0, <1>7, <2>1, GotoEffect, LeaveEffect DEF Insert, PCs
  <2>4. /\ row[k].status = "absent" /\ queue[k] = 0
        /\ \A b \in Actors \ {t} : act[b].job # k
    BY <2>1 DEF SyncInv, PreparedAlone, NewJobsUnknown
  <2>5. act'[t].pc = "starting" => k \in syncJobs' /\ act[t].seen.status = "pending"
    BY <1>0, <1>7, <2>1, GotoEffect, LeaveEffect DEF Insert, PCs, Preparing
  <2>6. ASSUME NEW u \in Threads, act'[u].job = k, act'[u].pc \in {"starting", "running"}
        PROVE  AloneIn(u)'
    <3>1. u = t
      BY <2>3, <2>4, <2>6 DEF Actors
    <3> QED
      BY <2>2, <2>3, <2>4, <2>5, <2>6, <3>1 DEF AloneIn
  <2> HIDE DEF k
  <2>7. act[t].job \in {k, NoJob}
    BY DEF k
  <2>8. row'[k].status # "absent" /\ act'[t].pc \notin Preparing
    BY <2>1, <2>2, <2>3 DEF Preparing
  <2> QED
    BY <1>00, <2>1, <2>2, <2>3, <2>4, <2>6, <2>7, <2>8, SyncFrame
<1>8. ASSUME NEW t \in Threads, StartSync(t)
      PROVE  SyncInv'
  <2> DEFINE k == act[t].job
  <2>1. /\ t \in Actors /\ t \notin Workers /\ act[t].pc = "starting"
        /\ UNCHANGED <<row, queue, syncJobs>>
    BY <1>8, ActorsAssumption DEF StartSync, Actors
  <2>2. AloneIn(t)
    BY <2>1 DEF SyncInv
  <2>3. k \in Jobs /\ row[k].status # "absent"
    BY <2>1, KnownJob DEF Preparing
  <2>4. /\ \A b \in Actors \ {t} : act'[b] = act[b]
        /\ act'[t].job \in {k, NoJob} /\ act'[t].pc \in {"idle", "running"}
    BY <1>0, <1>8, <2>1, LeaveEffect DEF StartSync, ActOK
  <2>5. ASSUME NEW u \in Threads, act'[u].job = k, act'[u].pc \in {"starting", "running"}
        PROVE  AloneIn(u)'
    <3>1. u = t
      BY <2>2, <2>4, <2>5 DEF Actors, AloneIn
    <3> QED
      BY <2>1, <2>2, <2>4, <2>5, <3>1 DEF AloneIn
  <2>6. \A b \in Actors \ {t} : act[b].job = k => act[b].pc \notin Preparing
    BY <2>3, KnownNotPrepared
  <2> HIDE DEF k
  <2>7. act[t].job \in {k, NoJob} /\ act'[t].pc \notin Preparing
    BY <2>4 DEF k, Preparing
  <2> QED
    BY <1>00, <2>1, <2>3, <2>4, <2>5, <2>6, <2>7, SyncFrame
<1>9. ASSUME NEW t \in Threads, CancelCommit(t)
      PROVE  SyncInv'
  <2> DEFINE k == act[t].job
             new == [act[t].seen EXCEPT !.status = "cancelled", !.cancel = TRUE]
  <2>1. /\ t \in Actors /\ t \notin Workers /\ act[t].pc = "cancelling"
        /\ UNCHANGED <<queue, syncJobs>>
    BY <1>9, ActorsAssumption DEF CancelCommit, Actors
  <2>2. /\ k \in Jobs /\ row[k].status # "absent" /\ row[k] \in Rows
        /\ act[t].seen \in Rows /\ act[t].seen.status \in Live
    BY <1>0, <2>1, KnownJob, BusyActor DEF Preparing, TypeOK, RetryInv, SeenOK
  <2>3. new \in Rows /\ new.status = "cancelled" /\ Save(t, new)
    BY <1>9, <2>2, CancelledRows DEF CancelCommit
  <2>4. /\ \A b \in Actors \ {t} : act'[b] = act[b]
        /\ act'[t].job = NoJob /\ act'[t].pc = "idle"
    BY <1>0, <1>9, <2>1, LeaveEffect DEF CancelCommit
  <2> HIDE DEF new
  <2>5. row'[k].status = "cancelled" /\ \A j \in Jobs \ {k} : row'[j] = row[j]
    BY <1>0, <2>1, <2>2, <2>3, SaveEffect, MergeRows DEF TypeOK, Live
  <2>6. ASSUME NEW u \in Threads, act'[u].job = k, act'[u].pc \in {"starting", "running"}
        PROVE  AloneIn(u)'
    <3>1. u \in Actors \ {t}
      BY <2>4, <2>6 DEF Actors
    <3>2. act'[u] = act[u] /\ AloneIn(u)
      BY <2>4, <2>6, <3>1 DEF SyncInv
    <3> QED
      BY <2>1, <2>2, <2>4, <2>5, <2>6, <3>1, <3>2, NoJobAssumption DEF AloneIn
  <2>7. \A b \in Actors \ {t} : act[b].job = k => act[b].pc \notin Preparing
    BY <2>2, KnownNotPrepared
  <2> HIDE DEF k
  <2>8. act[t].job \in {k, NoJob} /\ act'[t].pc \notin Preparing
    BY <2>4 DEF k, Preparing
  <2> QED
    BY <1>00, <2>1, <2>2, <2>4, <2>5, <2>6, <2>7, <2>8, SyncFrame
<1>10. ASSUME NEW t \in Threads, ReprocessCommit(t)
       PROVE  SyncInv'
  <2> DEFINE k == act[t].job
             new == [status |-> "pending", attempts |-> 0, cancel |-> FALSE]
  <2>1. /\ t \in Actors /\ t \notin Workers /\ act[t].pc = "resetting"
        /\ queue' = queue /\ syncJobs' = syncJobs \ {k}
    BY <1>10, ActorsAssumption DEF ReprocessCommit, Actors
  <2>2. /\ k \in Jobs /\ row[k].status # "absent" /\ row[k] \in Rows
        /\ act[t].seen \in Rows /\ act[t].seen.status \in Ended /\ act[t].seen.attempts > 0
    BY <1>0, <2>1, KnownJob, BusyActor DEF Preparing, TypeOK, RetryInv, SeenOK
  <2>3. Merge(row[k], act[t].seen, new).status = "pending"
    BY <2>2, ResetRowOK
  <2>4. new \in Rows /\ Save(t, new)
    BY <1>10, ResetRow DEF ReprocessCommit
  <2>5. /\ \A b \in Actors \ {t} : act'[b] = act[b]
        /\ act'[t].job = k /\ act'[t].pc = "requeueing"
    BY <1>0, <1>10, <2>1, GotoEffect DEF ReprocessCommit, PCs
  <2> HIDE DEF new
  <2>6. row'[k].status = "pending" /\ \A j \in Jobs \ {k} : row'[j] = row[j]
    BY <1>0, <2>1, <2>2, <2>3, <2>4, SaveEffect DEF TypeOK
  <2>7. \A u \in Threads :
          act'[u].job = k /\ act'[u].pc \in {"starting", "running"} => AloneIn(u)'
    BY <2>1, <2>2, <2>5, NoSyncAfter
  <2>8. \A b \in Actors \ {t} : act[b].job = k => act[b].pc \notin Preparing
    BY <2>2, KnownNotPrepared
  <2> HIDE DEF k
  <2>9. act[t].job \in {k, NoJob} /\ act'[t].pc \notin Preparing
    BY <2>5 DEF k, Preparing
  <2> QED
    BY <1>00, <2>1, <2>2, <2>5, <2>6, <2>7, <2>8, <2>9, SyncFrame
<1>11. CASE UNCHANGED vars
  BY <1>11 DEF vars, SyncInv, NewJobsUnknown, PreparedAlone, AloneIn
<1> QED
  BY <1>1, <1>2, <1>3, <1>4, <1>5, <1>6, <1>7, <1>8, <1>9, <1>10, <1>11
     DEF Next, WorkerStep, WorkerFault, NewRequest, HandlerStep, Actors

LEMMA InitSync == Init => SyncInv
<1>1. Idle.pc = "idle" /\ Idle.job = NoJob
  BY DEF Idle, Doing
<1> QED
  BY <1>1, NoJobAssumption
     DEF Init, SyncInv, NewJobsUnknown, PreparedAlone, WorkerPCs, Preparing, Actors

\* A synchronous attempt has its job to itself: no worker, no reset and no other
\* submission can reach the job before the attempt has ended.
THEOREM SyncAttemptAloneHolds == Spec => []SyncAttemptAlone
<1>1. Init => TypeOK /\ RetryInv /\ SyncInv
  BY InitType, InitRetry, InitSync
<1>2. TypeOK /\ RetryInv /\ SyncInv /\ [Next]_vars => (TypeOK /\ RetryInv /\ SyncInv)'
  BY TypeStep, RetryStep, SyncStep
<1>3. SyncInv => SyncAttemptAlone
  BY DEF SyncInv, AloneIn, SyncAttemptAlone
<1> QED
  BY <1>1, <1>2, <1>3, PTL DEF Spec

-----------------------------------------------------------------------------
(* No stranded job, where messages and commits are not lost.  TaskBacked is
   inductive because every commit that makes a job live leaves an actor that
   moves it on, and because a worker counts for a pending row only if it loaded
   it pending: then its commit certainly writes the status. *)

\* What moved job j on still does, if the actor that took the step was not it.
LEMMA BackedFrame ==
  ASSUME TypeOK, NEW a \in Actors, NEW j \in Jobs, Backed(j), ~WillMove(a, j),
         \A b \in Actors \ {a} : act'[b] = act[b],
         row'[j].status = row[j].status,
         queue'[j] = queue[j] \/ queue'[j] = queue[j] + 1
  PROVE  Backed(j)'
<1>1. CASE queue[j] > 0
  BY <1>1 DEF TypeOK, Backed
<1>2. CASE \E b \in Actors : WillMove(b, j)
  <2>1. PICK b \in Actors \ {a} : WillMove(b, j)
    BY <1>2
  <2>2. WillMove(b, j)'
    BY <2>1 DEF WillMove
  <2> QED
    BY <2>2 DEF Backed
<1> QED
  BY <1>1, <1>2 DEF Backed

\* An actor that moves no job on, and changes no row and only adds messages.
LEMMA BackedLeave ==
  ASSUME TypeOK, TaskBacked, NEW a \in Actors,
         \A j \in Jobs : ~WillMove(a, j) \/ queue'[j] > 0,
         \A b \in Actors \ {a} : act'[b] = act[b],
         UNCHANGED <<row, syncJobs>>,
         \A j \in Jobs : queue'[j] = queue[j] \/ queue'[j] = queue[j] + 1
  PROVE  TaskBacked'
<1> SUFFICES ASSUME NEW j \in Jobs \ syncJobs, row[j].status \in Live
             PROVE  Backed(j)'
  BY DEF TaskBacked
<1>1. Backed(j)
  BY DEF TaskBacked
<1>2. CASE queue'[j] > 0
  BY <1>2 DEF Backed
<1>3. CASE ~WillMove(a, j)
  BY <1>1, <1>3, BackedFrame
<1> QED
  BY <1>2, <1>3

\* A job that no actor but a works on, and whose row and messages stay.
LEMMA BackedOthers ==
  ASSUME TypeOK, TaskBacked, NEW a \in Actors, NEW k \in Jobs,
         act[a].job \in {k, NoJob},
         \A b \in Actors \ {a} : act'[b] = act[b],
         \A j \in Jobs \ {k} : /\ row'[j] = row[j] /\ queue'[j] = queue[j]
                               /\ j \in syncJobs => j \in syncJobs',
         k \notin syncJobs' /\ row'[k].status \in Live => Backed(k)'
  PROVE  TaskBacked'
<1> SUFFICES ASSUME NEW j \in Jobs \ {k}, j \notin syncJobs', row'[j].status \in Live
             PROVE  Backed(j)'
  BY DEF TaskBacked
<1>1. Backed(j)
  BY DEF TaskBacked
<1>2. ~WillMove(a, j)
  BY NoJobAssumption DEF WillMove
<1> QED
  BY <1>1, <1>2, BackedFrame

LEMMA BackedStep ==
  ASSUME Faults \subseteq {"worker"},
         TypeOK, RetryInv, SyncInv, TaskBacked, [Next]_vars
  PROVE  TaskBacked'
<1> USE DEF ghosts, bounds
<1>0. ActOK
  BY DEF TypeOK, ActOK
<1>1. ASSUME NEW a \in Actors,
             AttemptCancelled(a) \/ AttemptSucceeds(a) \/ AttemptFails(a) \/ AttemptRaises(a)
      PROVE  TaskBacked'
  <2>1. PICK status \in Outcomes : act[a].pc = "running" /\ Conclude(a, status)
    BY <1>1, AttemptEnds
  <2>0. PICK k \in Jobs : act[a].job = k
    BY <1>0, <2>1, BusyActor
  <2> DEFINE seen == act[a].seen
  <2>2. /\ seen \in Rows /\ row[k] \in Rows /\ status \in Statuses
        /\ row'[k] = Merge(row[k], seen, Tried(seen, status))
        /\ \A j \in Jobs \ {k} : row'[j] = row[j]
        /\ UNCHANGED <<queue, syncJobs>>
        /\ \A b \in Actors \ {a} : act'[b] = act[b]
        /\ a \in Workers => /\ act'[a].pc = "committed" /\ act'[a].job = k
    BY <2>0, <2>1, ConcludeEffect DEF TypeOK, Outcomes, Statuses, Live, Ended
  <2>3. row'[k].status = IF status # seen.status THEN status ELSE row[k].status
    BY <2>2, TriedRows, MergeRows
  <2>4. seen.status \in Live
    BY <2>1 DEF RetryInv, SeenOK
  <2>5. ASSUME k \notin syncJobs', row'[k].status \in Live
        PROVE  Backed(k)'
    <3>1. a \in Workers
      BY <2>0, <2>1, <2>2, <2>5 DEF SyncInv, AloneIn, Actors
    <3>2. CASE row'[k].status = "retrying"
      <4>1. WillMove(a, k)'
        BY <2>2, <3>1, <3>2 DEF WillMove
      <4> QED
        BY <4>1 DEF Backed
    <3>3. CASE row'[k].status = "pending"
      <4>1. status = seen.status /\ row[k].status = "pending"
        BY <2>3, <3>3 DEF Outcomes
      <4>2. seen.status = "retrying"
        BY <2>4, <4>1 DEF Outcomes, Live
      <4>3. ~WillMove(a, k)
        BY <2>0, <2>1, <4>1, <4>2 DEF WillMove
      <4>4. Backed(k)
        BY <2>2, <2>5, <4>1 DEF TaskBacked, Live
      <4> QED
        BY <2>2, <3>3, <4>1, <4>3, <4>4, BackedFrame
    <3> QED
      BY <2>5, <3>2, <3>3 DEF Live
  <2> HIDE DEF seen
  <2> QED
    BY <2>0, <2>2, <2>5, BackedOthers
<1>2. ASSUME NEW w \in Workers, NEW k \in Jobs, Load(w, k)
      PROVE  TaskBacked'
  <2>1. /\ w \in Actors /\ act[w].job = NoJob
        /\ UNCHANGED <<row, syncJobs>>
        /\ \A j \in Jobs \ {k} : queue'[j] = queue[j]
        /\ \A b \in Actors \ {w} : act'[b] = act[b]
        /\ act'[w].job = k /\ act'[w].seen = row[k]
        /\ row[k].status \in Live => act'[w].pc = "running"
    BY <1>0, <1>2 DEF Load, Doing, TypeOK, ActOK, Actors
  <2>2. ASSUME row'[k].status \in Live
        PROVE  Backed(k)'
    <3>1. WillMove(w, k)'
      BY <2>1, <2>2 DEF WillMove, Live
    <3> QED
      BY <2>1, <3>1 DEF Backed
  <2> QED
    BY <2>1, <2>2, BackedOthers
<1>3. ASSUME NEW a \in Actors,
             \/ a \in Workers /\ (Schedule(a) \/ Ack(a) \/ WorkerDies(a))
             \/ a \in Threads /\ (Publish(a) \/ Requeue(a))
             \/ a \in Threads /\ SyncAttemptRaises(a)
      PROVE  TaskBacked'
  <2>1. /\ act[a].pc # "idle" /\ act[a].job \in Jobs
        /\ UNCHANGED <<row, syncJobs>>
    BY <1>0, <1>3, BusyActor
       DEF Schedule, Ack, WorkerDies, Publish, Requeue, SyncAttemptRaises
  <2>2. \A b \in Actors \ {a} : act'[b] = act[b]
    BY <1>0, <1>3, <2>1, GotoEffect, LeaveEffect
       DEF Schedule, Ack, WorkerDies, Publish, Requeue, SyncAttemptRaises, PCs
  <2>3. \A j \in Jobs : queue'[j] = queue[j] \/ queue'[j] = queue[j] + 1
    BY <1>3, <2>1, SendEffect
       DEF Schedule, Ack, WorkerDies, Publish, Requeue, SyncAttemptRaises, TypeOK
  <2>4. ASSUME NEW j \in Jobs, WillMove(a, j)
        PROVE  queue'[j] > 0
    <3>1. j = act[a].job
      BY <2>4 DEF WillMove
    <3>2. Send(j)
      <4>1. CASE a \in Workers /\ (Schedule(a) \/ Ack(a) \/ WorkerDies(a))
        BY <2>4, <3>1, <4>1 DEF WillMove, Schedule, Ack, WorkerDies
      <4>2. CASE a \in Threads /\ (Publish(a) \/ Requeue(a))
        BY <2>4, <3>1, <4>2, ActorsAssumption DEF WillMove, Publish, Requeue
      <4>3. CASE a \in Threads /\ SyncAttemptRaises(a)
        BY <2>4, <4>3, ActorsAssumption DEF WillMove, SyncAttemptRaises
      <4> QED
        BY <1>3, <4>1, <4>2, <4>3
    <3>3. queue[j] \in Nat
      BY DEF TypeOK
    <3> QED
      BY <3>2, <3>3, SendEffect DEF TypeOK
  <2> QED
    BY <2>1, <2>2, <2>3, <2>4, BackedLeave
<1>4. ASSUME NEW t \in Threads, NewRequest(t)
      PROVE  TaskBacked'
  <2>1. t \in Actors /\ act[t].job = NoJob /\ UNCHANGED <<row, queue, syncJobs>>
    BY <1>0, <1>4
       DEF NewRequest, Prepare, CancelRequest, ReprocessRequest, Actors, ActOK
  <2>2. \A b \in Actors \ {t} : act'[b] = act[b]
    BY <1>0, <1>4 DEF NewRequest, Prepare, CancelRequest, ReprocessRequest, ActOK
  <2>3. \A j \in Jobs : ~WillMove(t, j)
    BY <2>1, NoJobAssumption DEF WillMove
  <2> QED
    BY <2>1, <2>2, <2>3, BackedLeave
<1>5. ASSUME NEW t \in Threads, Insert(t)
      PROVE  TaskBacked'
  <2>0. PICK k \in Jobs : act[t].job = k
    BY <1>0, <1>5, BusyActor DEF Insert, Actors
  <2>1. t \in Actors /\ act[t].pc \in {"prepared", "prepared_sync"}
    BY <1>5 DEF Insert, Actors
  <2>2. act[t].seen.status \in {"pending", "ignored"}
    BY <2>1 DEF RetryInv, SeenOK
  <2>3. /\ row'[k] = act[t].seen
        /\ \A j \in Jobs \ {k} : row'[j] = row[j]
        /\ queue' = queue
        /\ \A j \in Jobs : j \in syncJobs => j \in syncJobs'
    BY <1>5, <2>0 DEF Insert, TypeOK
  <2>4. \A b \in Actors \ {t} : act'[b] = act[b]
    BY <1>0, <1>5, <2>1, GotoEffect, LeaveEffect DEF Insert, PCs
  <2>5. ASSUME k \notin syncJobs', row'[k].status \in Live
        PROVE  Backed(k)'
    <3>1. act[t].pc = "prepared" /\ act[t].seen.status = "pending"
      BY <1>5, <2>0, <2>1, <2>2, <2>3, <2>5 DEF Insert, Live
    <3>2. act'[t].pc = "publishing" /\ act'[t].job = k
      BY <1>0, <1>5, <2>0, <2>1, <3>1, GotoEffect DEF Insert, PCs
    <3>3. WillMove(t, k)'
      BY <2>3, <3>1, <3>2 DEF WillMove
    <3> QED
      BY <2>1, <3>3 DEF Backed
  <2> QED
    BY <2>0, <2>1, <2>3, <2>4, <2>5, BackedOthers
<1>6. ASSUME NEW t \in Threads, StartSync(t)
      PROVE  TaskBacked'
  <2>1. t \in Actors /\ act[t].pc = "starting" /\ UNCHANGED <<row, queue, syncJobs>>
    BY <1>6 DEF StartSync, Actors
  <2>2. \A b \in Actors \ {t} : act'[b] = act[b]
    BY <1>0, <1>6, <2>1 DEF StartSync, Leave, ActOK
  <2>3. \A j \in Jobs : ~WillMove(t, j)
    BY <2>1 DEF WillMove
  <2> QED
    BY <2>1, <2>2, <2>3, BackedLeave
<1>7. ASSUME NEW t \in Threads, CancelCommit(t)
      PROVE  TaskBacked'
  <2>0. PICK k \in Jobs : act[t].job = k
    BY <1>0, <1>7, BusyActor DEF CancelCommit, Actors
  <2> DEFINE new == [act[t].seen EXCEPT !.status = "cancelled", !.cancel = TRUE]
  <2>1. /\ t \in Actors /\ act[t].pc = "cancelling"
        /\ UNCHANGED <<queue, syncJobs>>
    BY <1>7 DEF CancelCommit, Actors
  <2>2. /\ row[k] \in Rows
        /\ act[t].seen \in Rows /\ act[t].seen.status \in Live
    BY <1>0, <2>1, BusyActor DEF TypeOK, RetryInv, SeenOK
  <2>3. new \in Rows /\ new.status = "cancelled" /\ Save(t, new)
    BY <1>7, <2>2, CancelledRows DEF CancelCommit
  <2>4. \A b \in Actors \ {t} : act'[b] = act[b]
    BY <1>0, <1>7, <2>1, LeaveEffect DEF CancelCommit
  <2> HIDE DEF new
  <2>5. row'[k].status = "cancelled" /\ \A j \in Jobs \ {k} : row'[j] = row[j]
    BY <1>0, <2>0, <2>1, <2>2, <2>3, SaveEffect, MergeRows DEF TypeOK, Live
  <2>6. row'[k].status \notin Live
    BY <2>5 DEF Live
  <2> QED
    BY <2>0, <2>1, <2>4, <2>5, <2>6, BackedOthers
<1>8. ASSUME NEW t \in Threads, ReprocessCommit(t)
      PROVE  TaskBacked'
  <2>0. PICK k \in Jobs : act[t].job = k
    BY <1>0, <1>8, BusyActor DEF ReprocessCommit, Actors
  <2> DEFINE new == [status |-> "pending", attempts |-> 0, cancel |-> FALSE]
  <2>1. /\ t \in Actors /\ act[t].pc = "resetting"
        /\ queue' = queue /\ syncJobs' = syncJobs \ {k}
    BY <1>8, <2>0 DEF ReprocessCommit, Actors
  <2>3. new \in Rows /\ Save(t, new)
    BY <1>8, ResetRow DEF ReprocessCommit
  <2>4. /\ \A b \in Actors \ {t} : act'[b] = act[b]
        /\ act'[t].job = k /\ act'[t].pc = "requeueing"
    BY <1>0, <1>8, <2>0, <2>1, GotoEffect DEF ReprocessCommit, PCs
  <2> HIDE DEF new
  <2>5. \A j \in Jobs \ {k} : row'[j] = row[j]
    BY <1>0, <2>0, <2>1, <2>3, SaveEffect DEF TypeOK
  <2>6. Backed(k)'
    BY <2>1, <2>4 DEF Backed, WillMove
  <2> QED
    BY <2>0, <2>1, <2>4, <2>5, <2>6, BackedOthers
<1>9. ASSUME NEW a \in Actors,
             \/ a \in Workers /\ (ScheduleFails(a) \/ AttemptUnsaved(a) \/ ChildDies(a))
             \/ RequestDies(a)
      PROVE  FALSE
  BY <1>9 DEF ScheduleFails, AttemptUnsaved, ChildDies, RequestDies, Fault
<1>10. CASE UNCHANGED vars
  BY <1>10 DEF vars, TaskBacked, Backed, WillMove
<1> QED
  BY <1>1, <1>2, <1>3, <1>4, <1>5, <1>6, <1>7, <1>8, <1>9, <1>10
     DEF Next, WorkerStep, WorkerFault, HandlerStep, Actors

\* Where the only fault is a worker that dies, every pending or retrying job
\* (but for those of sync=true requests) has something that moves it on: a
\* message, a worker or a handler, for any number of each.
THEOREM NoJobStranded ==
  ASSUME Faults \subseteq {"worker"}
  PROVE  Spec => []TaskBacked
<1>1. Init => TypeOK /\ RetryInv /\ SyncInv /\ TaskBacked
  <2>1. Absent.status \notin Live
    BY NewRows DEF Absent, Statuses, Live
  <2>2. Init => TaskBacked
    BY <2>1 DEF Init, TaskBacked
  <2> QED
    BY <2>2, InitType, InitRetry, InitSync
<1>2. TypeOK /\ RetryInv /\ SyncInv /\ TaskBacked /\ [Next]_vars
        => (TypeOK /\ RetryInv /\ SyncInv /\ TaskBacked)'
  BY TypeStep, RetryStep, SyncStep, BackedStep
<1> QED
  BY <1>1, <1>2, PTL DEF Spec

=============================================================================
