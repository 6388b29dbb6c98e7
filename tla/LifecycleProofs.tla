--------------------------- MODULE LifecycleProofs ---------------------------
(***************************************************************************)
(* JobEngine implements JobLifecycle, step by step: for any jobs, payloads, *)
(* workers, threads, faults and bounds, as long as the requests contend    *)
(* for no job (Uncontended).                                               *)
(***************************************************************************)
EXTENDS OneWorkerProofs

-----------------------------------------------------------------------------
(* Sessions without contention *)

Cancelled(r) == [r EXCEPT !.status = "cancelled", !.cancel = TRUE]

\* What an attempt is about to change is as it loaded it, but for a cancellation
\* since; what a reset is about to change is as it loaded it, and so is the flag
\* that a cancellation is about to set.
Fresh ==
  \A a \in Actors :
    /\ act[a].pc = "running" => row[act[a].job] \in {act[a].seen, Cancelled(act[a].seen)}
    /\ act[a].pc = "resetting" => row[act[a].job] = act[a].seen
    /\ act[a].pc = "cancelling" => row[act[a].job].cancel = act[a].seen.cancel

\* What is about to be inserted is new, and if ignored a duplicate still.
PreparedWell ==
  \A t \in Threads : act[t].pc \in Preparing =>
    /\ ~act[t].seen.cancel
    /\ act[t].seen.status = "ignored" => Duplicate(act[t].job)

SessionInv == Fresh /\ PreparedWell

\* Rows are told apart by their columns.
LEMMA SameRow ==
  ASSUME NEW r \in Rows, NEW s \in Rows,
         r.status = s.status, r.attempts = s.attempts, r.cancel = s.cancel
  PROVE  r = s
BY DEF Rows

LEMMA CancelledColumns ==
  ASSUME NEW r \in Rows
  PROVE  /\ Cancelled(r) \in Rows /\ Cancelled(r).status = "cancelled"
         /\ Cancelled(r).attempts = r.attempts /\ Cancelled(r).cancel = TRUE
BY DEF Rows, Cancelled, Statuses

\* A job that is being tried is live or cancelled, one that is being reset has ended.
LEMMA StatusOfHeld ==
  ASSUME EngineInv, Fresh, NEW a \in Actors
  PROVE  /\ act[a].pc # "idle" => act[a].job \in Jobs /\ act[a].seen \in Rows /\ row[act[a].job] \in Rows
         /\ act[a].pc = "running" => row[act[a].job].status \in Live \cup {"cancelled"}
         /\ act[a].pc = "resetting" => row[act[a].job].status \in Ended
<1>1. SeenOK(a) /\ ActOK
  BY DEF EngineInv, RetryInv, TypeOK, ActOK
<1>2. act[a].pc # "idle" => act[a].job \in Jobs /\ act[a].seen \in Rows /\ row[act[a].job] \in Rows
  BY <1>1, BusyActor DEF EngineInv, TypeOK
<1>3. act[a].pc = "running" => row[act[a].job].status \in Live \cup {"cancelled"}
  BY <1>1, <1>2, CancelledColumns DEF SeenOK, Fresh
<1>4. act[a].pc = "resetting" => row[act[a].job].status \in Ended
  BY <1>1 DEF SeenOK, Fresh
<1> QED
  BY <1>2, <1>3, <1>4

\* The commit of a cancellation cancels the row as it is by then.
LEMMA CancelRow ==
  ASSUME EngineInv, Fresh, NEW t \in Threads, CancelCommit(t)
  PROVE  row'[act[t].job] = Cancelled(row[act[t].job])
<1> DEFINE j == act[t].job
<1>1. /\ act[t].pc = "cancelling" /\ j \in Jobs /\ t \in Actors
      /\ row'[j].status = "cancelled" /\ row'[j].attempts = row[j].attempts
      /\ row'[j].cancel = (row[j].cancel \/ ~act[t].seen.cancel)
  BY CancelWrites DEF EngineInv, Actors
<1>2. row[j] \in Rows /\ row'[j] \in Rows
  <2>1. TypeOK'
    <3>1. Next
      BY DEF Next, HandlerStep
    <3> QED
      BY <3>1, TypeStep DEF EngineInv
  <2> QED
    BY <1>1, <2>1 DEF EngineInv, TypeOK
<1>3. row'[j].cancel = TRUE
  <2>1. row[j].cancel = act[t].seen.cancel
    BY <1>1 DEF Fresh
  <2>2. row[j].cancel \in BOOLEAN
    BY <1>2 DEF Rows
  <2> QED
    BY <1>1, <2>1, <2>2, Zenon
<1>4. /\ Cancelled(row[j]) \in Rows /\ Cancelled(row[j]).status = "cancelled"
      /\ Cancelled(row[j]).attempts = row[j].attempts /\ Cancelled(row[j]).cancel = TRUE
  BY <1>2, CancelledColumns
<1> QED
  BY <1>1, <1>2, <1>3, <1>4, SameRow

\* What becomes of an attempt, in the row as it is by then.
LEMMA AttemptRow ==
  ASSUME EngineInv, Fresh, NEW a \in Actors, Attempts(a)
  PROVE  LET j == act[a].job
             seen == act[a].seen
         IN  \E outcome \in IF seen.cancel THEN {"cancelled", "failed"}
                            ELSE Lifecycle!Outcomes(seen.attempts + 1) :
               row'[j] = [row[j] EXCEPT
                            !.status = IF outcome # seen.status THEN outcome ELSE @,
                            !.attempts = seen.attempts + 1]
<1> DEFINE j == act[a].job
           seen == act[a].seen
<1>1. act[a].pc = "running" /\ j \in Jobs /\ seen \in Rows /\ row[j] \in Rows
  BY AttemptWrites, StatusOfHeld DEF EngineInv
<1>2. PICK outcome \in IF seen.cancel THEN {"cancelled", "failed"}
                       ELSE Lifecycle!Outcomes(seen.attempts + 1) : Conclude(a, outcome)
  <2>1. CASE AttemptCancelled(a)
    BY <2>1 DEF AttemptCancelled
  <2>2. CASE AttemptSucceeds(a)
    BY <2>2 DEF AttemptSucceeds, Lifecycle!Outcomes
  <2>3. CASE AttemptFails(a)
    <3>1. PICK kind \in FailureKinds : Conclude(a, FailureStatus(kind, seen.attempts + 1))
      BY <2>3 DEF AttemptFails
    <3>2. FailureStatus(kind, seen.attempts + 1) \in Lifecycle!Outcomes(seen.attempts + 1)
      BY DEF FailureStatus, Lifecycle!Outcomes
    <3> QED
      BY <2>3, <3>1, <3>2 DEF AttemptFails
  <2>4. CASE AttemptRaises(a)
    BY <2>4 DEF AttemptRaises, Lifecycle!Outcomes
  <2> QED
    BY <2>1, <2>2, <2>3, <2>4 DEF Attempts
<1>3. outcome \in Outcomes /\ outcome \in Statuses
  BY DEF Lifecycle!Outcomes, Outcomes, Statuses, Live, Ended
<1>4. row'[j] = Merge(row[j], seen, Tried(seen, outcome))
  BY <1>1, <1>2, <1>3, ConcludeEffect DEF EngineInv
<1>5. /\ Tried(seen, outcome) \in Rows /\ Tried(seen, outcome).status = outcome
      /\ Tried(seen, outcome).attempts = seen.attempts + 1
      /\ Tried(seen, outcome).cancel = seen.cancel
  BY <1>1, <1>3, TriedRows DEF Tried
<1>6. /\ row'[j] \in Rows
      /\ row'[j].status = IF outcome # seen.status THEN outcome ELSE row[j].status
      /\ row'[j].attempts = seen.attempts + 1
      /\ row'[j].cancel = row[j].cancel
  <2>1. seen.attempts + 1 # seen.attempts
    BY <1>1 DEF Rows
  <2> QED
    BY <1>1, <1>4, <1>5, <2>1, MergeRows
<1>7. row'[j] = [row[j] EXCEPT !.status = IF outcome # seen.status THEN outcome ELSE @,
                               !.attempts = seen.attempts + 1]
  BY <1>1, <1>6 DEF Rows
<1> QED
  BY <1>2, <1>7

\* The commit of a reset writes all columns.
LEMMA ResetsRow ==
  ASSUME EngineInv, Fresh, NEW t \in Threads, ReprocessCommit(t)
  PROVE  row'[act[t].job] = [status |-> "pending", attempts |-> 0, cancel |-> FALSE]
<1> DEFINE j == act[t].job
           new == [status |-> "pending", attempts |-> 0, cancel |-> FALSE]
<1>1. t \in Actors /\ act[t].pc = "resetting" /\ j \in Jobs /\ act[t].seen \in Rows
  BY StatusOfHeld DEF ReprocessCommit, Actors
<1>2. row[j] = act[t].seen /\ new \in Rows
  BY <1>1, ResetRow DEF Fresh
<1>3. row'[j] = Merge(row[j], act[t].seen, new)
  BY <1>1, <1>2, SaveEffect DEF ReprocessCommit, EngineInv, TypeOK, ActOK
<1>4. row'[j] \in Rows /\ row'[j].status = "pending" /\ row'[j].attempts = 0 /\ row'[j].cancel = FALSE
  BY <1>1, <1>2, <1>3, MergeRows
<1> QED
  BY <1>2, <1>4, SameRow

-----------------------------------------------------------------------------
(* Sessions stay fresh *)

\* A commit writes one row; who else holds the job must find it fresh.
LEMMA CommitKeepsFresh ==
  ASSUME EngineInv, Fresh, NEW a \in Actors, OnlyActor(a), OnlyJob(act[a].job),
         act'[a].pc \in Resting,
         \A b \in Actors \ {a} : act[b].job = act[a].job =>
           /\ act[b].pc = "running" =>
                row'[act[a].job] \in {act[b].seen, Cancelled(act[b].seen)}
           /\ act[b].pc # "resetting"
           /\ act[b].pc = "cancelling" => row'[act[a].job].cancel = row[act[a].job].cancel
  PROVE  Fresh'
<1> SUFFICES ASSUME NEW b \in Actors, act'[b].pc \in {"running", "resetting", "cancelling"}
             PROVE  /\ act'[b].pc = "running" =>
                         row'[act'[b].job] \in {act'[b].seen, Cancelled(act'[b].seen)}
                    /\ act'[b].pc = "resetting" => row'[act'[b].job] = act'[b].seen
                    /\ act'[b].pc = "cancelling" => row'[act'[b].job].cancel = act'[b].seen.cancel
  BY DEF Fresh
<1>1. b # a /\ act'[b] = act[b]
  BY DEF OnlyActor, Resting
<1>2. act[b].job \in Jobs
  BY <1>1, StatusOfHeld
<1>3. CASE act[b].job = act[a].job
  BY <1>1, <1>3 DEF Fresh
<1>4. CASE act[b].job # act[a].job
  BY <1>1, <1>2, <1>4 DEF Fresh, OnlyJob
<1> QED
  BY <1>3, <1>4

\* No row changes under a session but by a cancellation under an attempt.
LEMMA FreshSessions ==
  ASSUME EngineInv, Fresh, Uncontended, [Next]_vars
  PROVE  Fresh'
<1> USE DEF EngineInv
<1>0. \A t \in Threads : t \in Actors
  BY DEF Actors
<1>1. CASE Quiet
  <2>1. row' = row /\ \A a \in Actors : MovesOn(a)
    BY <1>1 DEF Quiet
  <2> QED
    BY <2>1 DEF MovesOn, Resting, Preparing, Fresh
<1>2. ASSUME NEW a \in Actors, Attempts(a)
      PROVE  Fresh'
  <2>1. /\ act[a].pc = "running" /\ OnlyActor(a) /\ OnlyJob(act[a].job) /\ act'[a].pc \in Resting
        /\ row'[act[a].job].cancel = row[act[a].job].cancel
    BY <1>2, AttemptWrites
  <2>2. ASSUME NEW b \in Actors \ {a}, act[b].job = act[a].job
        PROVE  act[b].pc \notin {"running", "resetting"}
    <3>1. act[b].pc # "running"
      BY <2>1, <2>2 DEF Uncontended
    <3>2. act[b].pc # "resetting"
      BY <2>1, <2>2, StatusOfHeld DEF Live, Ended
    <3> QED
      BY <3>1, <3>2
  <2> QED
    BY <2>1, <2>2, CommitKeepsFresh
<1>3. ASSUME NEW t \in Threads, Insert(t)
      PROVE  Fresh'
  BY <1>0, <1>3, InsertWrites, CommitKeepsFresh
<1>4. ASSUME NEW t \in Threads, ReprocessCommit(t)
      PROVE  Fresh'
  <2>1. /\ act[t].pc = "resetting" /\ OnlyActor(t) /\ OnlyJob(act[t].job) /\ act'[t].pc \in Resting
    BY <1>4, ResetWrites
  <2>2. ASSUME NEW b \in Actors \ {t}, act[b].job = act[t].job
        PROVE  act[b].pc \notin {"running", "resetting", "cancelling"}
    <3>1. act[b].pc \notin {"resetting", "cancelling"}
      BY <1>0, <2>1, <2>2 DEF Uncontended
    <3>2. act[b].pc # "running"
      BY <1>0, <2>1, <2>2, StatusOfHeld DEF Live, Ended
    <3> QED
      BY <3>1, <3>2
  <2> QED
    BY <1>0, <2>1, <2>2, CommitKeepsFresh
<1>5. ASSUME NEW t \in Threads, CancelCommit(t)
      PROVE  Fresh'
  <2>1. /\ act[t].pc = "cancelling" /\ OnlyActor(t) /\ OnlyJob(act[t].job) /\ act'[t].pc \in Resting
        /\ row'[act[t].job] = Cancelled(row[act[t].job])
    BY <1>5, CancelWrites, CancelRow
  <2>2. ASSUME NEW b \in Actors \ {t}, act[b].job = act[t].job
        PROVE  /\ act[b].pc = "running" =>
                    row'[act[t].job] \in {act[b].seen, Cancelled(act[b].seen)}
               /\ act[b].pc \notin {"resetting", "cancelling"}
    <3>1. act[b].pc \notin {"resetting", "cancelling"}
      BY <1>0, <2>1, <2>2 DEF Uncontended
    <3>2. ASSUME act[b].pc = "running"
          PROVE  Cancelled(row[act[t].job]) = Cancelled(act[b].seen)
      <4>1. act[b].seen \in Rows /\ row[act[b].job] \in {act[b].seen, Cancelled(act[b].seen)}
        BY <3>2, StatusOfHeld DEF Fresh
      <4>2. Cancelled(Cancelled(act[b].seen)) = Cancelled(act[b].seen)
        BY <4>1, CancelledColumns, SameRow
      <4> QED
        BY <2>2, <4>1, <4>2
    <3> QED
      BY <2>1, <3>1, <3>2
  <2> QED
    BY <1>0, <2>1, <2>2, CommitKeepsFresh
<1> QED
  BY <1>1, <1>2, <1>3, <1>4, <1>5, StepKinds

\* A success is left by no step but a cancellation of the job.
LEMMA SuccessStays ==
  ASSUME EngineInv, Fresh, Uncontended, [Next]_vars, NEW d \in Jobs, row[d].status = "success",
         \A t \in Threads : act[t].pc = "cancelling" => act[t].job # d
  PROVE  row'[d].status = "success"
<1> USE DEF EngineInv
<1>1. CASE Quiet
  BY <1>1 DEF Quiet
<1>2. ASSUME NEW a \in Actors, Attempts(a)
      PROVE  row'[d].status = "success"
  <2>1. act[a].job # d
    BY <1>2, AttemptWrites, StatusOfHeld DEF Live
  <2> QED
    BY <1>2, <2>1, AttemptWrites DEF OnlyJob
<1>3. ASSUME NEW t \in Threads, Insert(t) \/ CancelCommit(t) \/ ReprocessCommit(t)
      PROVE  row'[d].status = "success"
  <2>1. act[t].job # d
    BY <1>3, InsertWrites, CancelWrites, ResetWrites, StatusOfHeld DEF Ended, Actors
  <2> QED
    BY <1>3, <2>1, InsertWrites, CancelWrites, ResetWrites DEF OnlyJob
<1> QED
  BY <1>1, <1>2, <1>3, StepKinds

\* The success that makes a duplicate stays while the duplicate is prepared.
LEMMA PreparedStep ==
  ASSUME EngineInv, Fresh, PreparedWell, Uncontended, [Next]_vars
  PROVE  PreparedWell'
<1> USE DEF EngineInv
<1> SUFFICES ASSUME NEW t \in Threads, act'[t].pc \in Preparing
             PROVE  /\ ~act'[t].seen.cancel
                    /\ act'[t].seen.status = "ignored" =>
                         /\ act'[t].job \notin ReadJobs
                         /\ \E d \in Jobs : KeyOf[d] = KeyOf[act'[t].job] /\ row'[d].status = "success"
  BY DEF PreparedWell, Duplicate
<1>1. CASE act'[t] = act[t]
  <2>1. ~act[t].seen.cancel /\ (act[t].seen.status = "ignored" => Duplicate(act[t].job))
    BY <1>1 DEF PreparedWell
  <2>2. ASSUME act[t].seen.status = "ignored"
        PROVE  \E d \in Jobs : KeyOf[d] = KeyOf[act[t].job] /\ row'[d].status = "success"
    <3>1. PICK d \in Jobs : KeyOf[d] = KeyOf[act[t].job] /\ row[d].status = "success"
      BY <2>1, <2>2 DEF Duplicate
    <3>2. \A u \in Threads : act[u].pc = "cancelling" => act[u].job # d
      BY <1>1, <2>2, <3>1 DEF Uncontended, Preparing
    <3>3. row'[d].status = "success"
      BY <3>1, <3>2, SuccessStays
    <3> QED
      BY <3>1, <3>3
  <2> QED
    BY <1>1, <2>1, <2>2 DEF Duplicate
<1>2. CASE act'[t] # act[t]
  <2>1. Quiet
    BY <1>2, StepKinds, AttemptWrites, InsertWrites, CancelWrites, ResetWrites
    DEF OnlyActor, Actors, Resting, Preparing
  <2>2. row' = row /\ MovesOn(t)
    BY <2>1 DEF Quiet, Actors
  <2>3. ~act'[t].seen.cancel /\ (act'[t].seen.status = "ignored" => Duplicate(act'[t].job))
    BY <1>2, <2>2 DEF MovesOn, Resting, Preparing
  <2> QED
    BY <2>2, <2>3 DEF Duplicate
<1> QED
  BY <1>1, <1>2

LEMMA SessionStep ==
  EngineInv /\ SessionInv /\ Uncontended /\ [Next]_vars => SessionInv'
BY FreshSessions, PreparedStep DEF SessionInv

\* As long as nothing contends, sessions change what they loaded.
LEMMA SessionHolds == Spec /\ []Uncontended => [](EngineInv /\ FreshInv /\ SessionInv)
<1>1. Init => SessionInv
  BY DEF Init, SessionInv, Fresh, PreparedWell, Idle, Doing, Preparing, Actors
<1> QED
  BY <1>1, SessionStep, EngineHolds, PTL DEF Spec

-----------------------------------------------------------------------------
(* What each step does to the requests under way and to the late attempts *)

\* One actor moves; unless it comes to rest, it was idle or about to start.
LEMMA OneMoves ==
  ASSUME TypeOK, [Next]_vars
  PROVE  \/ act' = act
         \/ \E a \in Actors : /\ OnlyActor(a)
                              /\ act'[a].pc \in Resting \/ act[a].pc \in {"idle", "starting"}
<1>0. ActOK /\ \A a \in Workers \cup Threads : a \in Actors
  BY DEF TypeOK, ActOK, Actors
<1>1. CASE UNCHANGED vars
  BY <1>1 DEF vars
<1>2. ASSUME NEW a \in Actors, Attempts(a)
      PROVE  OnlyActor(a) /\ act'[a].pc \in Resting
  BY <1>2, AttemptEnds, ConcludeEffect DEF Attempts, OnlyActor, Resting
<1>3. ASSUME NEW w \in Workers, WorkerStep(w) \/ WorkerFault(w)
      PROVE  OnlyActor(w) /\ (act'[w].pc \in Resting \/ act[w].pc \in {"idle", "starting"})
  <2>1. CASE Attempts(w)
    BY <1>0, <1>2, <2>1
  <2>2. ASSUME NEW j \in Jobs, Load(w, j)
        PROVE  OnlyActor(w) /\ act[w].pc = "idle"
    BY <1>0, <2>2 DEF Load, OnlyActor, ActOK
  <2>3. CASE Schedule(w) \/ Ack(w) \/ WorkerFault(w)
    BY <1>0, <2>3, GotoEffect, LeaveEffect
    DEF Schedule, Ack, WorkerFault, ScheduleFails, AttemptUnsaved, ChildDies, WorkerDies,
        PCs, OnlyActor, Resting
  <2> QED
    BY <1>3, <2>1, <2>2, <2>3 DEF WorkerStep, Attempts
<1>4. ASSUME NEW t \in Threads, NewRequest(t) \/ HandlerStep(t) \/ RequestDies(t)
      PROVE  OnlyActor(t) /\ (act'[t].pc \in Resting \/ act[t].pc \in {"idle", "starting"})
  <2>1. CASE Attempts(t)
    BY <1>0, <1>2, <2>1
  <2>2. CASE NewRequest(t)
    BY <1>0, <2>2
    DEF NewRequest, Prepare, CancelRequest, ReprocessRequest, OnlyActor, ActOK
  <2>3. CASE StartSync(t)
    BY <1>0, <2>3, LeaveEffect DEF StartSync, OnlyActor, ActOK
  <2>4. CASE Publish(t) \/ SyncAttemptRaises(t) \/ CancelCommit(t) \/ Requeue(t) \/ RequestDies(t)
    BY <1>0, <2>4, LeaveEffect
    DEF Publish, SyncAttemptRaises, CancelCommit, Requeue, RequestDies, OnlyActor, Resting
  <2>5. CASE Insert(t) \/ ReprocessCommit(t)
    BY <1>0, <2>5, GotoEffect, LeaveEffect
    DEF Insert, ReprocessCommit, PCs, OnlyActor, Resting
  <2> QED
    BY <1>4, <2>1, <2>2, <2>3, <2>4, <2>5 DEF HandlerStep, Attempts
<1> QED
  BY <1>0, <1>1, <1>3, <1>4 DEF Next

\* The requests under way change with the actor that moves.
LEMMA AskedAfter ==
  ASSUME EngineInv, Uncontended, NEW a \in Actors, OnlyActor(a)
  PROVE  /\ act[a].pc # "cancelling" /\ act'[a].pc # "cancelling" => Asked' = Asked
         /\ act[a].pc # "cancelling" /\ act'[a].pc = "cancelling" /\ a \in Threads
              => Asked' = Asked \cup {act'[a].job}
         /\ act[a].pc = "cancelling" /\ act'[a].pc # "cancelling"
              => Asked' = Asked \ {act[a].job}
<1>1. \A t \in Threads : t \in Actors
  BY DEF Actors
<1>2. act[a].pc = "cancelling" => a \in Threads
  BY DEF EngineInv, SyncInv, WorkerPCs, Actors
<1>3. \A t \in Threads \ {a} : act'[t] = act[t]
  BY <1>1 DEF OnlyActor
<1>4. ASSUME act[a].pc # "cancelling", act'[a].pc # "cancelling"
      PROVE  Asked' = Asked
  BY <1>3, <1>4 DEF Asked
<1>5. ASSUME act[a].pc # "cancelling", act'[a].pc = "cancelling", a \in Threads
      PROVE  Asked' = Asked \cup {act'[a].job}
  BY <1>3, <1>5 DEF Asked
<1>6. ASSUME act[a].pc = "cancelling", act'[a].pc # "cancelling"
      PROVE  Asked' = Asked \ {act[a].job}
  <2>1. \A t \in Threads \ {a} : act[t].pc = "cancelling" => act[t].job # act[a].job
    BY <1>1, <1>6 DEF Uncontended
  <2> QED
    BY <1>2, <1>3, <1>6, <2>1 DEF Asked
<1> QED
  BY <1>4, <1>5, <1>6

\* An attempt that ends, or is lost, is late no more; the rest of the late attempts
\* stay so when no other job changes.
LEMMA LateAfter ==
  ASSUME EngineInv, Uncontended, NEW a \in Actors, OnlyActor(a),
         act[a].pc = "running", act'[a].pc # "running",
         \A k \in Jobs \ {act[a].job} : row'[k] = row[k]
  PROVE  Late' = Late \ {act[a].job}
<1>1. \A b \in Actors \ {a} : act'[b] = act[b] /\ (act[b].pc = "running" => act[b].job # act[a].job)
  BY DEF OnlyActor, Uncontended
<1>2. ASSUME NEW k \in Jobs
      PROVE  k \in Late' <=> k \in Late /\ k # act[a].job
  BY <1>1 DEF Late
<1> QED
  BY <1>2 DEF Late

\* Who is not trying a job before or after changes no late attempt, as long as the jobs
\* that are being tried keep their rows.
LEMMA LateFrame ==
  ASSUME NEW a \in Actors, OnlyActor(a),
         act[a].pc # "running",
         act'[a].pc = "running" => row'[act'[a].job].status \in Live,
         \A b \in Actors \ {a} : act[b].pc = "running" => row'[act[b].job] = row[act[b].job]
  PROVE  Late' = Late
<1>1. \A b \in Actors \ {a} : act'[b] = act[b]
  BY DEF OnlyActor
<1>2. ASSUME NEW k \in Jobs
      PROVE  k \in Late' <=> k \in Late
  BY <1>1 DEF Late, Live
<1> QED
  BY <1>2 DEF Late

-----------------------------------------------------------------------------
(* What each step is in JobLifecycle *)

\* A step that commits nothing begins, forgets or loses something, or is none.
LEMMA QuietImplements ==
  ASSUME EngineInv, SessionInv, Uncontended, [Next]_vars, Quiet
  PROVE  [Lifecycle!Next]_(Lifecycle!vars)
<1> USE DEF EngineInv
<1>0. row' = row /\ \A b \in Actors : MovesOn(b)
  BY DEF Quiet
<1>1. CASE act' = act
  BY <1>0, <1>1 DEF Lifecycle!vars, Asked, Late
<1>2. ASSUME NEW a \in Actors, OnlyActor(a),
             act'[a].pc \in Resting \/ act[a].pc \in {"idle", "starting"}
      PROVE  [Lifecycle!Next]_(Lifecycle!vars)
  <2> DEFINE j == act[a].job
  <2>1. act[a].pc # "idle" => j \in Jobs
    BY StatusOfHeld DEF SessionInv
  <2>2. CASE act[a].pc = "cancelling"
    <3>1. Asked' = Asked \ {j} /\ j \in Asked /\ j \in Jobs
      <4>1. a \in Threads
        BY <2>2 DEF SyncInv, WorkerPCs, Actors
      <4> QED
        BY <1>2, <2>1, <2>2, <4>1, AskedAfter DEF Asked, Resting
    <3>2. Late' = Late
      BY <1>0, <1>2, <2>2, LateFrame DEF Resting
    <3>3. Lifecycle!Forget(j)
      BY <1>0, <3>1, <3>2 DEF Lifecycle!Forget
    <3> QED
      BY <3>1, <3>3 DEF Lifecycle!Next
  <2>3. CASE act[a].pc = "running"
    <3>1. Asked' = Asked
      BY <1>2, <2>3, AskedAfter DEF Resting
    <3>2. Late' = Late \ {j} /\ j \in Jobs
      BY <1>0, <1>2, <2>1, <2>3, LateAfter DEF Resting
    <3>3. CASE j \in Late
      <4>1. Lifecycle!Lost(j)
        BY <1>0, <3>1, <3>2, <3>3 DEF Lifecycle!Lost
      <4> QED
        BY <3>2, <4>1 DEF Lifecycle!Next
    <3>4. CASE j \notin Late
      BY <1>0, <3>1, <3>2, <3>4 DEF Lifecycle!vars
    <3> QED
      BY <3>3, <3>4
  <2>4. CASE act[a].pc \notin {"cancelling", "running"}
    <3>1. MovesOn(a)
      BY <1>0
    <3>2. act'[a].pc = "running" => row[act'[a].job].status \in Live
      BY <2>4, <3>1 DEF MovesOn, Resting, Preparing
    <3>3. Late' = Late
      BY <1>0, <1>2, <2>4, <3>2, LateFrame
    <3>4. CASE act'[a].pc = "cancelling"
      <4>1. a \in Threads /\ act'[a].job \in Jobs /\ row[act'[a].job].status \in Live
        BY <2>4, <3>1, <3>4 DEF MovesOn, Resting, Preparing
      <4>2. Asked' = Asked \cup {act'[a].job}
        BY <1>2, <2>4, <3>4, <4>1, AskedAfter
      <4>3. Lifecycle!CancelRequest(act'[a].job)
        BY <1>0, <3>3, <4>1, <4>2 DEF Lifecycle!CancelRequest, Lifecycle!Live, Live
      <4> QED
        BY <4>1, <4>3 DEF Lifecycle!Next
    <3>5. CASE act'[a].pc # "cancelling"
      BY <1>0, <1>2, <2>4, <3>3, <3>5, AskedAfter DEF Lifecycle!vars
    <3> QED
      BY <3>4, <3>5
  <2> QED
    BY <2>2, <2>3, <2>4
<1> QED
  BY <1>1, <1>2, OneMoves

\* An attempt is an Attempt, or a LateAttempt when a cancellation came first.
LEMMA AttemptImplements ==
  ASSUME EngineInv, SessionInv, Uncontended, NEW a \in Actors, Attempts(a)
  PROVE  Lifecycle!Next
<1> DEFINE j == act[a].job
           seen == act[a].seen
<1>1. /\ act[a].pc = "running" /\ j \in Jobs /\ OnlyActor(a) /\ OnlyJob(j)
      /\ act'[a].pc \in Resting /\ seen.status \in Live
  BY AttemptWrites DEF EngineInv
<1>2. Asked' = Asked /\ Late' = Late \ {j}
  BY <1>1, AskedAfter, LateAfter DEF Resting, OnlyJob
<1>3. seen \in Rows /\ row[j] \in Rows /\ row[j] \in {seen, Cancelled(seen)}
  BY <1>1, StatusOfHeld DEF SessionInv, Fresh
<1>4. PICK outcome \in IF seen.cancel THEN {"cancelled", "failed"}
                       ELSE Lifecycle!Outcomes(seen.attempts + 1) :
        row'[j] = [row[j] EXCEPT !.status = IF outcome # seen.status THEN outcome ELSE @,
                                 !.attempts = seen.attempts + 1]
  BY AttemptRow DEF SessionInv
<1>5. row' = [row EXCEPT ![j] = row'[j]]
  <2>1. row' \in [Jobs -> Rows]
    BY AttemptEnds, ConcludeEffect DEF EngineInv, TypeOK, Attempts
  <2> QED
    BY <1>1, <2>1 DEF EngineInv, TypeOK, OnlyJob
<1>6. CASE row[j] = seen
  <2>1. j \notin Late
    BY <1>1, <1>6 DEF Late, Live
  <2>2. row'[j] = [row[j] EXCEPT !.status = outcome, !.attempts = @ + 1]
    <3>1. (IF outcome # seen.status THEN outcome ELSE row[j].status) = outcome
      BY <1>6
    <3>2. seen.attempts + 1 = row[j].attempts + 1
      BY <1>6
    <3> QED
      BY <1>4, <3>1, <3>2
  <2>3. outcome \in IF row[j].cancel THEN {"cancelled", "failed"}
                    ELSE Lifecycle!Outcomes(row[j].attempts + 1)
    BY <1>4, <1>6
  <2>4. row' = [row EXCEPT ![j].status = outcome, ![j].attempts = @ + 1]
    BY <1>1, <1>3, <1>5, <2>2 DEF EngineInv, TypeOK, Rows
  <2>5. Lifecycle!Attempt(j)
    BY <1>1, <1>2, <1>6, <2>1, <2>3, <2>4 DEF Lifecycle!Attempt, Lifecycle!Live, Live
  <2> QED
    BY <1>1, <2>5 DEF Lifecycle!Next
<1>7. CASE row[j] = Cancelled(seen)
  <2>1. row[j].status = "cancelled" /\ row[j].attempts = seen.attempts
    BY <1>3, <1>7, CancelledColumns
  <2>2. j \in Late
    BY <1>1, <2>1 DEF Late
  <2> DEFINE status == IF outcome # seen.status THEN outcome ELSE "cancelled"
  <2>3. row'[j] = [row[j] EXCEPT !.status = status, !.attempts = @ + 1]
    BY <1>4, <2>1
  <2>4. outcome \in Lifecycle!Outcomes(row[j].attempts + 1) \cup {"cancelled"}
    BY <1>4, <2>1 DEF Lifecycle!Outcomes
  <2>5. status \in {outcome, IF outcome = "retrying" THEN "cancelled" ELSE outcome}
    BY <1>1, <1>4 DEF Live, Lifecycle!Outcomes
  <2>6. row' = [row EXCEPT ![j].status = status, ![j].attempts = @ + 1]
    BY <1>1, <1>3, <1>5, <2>3 DEF EngineInv, TypeOK, Rows
  <2> HIDE DEF status
  <2>7. Lifecycle!LateAttempt(j, outcome)
    BY <1>2, <2>2, <2>4, <2>5, <2>6 DEF Lifecycle!LateAttempt
  <2>8. outcome \in {"success", "failed", "retrying", "dead_letter", "cancelled"}
    BY <1>4 DEF Lifecycle!Outcomes
  <2> QED
    BY <1>1, <2>7, <2>8 DEF Lifecycle!Next
<1> QED
  BY <1>3, <1>6, <1>7

\* The commit of a new job is a Submit.
LEMMA InsertImplements ==
  ASSUME EngineInv, SessionInv, Uncontended, NEW t \in Threads, Insert(t)
  PROVE  Lifecycle!Next
<1> DEFINE j == act[t].job
           seen == act[t].seen
<1>0. t \in Actors
  BY DEF Actors
<1>1. /\ act[t].pc \in Preparing /\ j \in Jobs /\ OnlyActor(t) /\ OnlyJob(j)
      /\ act'[t].pc \in Resting /\ row[j].status = "absent"
      /\ \A b \in Actors \ {t} : act[b].job # j
      /\ seen.status \in {"pending", "ignored"} /\ seen.attempts = 0
  BY InsertWrites DEF EngineInv
<1>2. seen = Lifecycle!Row(seen.status, 0, FALSE)
  <2>1. seen \in Rows /\ ~seen.cancel
    BY <1>0, <1>1, StatusOfHeld DEF SessionInv, PreparedWell, Preparing
  <2> QED
    BY <1>1, <2>1 DEF Rows, Lifecycle!Row
<1>3. row' = [row EXCEPT ![j] = Lifecycle!Row(seen.status, 0, FALSE)]
  BY <1>2 DEF Insert
<1>4. seen.status = "ignored" => j \notin ReadJobs /\ Lifecycle!Processed(KeyOf[j])
  BY <1>1 DEF SessionInv, PreparedWell, Duplicate, Lifecycle!Processed
<1>5. Asked' = Asked
  BY <1>0, <1>1, AskedAfter DEF Resting, Preparing
<1>6. Late' = Late
  <2>1. \A b \in Actors \ {t} : act[b].pc = "running" => row'[act[b].job] = row[act[b].job]
    BY <1>1, StatusOfHeld DEF OnlyJob, SessionInv
  <2> QED
    BY <1>0, <1>1, <2>1, LateFrame DEF Resting, Preparing
<1>7. Lifecycle!Submit(j)
  BY <1>1, <1>3, <1>4, <1>5, <1>6 DEF Lifecycle!Submit
<1> QED
  BY <1>1, <1>7 DEF Lifecycle!Next

\* The commit of a reprocess request is a Reset.
LEMMA ResetImplements ==
  ASSUME EngineInv, SessionInv, Uncontended, NEW t \in Threads, ReprocessCommit(t)
  PROVE  Lifecycle!Next
<1> DEFINE j == act[t].job
<1>0. t \in Actors
  BY DEF Actors
<1>1. /\ act[t].pc = "resetting" /\ j \in Jobs /\ OnlyActor(t) /\ OnlyJob(j)
      /\ act'[t].pc \in Resting
  BY ResetWrites DEF EngineInv
<1>2. row[j].status \in {"failed", "dead_letter"}
  BY <1>0, <1>1, StatusOfHeld DEF SessionInv, Ended
<1>3. row' = [row EXCEPT ![j] = Lifecycle!Row("pending", 0, FALSE)]
  <2>1. row'[j] = Lifecycle!Row("pending", 0, FALSE)
    BY ResetsRow DEF SessionInv, Lifecycle!Row
  <2>2. row' = [row EXCEPT ![j] = row'[j]]
    BY <1>1 DEF ReprocessCommit, Save, EngineInv, TypeOK
  <2> QED
    BY <2>1, <2>2
<1>4. Asked' = Asked
  BY <1>0, <1>1, AskedAfter DEF Resting
<1>5. Late' = Late
  <2>1. ASSUME NEW b \in Actors \ {t}, act[b].pc = "running"
        PROVE  row'[act[b].job] = row[act[b].job]
    BY <1>1, <1>2, <2>1, StatusOfHeld DEF OnlyJob, SessionInv, Live
  <2> QED
    BY <1>0, <1>1, <2>1, LateFrame DEF Resting
<1>6. Lifecycle!Reset(j)
  BY <1>2, <1>3, <1>4, <1>5 DEF Lifecycle!Reset
<1> QED
  BY <1>1, <1>6 DEF Lifecycle!Next

\* The commit of a cancellation is a CancelCommit.
LEMMA CancelImplements ==
  ASSUME EngineInv, SessionInv, Uncontended, NEW t \in Threads, CancelCommit(t)
  PROVE  Lifecycle!Next
<1> DEFINE j == act[t].job
<1>0. t \in Actors
  BY DEF Actors
<1>1. /\ act[t].pc = "cancelling" /\ j \in Jobs /\ OnlyActor(t) /\ OnlyJob(j)
      /\ act'[t].pc \in Resting
  BY CancelWrites DEF EngineInv
<1>2. row'[j] = Cancelled(row[j]) /\ row'[j].status = "cancelled"
  BY CancelRow, CancelWrites DEF SessionInv, EngineInv
<1>3. row' = [row EXCEPT ![j] = Lifecycle!Row("cancelled", row[j].attempts, TRUE)]
  <2>1. row' = [row EXCEPT ![j] = row'[j]]
    BY <1>1 DEF CancelCommit, Save, EngineInv, TypeOK
  <2>2. row[j] \in Rows
    BY <1>1 DEF EngineInv, TypeOK
  <2>3. Cancelled(row[j]) = Lifecycle!Row("cancelled", row[j].attempts, TRUE)
    <3>1. Lifecycle!Row("cancelled", row[j].attempts, TRUE) \in Rows
      BY <2>2 DEF Lifecycle!Row, Rows, Statuses
    <3> QED
      BY <2>2, <3>1, CancelledColumns, SameRow DEF Lifecycle!Row
  <2> QED
    BY <1>2, <2>1, <2>3
<1>4. j \in Asked /\ Asked' = Asked \ {j}
  BY <1>0, <1>1, AskedAfter DEF Asked, Resting
<1>5. \A k \in Jobs \ {j} : k \in Late' <=> k \in Late
  BY <1>1 DEF Late, OnlyActor, OnlyJob, Resting
<1>6. j \in Late => j \in Late'
  BY <1>1, <1>2 DEF Late, OnlyActor
<1>7. row[j].status \notin Live /\ j \in Late' => j \in Late
  <2>1. ASSUME row[j].status \notin Live, NEW b \in Actors, act'[b].pc = "running", act'[b].job = j
        PROVE  j \in Late
    <3>1. act[b] = act'[b]
      BY <1>1, <2>1 DEF OnlyActor, Resting
    <3> QED
      BY <1>1, <2>1, <3>1, StatusOfHeld DEF Late, SessionInv
  <2> QED
    BY <2>1 DEF Late
<1>8. Late \subseteq Jobs /\ Late' \subseteq Jobs
  BY DEF Late
<1>9. Late' \in IF row[j].status \in Live THEN {Late, Late \cup {j}} ELSE {Late}
  BY <1>1, <1>5, <1>6, <1>7, <1>8
<1>10. Lifecycle!CancelCommit(j)
  BY <1>3, <1>4, <1>9 DEF Lifecycle!CancelCommit, Lifecycle!Live, Live
<1> QED
  BY <1>1, <1>10 DEF Lifecycle!Next

-----------------------------------------------------------------------------
(* The refinement *)

\* Every step of the engine is a step of JobLifecycle or none.
LEMMA StepImplements ==
  EngineInv /\ SessionInv /\ Uncontended /\ [Next]_vars => [Lifecycle!Next]_(Lifecycle!vars)
BY StepKinds, QuietImplements, AttemptImplements, InsertImplements, ResetImplements,
   CancelImplements
DEF EngineInv

\* In the beginning there is no job.
LEMMA InitImplements == Init => Lifecycle!Init
BY DEF Init, Lifecycle!Init, Lifecycle!Row, Asked, Late, Absent, NewRow, Idle, Doing, Actors

\* As long as the requests contend for no job, clients see jobs that do what JobLifecycle
\* promises, cancelled or not, whatever is queued, redelivered, lost or dies.
THEOREM LifecycleStepsHold ==
  Spec /\ []Uncontended => Lifecycle!Init /\ [][Lifecycle!Next]_(Lifecycle!vars)
BY InitImplements, StepImplements, SessionHolds, PTL DEF Spec

\* A job that succeeded stays so (SuccessFinal, which routes_jobs.py:55 and :87 promise and
\* the code does not keep) as long as nobody cancels and no job is attempted or reset twice
\* at once, with any number of workers and clients.
THEOREM SuccessFinalUncontended ==
  Spec /\ []Uncontended /\ [](\A t \in Threads : act[t].pc # "cancelling") => SuccessFinal
<1> DEFINE NobodyCancels == \A t \in Threads : act[t].pc # "cancelling"
<1>1. EngineInv /\ SessionInv /\ Uncontended /\ NobodyCancels /\ [Next]_vars
        => [\A j \in Jobs : row[j].status = "success" => row'[j].status = "success"]_vars
  BY SuccessStays DEF SessionInv
<1> QED
  BY <1>1, SessionHolds, PTL DEF Spec, SuccessFinal

\* So it is with one worker and one client, which may cancel.
THEOREM OneWorkerLifecycle ==
  ASSUME OneWorker, OneClient
  PROVE  Spec => Lifecycle!Init /\ [][Lifecycle!Next]_(Lifecycle!vars)
<1>1. EngineInv => Uncontended
  <2> SUFFICES ASSUME EngineInv
               PROVE  Uncontended
    OBVIOUS
  <2>1. ASSUME NEW a \in Actors, NEW b \in Actors, act[a].job = act[b].job,
               act[a].pc = "running", act[b].pc = "running"
        PROVE  a = b
    BY <2>1, OneAttempt DEF EngineInv
  <2>2. ASSUME NEW a \in Actors, NEW b \in Actors,
               act[a].pc \in {"cancelling", "resetting"}, act[b].pc \in {"cancelling", "resetting"}
        PROVE  a = b
    BY <2>2 DEF EngineInv, SyncInv, WorkerPCs, OneClient, Actors
  <2>3. ASSUME NEW t \in Threads, NEW u \in Threads, act[t].pc = "cancelling",
               act[u].pc \in {"prepared", "prepared_sync"}
        PROVE  FALSE
    BY <2>3 DEF OneClient
  <2> QED
    BY <2>1, <2>2, <2>3 DEF Uncontended
<1> QED
  BY <1>1, EngineHolds, LifecycleStepsHold, PTL

=============================================================================
