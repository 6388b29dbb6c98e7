---------------------------- MODULE JobLifecycle ----------------------------
(***************************************************************************)
(* What the engine promises of a job, with no queue, no sessions and no    *)
(* snapshots: a submission becomes pending or is ignored as a duplicate of *)
(* a success; each attempt is counted and either succeeds, fails for good, *)
(* is retried while attempts are left, or ends in dead_letter; a job that  *)
(* ended badly can be reset; and a job that can be attempted is attempted  *)
(* (docs/ARCHITECTURE.md, "Async execution flow").                         *)
(*                                                                         *)
(* A cancellation promises less than the documentation says: it is checked *)
(* at one time and written at another, over whatever the job has become,   *)
(* and an attempt in flight when it is written still writes its outcome.   *)
(***************************************************************************)
EXTENDS Naturals

CONSTANTS Jobs, KeyOf, ReadJobs, MaxAttempts

VARIABLES
  job,      \* status, attempt_count and cancel_requested of each job
  asked,    \* jobs whose cancellation was let through and is not written yet
  late      \* cancelled jobs with an attempt in flight

vars == <<job, asked, late>>

Row(status, attempts, cancel) ==
  [status |-> status, attempts |-> attempts, cancel |-> cancel]

Live == {"pending", "retrying"}

Init ==
  /\ job = [j \in Jobs |-> Row("absent", 0, FALSE)]
  /\ asked = {} /\ late = {}

Processed(key) == \E d \in Jobs : KeyOf[d] = key /\ job[d].status = "success"

Submit(j) ==
  /\ job[j].status = "absent"
  /\ \E status \in {"pending", "ignored"} :
       /\ status = "ignored" => j \notin ReadJobs /\ Processed(KeyOf[j])
       /\ job' = [job EXCEPT ![j] = Row(status, 0, FALSE)]
  /\ UNCHANGED <<asked, late>>

Outcomes(n) ==
  {"success", "failed", IF n < MaxAttempts THEN "retrying" ELSE "dead_letter"}

\* An attempt that finds the flag set executes nothing; it may still fail on what
\* it loads before it looks at the flag.
Attempt(j) ==
  /\ job[j].status \in Live
  /\ \E status \in IF job[j].cancel THEN {"cancelled", "failed"}
                                    ELSE Outcomes(job[j].attempts + 1) :
       job' = [job EXCEPT ![j].status = status, ![j].attempts = @ + 1]
  /\ UNCHANGED <<asked, late>>

CancelRequest(j) ==
  /\ job[j].status \in Live
  /\ asked' = asked \cup {j}
  /\ UNCHANGED <<job, late>>

\* Nothing is checked again.
CancelCommit(j) ==
  /\ j \in asked
  /\ job' = [job EXCEPT ![j] = Row("cancelled", @.attempts, TRUE)]
  /\ asked' = asked \ {j}
  /\ late' \in IF job[j].status \in Live THEN {late, late \cup {j}} ELSE {late}

Forget(j) ==
  /\ j \in asked
  /\ asked' = asked \ {j}
  /\ UNCHANGED <<job, late>>

\* The attempt in flight writes its outcome over the cancellation, unless the
\* outcome is the status it had loaded.
LateAttempt(j, outcome) ==
  /\ j \in late
  /\ outcome \in Outcomes(job[j].attempts + 1) \cup {"cancelled"}
  /\ \E status \in {outcome, IF outcome = "retrying" THEN "cancelled" ELSE outcome} :
       job' = [job EXCEPT ![j].status = status, ![j].attempts = @ + 1]
  /\ late' = late \ {j}
  /\ UNCHANGED asked

Lost(j) ==
  /\ j \in late
  /\ late' = late \ {j}
  /\ UNCHANGED <<job, asked>>

Reset(j) ==
  /\ job[j].status \in {"failed", "dead_letter"}
  /\ job' = [job EXCEPT ![j] = Row("pending", 0, FALSE)]
  /\ UNCHANGED <<asked, late>>

Next ==
  \E j \in Jobs :
    \/ Submit(j) \/ Attempt(j) \/ Reset(j)
    \/ CancelRequest(j) \/ CancelCommit(j) \/ Forget(j) \/ Lost(j)
    \/ \E outcome \in {"success", "failed", "retrying", "dead_letter", "cancelled"} :
         LateAttempt(j, outcome)

Spec == Init /\ [][Next]_vars /\ \A j \in Jobs : WF_vars(Attempt(j))

=============================================================================
