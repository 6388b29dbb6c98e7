---------------------------- MODULE ValidationRun ----------------------------
(***************************************************************************)
(* The homologation validation (backend/scripts/validate_sankhya_readonly  *)
(* and app.validation.sankhya_readonly): a client of the API that looks up *)
(* or creates a tenant, a connection and a flow for each operation of the  *)
(* catalog, runs each flow, polls its job, reads its logs and writes a     *)
(* report.  It keeps nothing between two runs but what it left in the API. *)
(*                                                                         *)
(* The jobs go on by themselves, and an operator may cancel or reprocess   *)
(* them, as JobLifecycle (which JobEngine is shown to implement) promises. *)
(* Any request may be refused, or be carried out and its answer lost; the  *)
(* script may be killed and is started again.                              *)
(* One run at a time: a run is not started while another goes on.          *)
(***************************************************************************)
EXTENDS Naturals, Sequences, FiniteSetsExt, Null

CONSTANTS
  Operations,      \* the operations that are validated, in their order
  MaxPolls,        \* max_poll_attempts
  LogLimit,        \* the limit of the logs request
  MaxAttempts,     \* sync_jobs.max_attempts
  MaxRuns,         \* bound: runs of the script
  MaxRequests,     \* bound: cancel and reprocess requests of an operator
  MaxFaults        \* bound: requests that fail and runs that are killed

ASSUME PollsAssumption == MaxPolls \in Nat \ {0}
ASSUME LimitAssumption == LogLimit \in Nat \ {0}
ASSUME AttemptsAssumption == MaxAttempts \in Nat \ {0}
ASSUME RunsAssumption == MaxRuns \in Nat
ASSUME NoneAssumption == None \notin Nat \cup {"error_retried", "error_at_last"}

VARIABLES
  made,      \* how many resources of each kind the script has created
  job, asked, late,
             \* the jobs of this run, by the order of their submission (see
             \*   JobLifecycle); no run sees the jobs of an earlier one, whose logs
             \*   push others out as those of a job given up in this run do
  origin,    \* the operation each job was submitted for
  logs,      \* the newest logs of the tenant since the job that is polled was
             \*   submitted, oldest first: older ones push none of these out,
             \*   and while no job is polled nobody reads any
  script,    \* what the script is doing
  report,    \* the report of the latest run, if it wrote one
  reprocessed,  \* jobs of this run that were reset
  undone,       \* and those that were cancelled when they had succeeded
  requests, faults   \* bound counters

jobs == <<job, asked, late>>
api == <<made, jobs, origin, logs>>
operator == <<reprocessed, undone, requests>>
vars == <<api, script, report, operator, faults>>

Names == {Operations[i] : i \in DOMAIN Operations}
ASSUME OperationsAssumption ==
  /\ Operations \in Seq(Names) /\ Operations # <<>>
  /\ Names \cap {"tenant", "connection"} = {}
Jobs == 1..Len(Operations)
Lifecycle == INSTANCE JobLifecycle WITH KeyOf <- [j \in Jobs |-> j], ReadJobs <- Jobs

Off == [pc |-> "off", wants |-> "tenant", job |-> None, polls |-> 0, run |-> 0,
        status |-> None, results |-> <<>>]
NoReport == [run |-> 0, results |-> <<>>]

Init ==
  /\ made = [r \in {"tenant", "connection"} \cup Names |-> 0]
  /\ Lifecycle!Init
  /\ origin = <<>> /\ logs = <<>>
  /\ script = Off
  /\ report = NoReport
  /\ reprocessed = {} /\ undone = {}
  /\ requests = 0 /\ faults = 0

-----------------------------------------------------------------------------
(* Tenant, connection, flow: reuse what is there, or create it *)

Goto(pc) == script' = [script EXCEPT !.pc = pc]

Start ==
  /\ script.pc = "off" /\ script.run < MaxRuns
  /\ script' = [Off EXCEPT !.pc = "look", !.run = script.run + 1]
  /\ job' = [j \in Jobs |-> Lifecycle!Row("absent", 0, FALSE)] /\ origin' = <<>>
  /\ asked' = {} /\ late' = {} /\ reprocessed' = {} /\ undone' = {}
  /\ report' = NoReport
  /\ UNCHANGED <<made, logs, requests, faults>>

\* What the script goes on with once it has what it wants.
Having ==
  CASE script.wants = "tenant" -> [script EXCEPT !.pc = "look", !.wants = "connection"]
    [] script.wants = "connection" -> [script EXCEPT !.pc = "look", !.wants = Operations[1]]
    [] OTHER -> [script EXCEPT !.pc = "run"]

\* Mutant of Look: flows are matched by an id that no two runs share.
LookUnmatched ==
  /\ script.pc = "look"
  /\ IF script.wants \notin Names /\ made[script.wants] > 0 THEN script' = Having
     ELSE Goto("create")
  /\ UNCHANGED <<api, report, operator, faults>>

Look ==
  /\ script.pc = "look"
  /\ IF made[script.wants] > 0 THEN script' = Having ELSE Goto("create")
  /\ UNCHANGED <<api, report, operator, faults>>

Create ==
  /\ script.pc = "create"
  /\ made' = [made EXCEPT ![script.wants] = @ + 1]
  /\ script' = Having
  /\ UNCHANGED <<jobs, origin, logs, report, operator, faults>>

-----------------------------------------------------------------------------
(* The operations: run the flow, poll the job, read the logs *)

Result(status, error, j, count) ==
  [operation |-> script.wants, status |-> status, error |-> error, job |-> j, logs |-> count]

\* An operation has its result: the next one, or the report.
Reported(results) ==
  IF Len(results) < Len(Operations)
    THEN [script EXCEPT !.pc = "look", !.wants = Operations[Len(results) + 1],
                        !.job = None, !.polls = 0, !.status = None, !.results = results]
    ELSE [script EXCEPT !.pc = "report", !.job = None, !.status = None, !.results = results]

Conclude(result) ==
  /\ script' = Reported(Append(script.results, result))
  /\ logs' = <<>>

SubmitJob ==
  /\ Lifecycle!Submit(Len(origin) + 1)
  /\ origin' = Append(origin, script.wants)

RunFlow ==
  /\ script.pc = "run"
  /\ SubmitJob
  /\ script' = [script EXCEPT !.pc = "poll", !.job = Len(origin) + 1]
  /\ UNCHANGED <<made, logs, report, operator, faults>>

\* Mutants of Terminal: a job between two attempts counts as ended, and none does.
TerminalRetrying(status) ==
  status \in {"success", "failed", "dead_letter", "cancelled", "ignored", "retrying"}

Terminal(status) == status \in {"success", "failed", "dead_letter", "cancelled", "ignored"}

PollSees ==
  /\ script.pc = "poll" /\ Terminal(job[script.job].status)
  /\ script' = [script EXCEPT !.pc = "logs", !.status = job[script.job].status]
  /\ UNCHANGED <<api, report, operator, faults>>

\* Mutant of PollAgain: the script waits for as long as the job takes.
PollAgainForever ==
  /\ script.pc = "poll" /\ ~Terminal(job[script.job].status)
  /\ UNCHANGED vars

\* Not ended yet: wait and poll again, or give the operation up.
PollAgain ==
  /\ script.pc = "poll" /\ ~Terminal(job[script.job].status)
  /\ IF script.polls + 1 < MaxPolls
       THEN script' = [script EXCEPT !.polls = @ + 1] /\ UNCHANGED logs
       ELSE Conclude(Result("failed", "timeout_error", None, 0))
  /\ UNCHANGED <<made, jobs, origin, report, operator, faults>>

\* Mutant of Listed: the oldest logs, not the newest.
ListedOldest == SubSeq(logs, 1, IF Len(logs) < LogLimit THEN Len(logs) ELSE LogLimit)

\* GET /logs: the newest ones up to the limit, of the whole tenant (oldest first here).
Listed == SubSeq(logs, IF Len(logs) < LogLimit THEN 1 ELSE Len(logs) - LogLimit + 1, Len(logs))

\* The listed logs of the job, as places in the list.
MyLogs == {i \in DOMAIN Listed : Listed[i].job = script.job}

\* The error is the newest log's; without one the polled status stands in for it.
ExtractErrorType(status, mine) ==
  IF mine # {} /\ Listed[Max(mine)].error # None THEN Listed[Max(mine)].error
  ELSE IF status \in {"failed", "dead_letter", "retrying"} THEN "unknown_error"
  ELSE None

CollectLogs ==
  /\ script.pc = "logs"
  /\ Conclude(Result(script.status, ExtractErrorType(script.status, MyLogs),
                     script.job, Cardinality(MyLogs)))
  /\ UNCHANGED <<made, jobs, origin, report, operator, faults>>

-----------------------------------------------------------------------------
(* The report *)

CountOf(results, statuses) ==
  Cardinality({i \in DOMAIN results : results[i].status \in statuses})

\* Mutant of Ready: nothing failed, which a dead letter is not counted as.
ReadyUnlessFailed(results) ==
  results # <<>> /\ CountOf(results, {"failed", "cancelled", "ignored"}) = 0

\* ready_for_next_stage.
Ready(results) ==
  results # <<>> /\ CountOf(results, {"success"}) = Len(results)

WriteReport ==
  /\ script.pc = "report"
  /\ report' = [run |-> script.run, results |-> script.results]
  /\ script' = [Off EXCEPT !.run = script.run]
  /\ UNCHANGED <<api, operator, faults>>

-----------------------------------------------------------------------------
(* Faults *)

Fault == faults < MaxFaults /\ faults' = faults + 1

\* Mutant of Raised: the operations that remain are not tried.
RaisedAbandons ==
  /\ logs' = <<>>
  /\ script' = IF script.wants \in Names
                 THEN [script EXCEPT !.pc = "report", !.job = None, !.status = None,
                         !.results = Append(@, Result("failed", "request_error", None, 0))]
                 ELSE [Off EXCEPT !.run = script.run]

\* An exception in an operation is its result; before the operations it ends the
\* run without a report.
Raised ==
  IF script.wants \in Names
    THEN Conclude(Result("failed", "request_error",
           IF script.pc = "logs" THEN script.job ELSE None, 0))
    ELSE script' = [Off EXCEPT !.run = script.run] /\ UNCHANGED logs

\* A request is refused, or never arrives.
RequestFails ==
  /\ script.pc \in {"look", "create", "run", "poll", "logs"}
  /\ Fault
  /\ Raised
  /\ UNCHANGED <<made, jobs, origin, report, operator>>

\* A request is carried out, and its answer is lost.
AnswerLost ==
  /\ Fault
  /\ \/ /\ script.pc = "create"
        /\ made' = [made EXCEPT ![script.wants] = @ + 1]
        /\ UNCHANGED <<jobs, origin>>
     \/ /\ script.pc = "run"
        /\ SubmitJob
        /\ UNCHANGED made
  /\ Raised
  /\ UNCHANGED <<report, operator>>

Killed ==
  /\ script.pc # "off"
  /\ Fault
  /\ script' = [Off EXCEPT !.run = script.run]
  /\ logs' = <<>>
  /\ UNCHANGED <<made, jobs, origin, report, operator>>

-----------------------------------------------------------------------------
(* The engine and an operator.  The logs of other flows of the tenant push those of
   a job out of the list as the logs of jobs that were given up do. *)

\* An error type is named for the attempt it ended, so that a mix-up shows.
ErrorOf(status) ==
  CASE status \in {"success", "cancelled"} -> None
    [] status = "retrying" -> "error_retried"
    [] OTHER -> "error_at_last"

\* A log more than the API lists is kept, none of the older ones; whose log it is
\* matters for the job that is polled only.
Log(j, error) ==
  LET log == IF j = script.job THEN [job |-> j, error |-> error] ELSE [job |-> None, error |-> None]
      all == Append(logs, log)
  IN  logs' = IF script.job = None THEN <<>>
              ELSE SubSeq(all, IF Len(all) > LogLimit + 1 THEN Len(all) - LogLimit ELSE 1,
                          Len(all))

Attempt(j) ==
  /\ Lifecycle!Attempt(j)
  /\ Log(j, ErrorOf(job'[j].status))
  /\ UNCHANGED <<made, origin, script, report, operator, faults>>

\* What the attempt in flight logs is its outcome, whatever becomes of the status.
LateAttempt(j) ==
  /\ \E outcome \in {"success", "failed", "retrying", "dead_letter", "cancelled"} :
       Lifecycle!LateAttempt(j, outcome) /\ Log(j, ErrorOf(outcome))
  /\ UNCHANGED <<made, origin, script, report, operator, faults>>

Lost(j) == Lifecycle!Lost(j) /\ UNCHANGED <<made, origin, logs, script, report, operator, faults>>

Request == requests < MaxRequests /\ requests' = requests + 1

Reprocess(j) ==
  /\ Request
  /\ Lifecycle!Reset(j)
  /\ reprocessed' = reprocessed \cup {j}
  /\ Log(j, None)
  /\ UNCHANGED <<made, origin, script, report, undone, faults>>

CancelRequest(j) ==
  /\ Request
  /\ Lifecycle!CancelRequest(j)
  /\ UNCHANGED <<made, origin, logs, script, report, reprocessed, undone, faults>>

\* A cancellation writes no log.
CancelCommit(j) ==
  /\ Lifecycle!CancelCommit(j)
  /\ undone' = IF job[j].status = "success" THEN undone \cup {j} ELSE undone
  /\ UNCHANGED <<made, origin, logs, script, report, reprocessed, requests, faults>>

Forget(j) ==
  /\ Lifecycle!Forget(j)
  /\ UNCHANGED <<made, origin, logs, script, report, operator, faults>>

ScriptStep ==
  \/ Look \/ Create \/ RunFlow \/ PollSees \/ PollAgain \/ CollectLogs \/ WriteReport

Next ==
  \/ Start \/ ScriptStep
  \/ RequestFails \/ AnswerLost \/ Killed
  \/ \E j \in Jobs :
       \/ Attempt(j) \/ LateAttempt(j) \/ Lost(j)
       \/ Reprocess(j) \/ CancelRequest(j) \/ CancelCommit(j) \/ Forget(j)

\* The script runs on by itself and its requests time out; nothing is asked of the
\* engine, which may leave a job where it is.
Spec == Init /\ [][Next]_vars /\ WF_vars(ScriptStep)

-----------------------------------------------------------------------------
(* Properties *)

Statuses == {"success", "failed", "dead_letter", "cancelled"}
Errors == {"error_retried", "error_at_last", "timeout_error", "request_error",
           "unknown_error", None}
ResultType(r) ==
  /\ r.operation \in Names /\ r.status \in Statuses /\ r.error \in Errors
  /\ r.job \in Jobs \cup {None} /\ r.logs \in 0..LogLimit

\* Every variable has its type, and every result is of an operation and a status that
\* the report knows.
TypeOK ==
  /\ made \in [{"tenant", "connection"} \cup Names -> Nat]
  /\ Len(origin) <= Len(Operations)
  /\ script.pc \in {"off", "look", "create", "run", "poll", "logs", "report"}
  /\ script.wants \in {"tenant", "connection"} \cup Names
  /\ script.polls \in 0..(MaxPolls - 1)
  /\ \A i \in DOMAIN script.results : ResultType(script.results[i])
  /\ report.run \in 0..MaxRuns

\* However often the script is killed or loses an answer, the runs after it reuse
\* what it left: there is never a second tenant, connection or flow of an operation.
NothingMadeTwice == \A r \in DOMAIN made : made[r] <= 1

\* A report that says the next stage may begin stands on a job for each operation,
\* submitted in that very run, that ended in success.  It is in success still, unless
\* a cancellation that was let through before is written after: then it is cancelled.
ReadyMeansSuccess ==
  Ready(report.results) =>
    \A i \in DOMAIN Operations : \E j \in DOMAIN origin :
      /\ origin[j] = Operations[i]
      /\ job[j].status = IF j \in undone THEN "cancelled" ELSE "success"

\* A report says something of every operation, once and in order, whatever failed.
ReportComplete ==
  report # NoReport =>
    /\ Len(report.results) = Len(Operations)
    /\ \A i \in DOMAIN report.results : report.results[i].operation = Operations[i]

\* The status the script saw its job end in is where the job stays, as long as the
\* operator neither reprocesses nor cancels it: no verdict is given on a job between
\* two attempts.  A cancellation takes back a verdict, or is the verdict, and an
\* attempt in flight takes that one back; nothing else does.
VerdictStands ==
  \A i \in DOMAIN script.results :
    LET r == script.results[i]
    IN  r.job \notin reprocessed \cup {None} /\ r.error # "request_error" =>
          \/ job[r.job].status = r.status
          \/ job[r.job].cancel /\ "cancelled" \in {r.status, job[r.job].status}

\* If the logs of a job are among the newest the API lists, its result counts every
\* attempt, and its error is the last attempt's and no earlier one's.
LastAttemptReported ==
  [][\A j \in DOMAIN origin :
       LET mine == {i \in DOMAIN logs : logs[i].job = j}
           r == script'.results[Len(script'.results)]
       IN  /\ script.pc = "logs" /\ script.job = j /\ faults' = faults
           /\ Len(script'.results) > Len(script.results)
           /\ j \notin reprocessed /\ Cardinality(mine) = job[j].attempts
           /\ \A i \in mine : Len(logs) - i < LogLimit
           => /\ r.logs = job[j].attempts
              /\ \A i \in mine : (\A k \in mine : k <= i) => r.error = logs[i].error]_vars

\* A run comes to its end even if no job ever does.
RunEnds == script.pc # "off" ~> script.pc = "off"

=============================================================================
