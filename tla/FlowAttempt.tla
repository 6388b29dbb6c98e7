----------------------------- MODULE FlowAttempt -----------------------------
(***************************************************************************)
(* The inside of an attempt, which JobEngine leaves open: execute_job from *)
(* the loaded row to the outcome it writes.  A flow that maps and writes   *)
(* is checked, mapped and simulated; a flow that reads is resolved against *)
(* the catalog, asks the ERP through a connector of its own, and maps what *)
(* comes back.  One job is followed through its attempts, while its flow   *)
(* may be edited between them, into one that does something else too, and  *)
(* a connection may be tested before.                                      *)
(*                                                                         *)
(* Cancellation, queueing and crashes are JobEngine's and are not repeated.*)
(***************************************************************************)
EXTENDS SankhyaClient, ReadCatalog, FieldMapping

CONSTANTS
  Flows,         \* the flows jobs are submitted for and edited into
  Edits,         \* pairs of flows: what a PATCH makes of which
  ReadChecks,    \* whether tests read: values of read_check
  MaxAttempts    \* sync_jobs.max_attempts

ASSUME MaxAttemptsAssumption == MaxAttempts \in Nat \ {0}
ASSUME BoundsAssumption == MaxClock \in Nat /\ MaxCalls \in Nat

ErrorTypes == {"timeout_error", "rate_limit_error", "external_api_error",
               "authentication_error", "authorization_error", "validation_error",
               "mapping_error", "business_rule_error", "unknown_error"}
ASSUME ErrorTypesAssumption == None \notin ErrorTypes

ASSUME FlowsAssumption == \A flow \in Flows : IsFiniteSet(flow.mappings)

\* An edit changes the configuration, the mappings or the connections, and what the
\* flow does with them; the payload was copied into the job when it was submitted.
ASSUME EditsAssumption ==
  /\ Edits \subseteq Flows \X Flows
  /\ \A edit \in Edits : edit[1].payload = edit[2].payload

VARIABLES
  job,    \* the sync_jobs row of the job, with its flow as it is now
  run,    \* what the process that executes or tests is doing
  last    \* how the latest attempt ended

vars == <<clock, client, job, run, last>>

Unfinished == [error |-> None, answer |-> None, stage |-> "none",
               target |-> <<>>, records |-> <<>>, count |-> 0]
Idle == [pc |-> "idle", flow |-> None, seen |-> None]

Init ==
  /\ ClientInit
  /\ job = [flow |-> None, status |-> "absent", attempts |-> 0]
  /\ run = Idle
  /\ last = Unfinished

-----------------------------------------------------------------------------
(* Submission, edits, and the connection test *)

\* prepare_flow_job resolves the flow already: an invalid read is no job.
Submit(f) ==
  /\ run.pc = "idle" /\ job.status = "absent"
  /\ Resolution(f).kind # "invalid"
  /\ job' = [flow |-> f, status |-> "pending", attempts |-> 0]
  /\ UNCHANGED <<clock, client, run, last>>

\* PATCH /flows/{id}, which may name another configuration or none, or another
\* source connection; or the mappings' routes, or PATCH of the connection.
Edit(edit) ==
  /\ run.pc = "idle" /\ job.status \in {"pending", "retrying"}
  /\ job.flow = edit[1]
  /\ job' = [job EXCEPT !.flow = edit[2]]
  /\ UNCHANGED <<clock, client, run, last>>

\* A real connection test; a mock one asks nothing of the ERP.
StartTest(credentials, readCheck) ==
  /\ run.pc = "idle" /\ job.status = "absent"
  /\ client' = Connector(credentials, Test(readCheck))
  /\ run' = [run EXCEPT !.pc = "testing"]
  /\ UNCHANGED <<clock, job, last>>

EndTest ==
  /\ run.pc = "testing" /\ client.pc \in {"done", "failed"}
  /\ client' = Closed
  /\ clock' = 0
  /\ run' = Idle
  /\ UNCHANGED <<job, last>>

-----------------------------------------------------------------------------
(* execute_job *)

Row == [status |-> job.status, attempts |-> job.attempts, cancel |-> FALSE]

\* The row and its flow are loaded; the attempt works on what it loaded.
Begin ==
  /\ run.pc = "idle" /\ job.status \in {"pending", "retrying"}
  /\ run' = [pc |-> "running", flow |-> job.flow, seen |-> Row]
  /\ UNCHANGED <<clock, client, job, last>>

Running == run.pc = "running" /\ client.pc = "closed"

Retryable(error) == error \in {"timeout_error", "rate_limit_error", "external_api_error"}

\* Mutant of FailedStatus: attempts are compared before the attempt is counted.
FailedStatusUncounted(error) ==
  IF ~Retryable(error) THEN "failed"
  ELSE IF job.attempts < MaxAttempts THEN "retrying" ELSE "dead_letter"

\* _finalize_failure.
FailedStatus(error) ==
  IF ~Retryable(error) THEN "failed"
  ELSE IF job.attempts + 1 < MaxAttempts THEN "retrying" ELSE "dead_letter"

\* The outcome is written, and the connector, if any, is closed; the clock tells
\* the age of its token only, and starts again with the next one.
End(status, outcome) ==
  /\ job' = [job EXCEPT !.status = status, !.attempts = @ + 1]
  /\ last' = outcome
  /\ client' = Closed
  /\ clock' = 0
  /\ run' = [run EXCEPT !.pc = "committed"]

Fail(error, outcome) == End(FailedStatus(error), [outcome EXCEPT !.error = error])

FlowInactive ==
  /\ Running /\ ~run.flow.active
  /\ Fail("business_rule_error", [Unfinished EXCEPT !.stage = "inactive"])

ReadInvalid ==
  /\ Running /\ run.flow.active /\ Resolution(run.flow).kind = "invalid"
  /\ Fail("validation_error", [Unfinished EXCEPT !.stage = "invalid"])

\* A flow without a read operation: check, map, check, simulate the target.
Writing == Running /\ run.flow.active /\ Resolution(run.flow).kind = "none"

SourceMissing ==
  /\ Writing /\ MissingSources(run.flow.payload, run.flow.mappings) # {}
  /\ Fail("validation_error", [Unfinished EXCEPT !.stage = "source"])

Target(order) == MapFields(run.flow.payload, order)

MappingRaises ==
  /\ Writing /\ MissingSources(run.flow.payload, run.flow.mappings) = {}
  /\ \E order \in Orders(run.flow.mappings) :
       /\ Target(order).raised
       /\ Fail("mapping_error", [Unfinished EXCEPT !.stage = "mapping"])

TargetMissing ==
  /\ Writing /\ MissingSources(run.flow.payload, run.flow.mappings) = {}
  /\ \E order \in Orders(run.flow.mappings) :
       /\ ~Target(order).raised
       /\ MissingTargets(Target(order).target, run.flow.mappings) # {}
       /\ Fail("validation_error", [Unfinished EXCEPT !.stage = "target"])

Deliver ==
  /\ Writing /\ MissingSources(run.flow.payload, run.flow.mappings) = {}
  /\ \E order \in Orders(run.flow.mappings) :
       /\ ~Target(order).raised
       /\ MissingTargets(Target(order).target, run.flow.mappings) = {}
       /\ End("success", [Unfinished EXCEPT !.stage = "write", !.target = Target(order).target])

-----------------------------------------------------------------------------
(* _execute_sankhya_read_operation *)

TheRead == Resolution(run.flow)
Reading == Running /\ run.flow.active /\ TheRead.kind = "read"

\* Credentials that do not decode raise before anything is caught: the worker's
\* handler fails the job.
ConnectorRaises ==
  /\ Reading /\ run.flow.credentials = "undecodable"
  /\ End("failed", [Unfinished EXCEPT !.stage = "raised"])

\* The records, mapped one by one if the flow has mappings, are the outcome; a
\* record that a mapping raises on fails them all.  Nothing is required of them.
Store(records, count) ==
  \E order \in Orders(run.flow.mappings) :
    LET given(r) == [f \in Fields |-> IF f \in DOMAIN r THEN r[f] ELSE None]
        mapped == [i \in DOMAIN records |-> MapFields(given(records[i]), order)]
        outcome == [Unfinished EXCEPT !.stage = "read", !.records = records, !.count = count]
    IN  IF \E i \in DOMAIN mapped : mapped[i].raised
          THEN Fail("validation_error", [Unfinished EXCEPT !.stage = "mapping"])
          ELSE End("success", outcome)

\* One record with a text in every field.
MockRead ==
  /\ Reading /\ run.flow.credentials # "undecodable" /\ TheRead.mode = "mock"
  /\ Store(<<[f \in TheRead.fields |-> "word"]>>, 1)

Connect ==
  /\ Reading /\ run.flow.credentials # "undecodable" /\ TheRead.mode = "real"
  /\ client' = Connector(run.flow.credentials, Read)
  /\ UNCHANGED <<clock, job, run, last>>

ReadFails ==
  /\ run.pc = "running" /\ client.pc = "failed"
  /\ Fail(ErrorOf(client.answer),
          [Unfinished EXCEPT !.stage = "read", !.answer = client.answer])

ReadAnswered ==
  /\ run.pc = "running" /\ client.pc = "done"
  /\ Store(Normalized(client.body, TheRead.fields, TheRead.limit),
           CountRecords(client.body))

\* The task returns; a job in retrying is executed again.
Return ==
  /\ run.pc = "committed"
  /\ run' = Idle
  /\ last' = Unfinished
  /\ UNCHANGED <<clock, client, job>>

CallStep == ClientStep /\ UNCHANGED <<job, run, last>>

AttemptStep ==
  \/ FlowInactive \/ ReadInvalid
  \/ SourceMissing \/ MappingRaises \/ TargetMissing \/ Deliver
  \/ ConnectorRaises \/ MockRead \/ Connect \/ ReadFails \/ ReadAnswered
  \/ Return \/ EndTest

Next ==
  \/ \E f \in Flows : Submit(f)
  \/ \E edit \in Edits : Edit(edit)
  \/ \E credentials \in {"oauth", "oauth_missing", "legacy", "legacy_missing"},
        readCheck \in ReadChecks : StartTest(credentials, readCheck)
  \/ Begin
  \/ AttemptStep
  \/ CallStep
  \/ (Tick /\ UNCHANGED <<job, run, last>>)

\* The process that executes goes on, and every request to the ERP is answered or
\* times out (timeout_seconds of the connection).
Spec == Init /\ [][Next]_vars /\ WF_vars(AttemptStep) /\ WF_vars(CallStep)

-----------------------------------------------------------------------------
(* Properties *)

\* Every variable has its type, and an attempt ends in a status and an error type
\* the tables know.
TypeOK ==
  /\ clock \in 0..MaxClock
  /\ client.pc \in {"closed", "next", "authenticating", "loading", "done", "failed"}
  /\ client.auths \in 0..MaxCalls /\ client.loads \in 0..MaxCalls
  /\ client.todo \in {<<>>, <<"authenticate">>, <<"load">>, Read, Test(TRUE)}
  /\ client.answer \in AuthRefusals \cup {"no_credentials", None}
  /\ job.flow \in Flows \cup {None}
  /\ job.status \in {"absent", "pending", "retrying", "success", "failed", "dead_letter"}
  /\ job.attempts \in 0..MaxAttempts
  /\ run.pc \in {"idle", "running", "committed", "testing"}
  /\ last.error \in ErrorTypes \cup {None}

\* JobEngine, with this job as its only one.
Worker == "worker"
TheJob == "job"
Engine == INSTANCE JobEngine WITH
  Jobs <- {TheJob}, KeyOf <- [j \in {TheJob} |-> j], ReadJobs <- {},
  Workers <- {Worker}, Threads <- {}, Requests <- {},
  SyncModes <- {}, Faults <- {}, MaxResets <- 0, MaxFaults <- 0, NoJob <- None,
  row <- [j \in {TheJob} |-> Row],
  queue <- [j \in {TheJob} |-> 0],
  act <- [w \in {Worker} |-> [pc |-> run.pc, job |-> TheJob, seen |-> run.seen]],
  trail <- [j \in {TheJob} |-> [count |-> job.attempts, last |-> job.status]],
  withdrawn <- {}, syncJobs <- {}, resets <- 0, faults <- 0

\* The error types JobEngine expects of a flow that writes, and of one that reads or
\* should but cannot.
KindsOf(flow) ==
  {"business_rule_error"} \cup
    IF Resolution(flow).kind = "none" THEN Engine!WriteFailures ELSE Engine!ReadFailures

\* JobEngine leaves open how an attempt ends; every end there is here is one it
\* provides for, with an error type it expects of what the flow does by then,
\* whatever the flow did when the job was submitted.
EndsAsEngineSays ==
  [][run.pc = "running" /\ run'.pc = "committed" =>
       CASE last'.error # None ->
              last'.error \in KindsOf(run.flow) /\ Engine!AttemptFails(Worker)
         [] last'.stage = "raised" -> Engine!AttemptRaises(Worker)
         [] OTHER -> Engine!AttemptSucceeds(Worker)]_vars

\* retry_policy.should_retry, which the runner does not call.
StatusCodes == {"400", "401", "403", "404", "429", "500"}
ShouldRetry(answer, error) ==
  IF answer \in StatusCodes THEN answer \in {"429", "500"} ELSE Retryable(error)

\* An answer of the ERP is given another attempt, while there are any left, exactly
\* when the retry policy says it deserves one, although it passes through the
\* client's mapping, the exception classes and the runner's classification.
RetryAgreesWithPolicy ==
  run.pc = "committed" /\ last.answer # None =>
    (job.status \in {"retrying", "dead_letter"} <=> ShouldRetry(last.answer, last.error))

\* The ERP is called only for an active flow that asks for a real read over a
\* sandbox connection, whatever was edited since the job was submitted.
CallsOnlySandbox ==
  run.pc = "running" /\ client.auths + client.loads > 0 =>
    /\ run.flow.active /\ run.flow.platform = "sankhya"
    /\ run.flow.environment = "sandbox" /\ run.flow.config.mode = "real"

\* Nothing is repeated within an attempt: one request for a token and one for the
\* records, and in a connection test one more for a token that ran out.
CallsBounded ==
  /\ client.loads <= 1
  /\ client.auths <= IF run.pc = "testing" THEN 2 ELSE 1

\* A request for records carries a token that had not expired when it was looked
\* at, unless it had been issued at that moment.
TokenNotKnownExpired ==
  client.pc = "loading" =>
    \/ client.token.expires = None
    \/ client.token.expires > client.checked
    \/ client.token.taken = client.checked

\* What a read stores respects its catalog entry, however much the ERP sends.
StoredWithinCatalog ==
  run.pc = "committed" /\ last.stage = "read" /\ run.flow.config.operation \in DOMAIN Catalog =>
    LET d == Catalog[run.flow.config.operation]
    IN  /\ DOMAIN last.records \subseteq 1..d.maxLimit
        /\ \A i \in DOMAIN last.records : DOMAIN last.records[i] \subseteq d.allowed

\* Each field of a delivered target holds what one of its mappings makes of the payload
\* by itself: the order the mappings were loaded in decides between mappings that share
\* the target, and nothing else.
DeliveredAsMapped ==
  run.pc = "committed" /\ last.stage = "write" =>
    /\ DOMAIN last.target = {m.target : m \in run.flow.mappings}
    /\ \A t \in DOMAIN last.target : \E m \in run.flow.mappings :
         m.target = t /\ last.target[t] = Mapped(m, run.flow.payload)

\* The check of the source fields refuses no payload that the mapping would have
\* made complete, if targets are distinct.
EarlyRefusalJustified ==
  run.pc = "committed" /\ last.stage = "source" /\ DistinctTargets(run.flow.mappings) =>
    \E m \in run.flow.mappings :
      \/ Mapped(m, run.flow.payload) = Raises
      \/ m.required /\ Mapped(m, run.flow.payload) \in Missing

\* An attempt or a test that began comes to its end.
CallsConclude == run.pc \in {"running", "testing"} ~> run.pc \in {"committed", "idle"}

=============================================================================
