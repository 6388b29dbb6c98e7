------------------------- MODULE ValidationRunProofs -------------------------
(***************************************************************************)
(* Theorems about ValidationRun for any operations, any bounds, any number *)
(* of runs, faults and requests and any limit of polls and of logs.          *)
(***************************************************************************)
EXTENDS ValidationRun, FiniteSetTheorems, WellFoundedInduction, TLAPS

Kinds == {"tenant", "connection"} \cup Names
Before == {"look", "create", "run", "poll", "logs"}
OfOperation == {"run", "poll", "logs"}

-----------------------------------------------------------------------------
(* Where the script is *)

\* script is a record, and its results are a sequence.
Fields == {"pc", "wants", "job", "polls", "run", "status", "results"}
IsScript(s) == s = [f \in Fields |-> s[f]]
IsSeq(results) == \E S : results \in Seq(S)

\* A report covers the operations in their order.
Covers(results) ==
  \A i \in 1..Len(results) : i \in DOMAIN Operations /\ results[i].operation = Operations[i]

\* While it works, the script wants what comes after the results it has.
PlaceOf(s) ==
  /\ IsScript(s) /\ IsSeq(s.results)
  /\ s.pc \in Before \cup {"off", "report"}
  /\ s.wants \in {"tenant", "connection"} \cup Names
  /\ s.pc # "off" => Covers(s.results)
  /\ s.pc \in OfOperation => s.wants \in Names
  /\ s.pc \in Before /\ s.wants \in Names =>
       /\ Len(s.results) + 1 \in 1..Len(Operations)
       /\ s.wants = Operations[Len(s.results) + 1]
  /\ s.pc \in Before /\ s.wants \notin Names => s.results = <<>>
  /\ s.pc = "report" => Len(s.results) = Len(Operations)

ReportOK ==
  report # NoReport =>
    /\ IsSeq(report.results) /\ Covers(report.results)
    /\ Len(report.results) = Len(Operations)

Place == PlaceOf(script) /\ ReportOK

\* There is at least one operation, and none is called like a tenant or a connection.
LEMMA OperationFacts ==
  /\ Len(Operations) \in Nat /\ Len(Operations) >= 1
  /\ DOMAIN Operations = 1..Len(Operations)
  /\ \A i \in 1..Len(Operations) : Operations[i] \in Names
  /\ "tenant" \notin Names /\ "connection" \notin Names
BY OperationsAssumption

\* A sequence with an element appended.
LEMMA AppendFacts ==
  ASSUME NEW s, IsSeq(s), NEW e
  PROVE  /\ IsSeq(Append(s, e))
         /\ Len(s) \in Nat /\ Len(Append(s, e)) = Len(s) + 1
         /\ \A i \in 1..Len(s) : Append(s, e)[i] = s[i]
         /\ Append(s, e)[Len(s) + 1] = e
         /\ DOMAIN s = 1..Len(s) /\ DOMAIN Append(s, e) = 1..(Len(s) + 1)
<1>1. PICK S : s \in Seq(S)
  BY DEF IsSeq
<1>2. s \in Seq(S \cup {e}) /\ e \in S \cup {e}
  BY <1>1
<1>3. Append(s, e) \in Seq(S \cup {e})
  BY <1>2
<1> QED
  BY <1>2, <1>3 DEF IsSeq

\* The empty sequence is one.
LEMMA EmptyIsSeq == IsSeq(<<>>)
BY <<>> \in Seq({}) DEF IsSeq

\* Having what it wants, the script is where it should be.
LEMMA HavingPlace ==
  ASSUME PlaceOf(script), script.pc \in {"look", "create"}
  PROVE  PlaceOf(Having) /\ Having.pc \in {"look", "run"} /\ Having.results = script.results
<1>1. CASE script.wants = "tenant"
  BY <1>1, OperationFacts DEF Having, PlaceOf, IsScript, Fields, Before, OfOperation
<1>2. CASE script.wants = "connection"
  <2>1. script.results = <<>> /\ Len(script.results) = 0
    BY <1>2, OperationFacts DEF PlaceOf, Before
  <2>2. Operations[1] \in Names /\ 1 \in 1..Len(Operations)
    BY OperationFacts
  <2>3. /\ IsScript(Having) /\ Having.pc = "look" /\ Having.wants = Operations[1]
        /\ Having.results = script.results
    BY <1>2 DEF Having, PlaceOf, IsScript, Fields
  <2>4. IsSeq(Having.results) /\ Covers(Having.results)
    BY <2>3 DEF PlaceOf, Before
  <2> QED
    BY <2>1, <2>2, <2>3, <2>4 DEF PlaceOf, Before, OfOperation
<1>3. CASE script.wants \in Names
  BY <1>3, OperationFacts DEF Having, PlaceOf, IsScript, Fields, Before, OfOperation
<1> QED
  BY <1>1, <1>2, <1>3 DEF PlaceOf, Before

\* A result of the operation it works on takes the script on to the next one.
LEMMA ReportedPlace ==
  ASSUME PlaceOf(script), script.pc \in Before, script.wants \in Names,
         NEW r, r.operation = script.wants
  PROVE  /\ PlaceOf(Reported(Append(script.results, r)))
         /\ Reported(Append(script.results, r)).pc \in {"look", "report"}
<1> DEFINE results == Append(script.results, r)
<1> SUFFICES PlaceOf(Reported(results)) /\ Reported(results).pc \in {"look", "report"}
  OBVIOUS
<1>1. /\ IsSeq(results) /\ Len(results) = Len(script.results) + 1
      /\ Len(results) \in Nat /\ Len(results) <= Len(Operations) /\ Covers(results)
  BY AppendFacts, OperationFacts DEF PlaceOf, Covers, Before
<1> HIDE DEF results
<1>2. CASE Len(results) < Len(Operations)
  <2>1. Len(results) + 1 \in 1..Len(Operations) /\ Operations[Len(results) + 1] \in Names
    BY <1>1, <1>2, OperationFacts
  <2>2. /\ IsScript(Reported(results)) /\ Reported(results).pc = "look"
        /\ Reported(results).wants = Operations[Len(results) + 1]
        /\ Reported(results).results = results
    BY <1>2 DEF Reported, PlaceOf, IsScript, Fields
  <2> QED
    BY <1>1, <2>1, <2>2 DEF PlaceOf, Before, OfOperation
<1>3. CASE ~(Len(results) < Len(Operations))
  <2>1. Len(results) = Len(Operations)
    <3>1. Len(Operations) \in Nat
      BY OperationFacts
    <3>2. Len(results) \in Nat /\ Len(results) <= Len(Operations)
      BY <1>1
    <3> QED
      BY <1>3, <3>1, <3>2
  <2>2. /\ IsScript(Reported(results)) /\ Reported(results).pc = "report"
        /\ Reported(results).results = results /\ Reported(results).wants = script.wants
    BY <1>3 DEF Reported, PlaceOf, IsScript, Fields
  <2> QED
    BY <1>1, <2>1, <2>2 DEF PlaceOf, Before, OfOperation
<1> QED
  BY <1>2, <1>3

\* A script that is not running is where it should be.
LEMMA OffPlace ==
  ASSUME NEW run
  PROVE  PlaceOf([Off EXCEPT !.run = run])
BY EmptyIsSeq DEF Off, PlaceOf, IsScript, Fields, Before, OfOperation

\* A result is of the operation the script works on.
LEMMA ResultOperation ==
  ASSUME NEW status, NEW error, NEW j, NEW count
  PROVE  Result(status, error, j, count).operation = script.wants
BY DEF Result

\* An exception leaves the script with a result, or off.
LEMMA RaisedPlace ==
  ASSUME Place, script.pc \in Before, Raised, UNCHANGED report
  PROVE  Place'
<1>1. CASE script.wants \in Names
  BY <1>1, ReportedPlace, ResultOperation DEF Raised, Conclude, Place, PlaceOf, ReportOK
<1>2. CASE script.wants \notin Names
  BY <1>2, OffPlace DEF Raised, Place, PlaceOf, ReportOK
<1> QED
  BY <1>1, <1>2

\* What the engine and an operator do to the jobs.
EngineStep ==
  \E j \in Jobs :
    \/ Attempt(j) \/ LateAttempt(j) \/ Lost(j)
    \/ Reprocess(j) \/ CancelRequest(j) \/ CancelCommit(j) \/ Forget(j)

\* They leave the script, and what it makes, alone.
LEMMA EngineEffect ==
  ASSUME EngineStep
  PROVE  UNCHANGED <<made, origin, script, report, faults>>
BY DEF EngineStep, Attempt, LateAttempt, Lost, Reprocess, CancelRequest, CancelCommit, Forget

\* The script is always where it should be.
LEMMA PlaceHolds == Spec => []Place
<1>1. Init => Place
  BY OffPlace, EmptyIsSeq DEF Init, Place, PlaceOf, Off, IsScript, Fields, ReportOK, Before, OfOperation
<1>2. ASSUME Place, [Next]_vars PROVE Place'
  <2> USE <1>2
  <2> SUFFICES PlaceOf(script)' /\ ReportOK'
    BY DEF Place
  <2>1. CASE Start
    <3>1. script' = [Off EXCEPT !.pc = "look", !.run = script.run + 1] /\ report' = NoReport
      BY <2>1 DEF Start
    <3>2. /\ IsScript(script)' /\ script'.pc = "look" /\ script'.wants = "tenant"
          /\ script'.results = <<>>
      BY <3>1 DEF Off, IsScript, Fields
    <3> QED
      BY <3>1, <3>2, EmptyIsSeq, OperationFacts
      DEF PlaceOf, ReportOK, Before, OfOperation, Covers
  <2>2. CASE Look
    BY <2>2, HavingPlace DEF Look, Goto, Place, PlaceOf, IsScript, Fields, ReportOK, Before, OfOperation
  <2>3. CASE Create
    BY <2>3, HavingPlace DEF Create, Place, ReportOK
  <2>4. CASE RunFlow
    BY <2>4 DEF RunFlow, Place, PlaceOf, IsScript, Fields, ReportOK, Before, OfOperation
  <2>5. CASE PollSees
    BY <2>5 DEF PollSees, Place, PlaceOf, IsScript, Fields, ReportOK, Before, OfOperation
  <2>6. CASE PollAgain
    <3>1. script.pc = "poll" /\ script.wants \in Names /\ UNCHANGED report
      BY <2>6 DEF PollAgain, Place, PlaceOf, OfOperation
    <3>2. CASE script.polls + 1 < MaxPolls
      BY <2>6, <3>1, <3>2 DEF PollAgain, Place, PlaceOf, IsScript, Fields, ReportOK, Before, OfOperation
    <3>3. CASE ~(script.polls + 1 < MaxPolls)
      BY <2>6, <3>1, <3>3, ReportedPlace, ResultOperation
      DEF PollAgain, Conclude, Place, PlaceOf, ReportOK, Before
    <3> QED
      BY <3>2, <3>3
  <2>7. CASE CollectLogs
    <3>1. script.pc = "logs" /\ script.wants \in Names /\ UNCHANGED report
      BY <2>7 DEF CollectLogs, Place, PlaceOf, OfOperation
    <3>2. PICK error, count :
            Conclude(Result(script.status, error, script.job, count))
      BY <2>7 DEF CollectLogs
    <3> QED
      BY <3>1, <3>2, ReportedPlace, ResultOperation DEF Conclude, Place, ReportOK, Before
  <2>8. CASE WriteReport
    BY <2>8, OffPlace DEF WriteReport, Place, PlaceOf, ReportOK
  <2>9. CASE RequestFails
    BY <2>9, RaisedPlace DEF RequestFails, Before, Place
  <2>10. CASE AnswerLost
    BY <2>10, RaisedPlace DEF AnswerLost, Before, Place
  <2>11. CASE Killed
    BY <2>11, OffPlace DEF Killed, Place, ReportOK
  <2>12. CASE EngineStep
    BY <2>12, EngineEffect DEF Place, ReportOK
  <2>13. CASE UNCHANGED vars
    BY <2>13 DEF vars, Place, ReportOK
  <2> QED
    BY <2>1, <2>2, <2>3, <2>4, <2>5, <2>6, <2>7, <2>8, <2>9, <2>10, <2>11, <2>12, <2>13
    DEF Next, ScriptStep, EngineStep
<1> QED
  BY <1>1, <1>2, PTL DEF Spec

\* A report, if there is one, covers every operation in order.
THEOREM ReportCompleteHolds == Spec => []ReportComplete
<1>1. Place => ReportComplete
  BY OperationFacts, AppendFacts DEF Place, ReportOK, ReportComplete, Covers
<1> QED
  BY <1>1, PlaceHolds, PTL

-----------------------------------------------------------------------------
(* What the script makes *)

\* What it is about to create is not there: nobody else creates it.
MadeInv ==
  /\ made \in [Kinds -> 0..1]
  /\ script.pc \in Before => script.wants \in Kinds
  /\ script.pc = "create" => made[script.wants] = 0

\* What the script makes, it makes once.
LEMMA MadeHolds == Spec => []MadeInv
<1>1. Init => MadeInv
  BY DEF Init, MadeInv, Off, Kinds, Before
<1>2. ASSUME Place, Place', MadeInv, [Next]_vars PROVE MadeInv'
  <2> USE <1>2
  <2>0. (script.pc \in Before => script.wants \in Kinds)'
    BY OperationFacts DEF Place, PlaceOf, Kinds
  <2>1. CASE Look
    <3>1. CASE made[script.wants] > 0
      BY <2>0, <2>1, <3>1, HavingPlace DEF Look, Place, MadeInv, api
    <3>2. CASE ~(made[script.wants] > 0)
      BY <2>0, <2>1, <3>2 DEF Look, Goto, Place, PlaceOf, IsScript, Fields, MadeInv, api, Before
    <3> QED
      BY <3>1, <3>2
  <2>2. CASE Create
    BY <2>0, <2>2, HavingPlace DEF Create, Place, MadeInv, Before
  <2>3. CASE AnswerLost
    <3>1. script.pc \in {"create", "run"} /\ script'.pc # "create"
      BY <2>3, ReportedPlace, ResultOperation
      DEF AnswerLost, Raised, Conclude, Place, Before, Off
    <3> QED
      BY <2>0, <2>3, <3>1 DEF AnswerLost, MadeInv, Before
  <2>4. CASE /\ UNCHANGED made
             /\ script'.pc = "create" => script.pc = "create" /\ script'.wants = script.wants
    BY <2>0, <2>4 DEF MadeInv
  <2>5. CASE Start \/ RunFlow \/ PollSees \/ WriteReport \/ Killed
    BY <2>4, <2>5
    DEF Start, RunFlow, PollSees, WriteReport, Killed, Place, PlaceOf, IsScript, Fields, Off, api
  <2>6. CASE PollAgain
    <3>1. CASE script.polls + 1 < MaxPolls
      BY <2>4, <2>6, <3>1 DEF PollAgain, Place, PlaceOf, IsScript, Fields
    <3>2. CASE ~(script.polls + 1 < MaxPolls)
      BY <2>4, <2>6, <3>2, ReportedPlace, ResultOperation
      DEF PollAgain, Conclude, Place, PlaceOf, Before, OfOperation
    <3> QED
      BY <3>1, <3>2
  <2>7. CASE CollectLogs
    <3>1. PICK error, count :
            Conclude(Result(script.status, error, script.job, count))
      BY <2>7 DEF CollectLogs
    <3> QED
      BY <2>4, <2>7, <3>1, ReportedPlace, ResultOperation
      DEF CollectLogs, Conclude, Place, PlaceOf, Before, OfOperation
  <2>8. CASE RequestFails
    BY <2>4, <2>8, ReportedPlace, ResultOperation
    DEF RequestFails, Raised, Conclude, Place, Before, Off
  <2>9. CASE EngineStep
    BY <2>4, <2>9, EngineEffect
  <2>10. CASE UNCHANGED vars
    BY <2>4, <2>10 DEF vars, api
  <2> QED
    BY <2>1, <2>2, <2>3, <2>5, <2>6, <2>7, <2>8, <2>9, <2>10 DEF Next, ScriptStep, EngineStep
<1> QED
  BY <1>1, <1>2, PlaceHolds, PTL DEF Spec

\* There is never a second tenant, connection or flow of an operation.
THEOREM NothingMadeTwiceHolds == Spec => []NothingMadeTwice
<1>1. MadeInv => NothingMadeTwice
  BY DEF MadeInv, NothingMadeTwice
<1> QED
  BY <1>1, MadeHolds, PTL

-----------------------------------------------------------------------------
(* The jobs of a run, and what the script knows of them *)

JobStatuses == {"absent", "pending", "retrying", "success", "failed", "dead_letter", "cancelled"}
Ended == {"success", "failed", "dead_letter"}
Final == Ended \cup {"cancelled"}

Submitted == Len(origin)

\* A job that succeeded has it still, unless a cancellation was written over it.
Succeeded(j, J, U) == J[j].status = IF j \in U THEN "cancelled" ELSE "success"

\* A status the script saw a job end in: until it is reset the job has it still, or was
\* cancelled.
Stands(j, status, J, L, R) ==
  j \notin R =>
    \/ status = "cancelled" /\ J[j].cancel
    \/ status \in Ended /\ J[j].status = status
    \/ status \in Ended /\ J[j].status = "cancelled" /\ J[j].cancel /\ j \notin L

JobsTyped ==
  /\ job \in [Jobs -> [status : JobStatuses, attempts : Nat, cancel : BOOLEAN]]
  /\ \A j \in Jobs :
       /\ job[j].status = "absent" => ~job[j].cancel
       /\ job[j].status = "cancelled" => job[j].cancel
       /\ j \in late => job[j].status = "cancelled"
       /\ j \in undone => job[j].status = "cancelled" /\ j \notin late
  /\ origin \in Seq(Names) /\ Submitted <= Len(Operations)

\* Each operation submits one job at most, and the job it works on is the newest.
JobsInv ==
  /\ JobsTyped
  /\ script.pc \in {"look", "create", "run", "report"} => Submitted <= Len(script.results)
  /\ script.pc \notin {"poll", "logs"} => script.job = None
  /\ script.pc \in {"poll", "logs"} =>
       /\ script.job = Submitted /\ Submitted \in 1..(Len(script.results) + 1)
       /\ origin[Submitted] = script.wants

\* What an operation's result may be: the operation timed out, one of its requests
\* failed, or the script read the logs of its job.
MayResult(r) ==
  \/ script.pc = "poll" /\ r = Result("failed", "timeout_error", None, 0)
  \/ faults' # faults /\ r = Result("failed", "request_error", None, 0)
  \/ /\ faults' # faults /\ script.pc = "logs"
     /\ r = Result("failed", "request_error", script.job, 0)
  \/ /\ script.pc = "logs"
     /\ r = Result(script.status, ExtractErrorType(script.status, MyLogs), script.job,
                   Cardinality(MyLogs))

\* An operation ends with a result, and its job is let go.
Concludes(r) ==
  /\ MayResult(r) /\ script.pc \in Before /\ script.wants \in Names
  /\ script'.pc \in {"look", "report"} /\ script'.job = None
  /\ script'.results = Append(script.results, r)
  /\ script'.run = script.run /\ script'.polls \in {0, script.polls}
  /\ logs' = <<>> /\ UNCHANGED <<report, operator>>

\* The run ends, with or without a report.
Leaves ==
  /\ script'.pc = "off" /\ script'.job = None /\ script'.results = <<>>
  /\ script'.run = script.run /\ script'.polls = 0
  /\ logs' \in {logs, <<>>} /\ UNCHANGED operator
  /\ script.pc \in {"poll", "logs"} => logs' = <<>>
  /\ \/ UNCHANGED report
     \/ script.pc = "report" /\ report' = [run |-> script.run, results |-> script.results]

\* The script goes on with the same results.
GoesOn ==
  /\ script'.results = script.results /\ script'.run = script.run
  /\ \/ script'.polls = script.polls
     \/ script'.polls = script.polls + 1 /\ script'.polls < MaxPolls
  /\ UNCHANGED <<logs, report, operator>>
  /\ \/ /\ script.pc \in {"look", "create"} /\ script'.pc \in {"look", "create", "run"}
        /\ script'.job = script.job /\ UNCHANGED <<jobs, origin>>
     \/ RunFlow
     \/ /\ script.pc = "poll" /\ script'.pc \in {"poll", "logs"} /\ script'.job = script.job
        /\ script'.wants = script.wants /\ UNCHANGED <<jobs, origin>>
        /\ script'.pc = "logs" => Terminal(job[script.job].status) /\
             script'.status = job[script.job].status

\* Only a run request, answered or not, submits a job.
Submits == SubmitJob /\ script.pc = "run"

\* Having a result means going on to the next operation.
LEMMA ConcludeEffect ==
  ASSUME Place, script.pc \in Before, script.wants \in Names,
         NEW r, MayResult(r), Conclude(r), UNCHANGED <<report, operator>>
  PROVE  Concludes(r)
<1>1. r.operation = script.wants
  BY ResultOperation DEF MayResult
<1>2. IsScript(script) /\ IsSeq(script.results)
  BY DEF Place, PlaceOf
<1> DEFINE results == Append(script.results, r)
<1>3. script' = Reported(results) /\ logs' = <<>>
  BY DEF Conclude
<1> HIDE DEF results
<1>4. /\ script'.pc \in {"look", "report"} /\ script'.job = None /\ script'.results = results
      /\ script'.run = script.run /\ script'.polls \in {0, script.polls}
  BY <1>2, <1>3 DEF Reported, IsScript, Fields
<1> QED
  BY <1>3, <1>4 DEF Concludes, results

\* The end of a run clears everything but its number.
LEMMA OffEffect ==
  ASSUME NEW run
  PROVE  LET s == [Off EXCEPT !.run = run]
         IN  /\ s.pc = "off" /\ s.job = None /\ s.results = <<>> /\ s.run = run
             /\ s.polls = 0
BY DEF Off

\* An exception gives the operation a result, or ends the run.
LEMMA RaisedEffect ==
  ASSUME Place, script.pc \in Before, Raised, faults' # faults, UNCHANGED <<report, operator>>
  PROVE  (\E r : Concludes(r)) \/ Leaves
<1>1. CASE script.wants \in Names
  <2> DEFINE r == Result("failed", "request_error",
                         IF script.pc = "logs" THEN script.job ELSE None, 0)
  <2>1. MayResult(r) /\ Conclude(r)
    BY <1>1 DEF Raised, MayResult
  <2> QED
    BY <1>1, <2>1, ConcludeEffect
<1>2. CASE script.wants \notin Names
  <2>1. script' = [Off EXCEPT !.run = script.run] /\ logs' = logs
    BY <1>2 DEF Raised
  <2>2. script.pc \notin OfOperation
    BY <1>2 DEF Place, PlaceOf
  <2> QED
    BY <2>1, <2>2, OffEffect DEF Leaves, OfOperation
<1> QED
  BY <1>1, <1>2

\* Having what it wants, the script goes on.
LEMMA HavingEffect ==
  ASSUME Place
  PROVE  /\ Having.pc \in {"look", "run"} /\ Having.results = script.results
         /\ Having.run = script.run /\ Having.polls = script.polls /\ Having.job = script.job
BY DEF Having, Place, PlaceOf, IsScript, Fields

\* Every step is one of these.
LEMMA StepKinds ==
  ASSUME Place, faults \in Nat, [Next]_vars
  PROVE  \/ Start
         \/ GoesOn
         \/ (\E r : Concludes(r)) /\ (UNCHANGED <<jobs, origin>> \/ Submits)
         \/ Leaves /\ UNCHANGED <<jobs, origin>>
         \/ EngineStep
         \/ UNCHANGED vars
<1> DEFINE Kind == \/ GoesOn
                   \/ (\E r : Concludes(r)) /\ (UNCHANGED <<jobs, origin>> \/ Submits)
                   \/ Leaves /\ UNCHANGED <<jobs, origin>>
<1> USE DEF api
<1>0. IsScript(script)
  BY DEF Place, PlaceOf
<1>1. ASSUME Look PROVE GoesOn
  BY <1>0, <1>1, HavingEffect DEF Look, Goto, GoesOn, IsScript, Fields
<1>2. ASSUME Create PROVE GoesOn
  BY <1>2, HavingEffect DEF Create, GoesOn
<1>3. ASSUME RunFlow PROVE GoesOn
  BY <1>0, <1>3 DEF RunFlow, GoesOn, IsScript, Fields
<1>4. ASSUME PollSees PROVE GoesOn
  BY <1>0, <1>4 DEF PollSees, GoesOn, IsScript, Fields
<1>5. ASSUME PollAgain PROVE Kind
  <2>1. script.pc = "poll" /\ script.wants \in Names /\ UNCHANGED <<jobs, origin, report, operator>>
    BY <1>5 DEF PollAgain, Place, PlaceOf, OfOperation
  <2>2. CASE script.polls + 1 < MaxPolls
    BY <1>0, <1>5, <2>1, <2>2 DEF PollAgain, GoesOn, IsScript, Fields
  <2>3. CASE ~(script.polls + 1 < MaxPolls)
    BY <1>5, <2>1, <2>3, ConcludeEffect DEF PollAgain, MayResult, Before
  <2> QED
    BY <2>2, <2>3
<1>6. ASSUME CollectLogs PROVE Kind
  <2>1. script.pc = "logs" /\ script.wants \in Names
    BY <1>6 DEF CollectLogs, Place, PlaceOf, OfOperation
  <2> QED
    BY <1>6, <2>1, ConcludeEffect DEF CollectLogs, MayResult, Before
<1>7. ASSUME WriteReport PROVE Kind
  BY <1>7, OffEffect DEF WriteReport, Leaves
<1>8. ASSUME RequestFails PROVE Kind
  BY <1>8, RaisedEffect DEF RequestFails, Fault, Before
<1>9. ASSUME AnswerLost PROVE Kind
  <2>1. /\ (\E r : Concludes(r)) \/ Leaves
        /\ script.pc \in {"create", "run"} /\ (UNCHANGED <<jobs, origin>> \/ Submits)
    BY <1>9, RaisedEffect DEF AnswerLost, Fault, Before, Submits
  <2>2. CASE script.pc = "run"
    <3>1. script.wants \in Names
      BY <2>2 DEF Place, PlaceOf, OfOperation
    <3>2. /\ Conclude(Result("failed", "request_error", None, 0))
          /\ UNCHANGED <<report, operator>> /\ faults' # faults
      BY <1>9, <2>2, <3>1 DEF AnswerLost, Raised, Fault
    <3> QED
      BY <2>1, <2>2, <3>1, <3>2, ConcludeEffect DEF MayResult, Before
  <2>3. CASE script.pc = "create"
    BY <2>1, <2>3 DEF Submits
  <2> QED
    BY <2>1, <2>2, <2>3
<1>10. ASSUME Killed PROVE Kind
  BY <1>10, OffEffect DEF Killed, Leaves
<1> QED
  BY <1>1, <1>2, <1>3, <1>4, <1>5, <1>6, <1>7, <1>8, <1>9, <1>10
  DEF Next, ScriptStep, EngineStep

\* Jobs start over with a run.
LEMMA StartEffect ==
  ASSUME Start
  PROVE  /\ script'.pc = "look" /\ script'.wants = "tenant" /\ script'.job = None
         /\ script'.results = <<>> /\ script'.polls = 0 /\ script'.run = script.run + 1
         /\ script.run < MaxRuns /\ report' = NoReport /\ UNCHANGED logs
         /\ script.pc = "off"
BY DEF Start, Off

\* The step of JobLifecycle that a step here is. All jobs read, so none is ignored.
LEMMA SubmitEffect ==
  ASSUME NEW j, Lifecycle!Submit(j), JobsTyped, j \in Jobs
  PROVE  /\ job' = [job EXCEPT ![j] = Lifecycle!Row("pending", 0, FALSE)]
         /\ job[j].status = "absent" /\ UNCHANGED <<asked, late>>
BY DEF Lifecycle!Submit

\* An attempt is counted and changes its job only; only a flag makes it a cancellation.
LEMMA AttemptEffect ==
  ASSUME NEW j \in Jobs, Lifecycle!Attempt(j), JobsTyped
  PROVE  /\ job[j].status \in {"pending", "retrying"} /\ UNCHANGED <<asked, late>>
         /\ \E status \in JobStatuses \ {"absent"} :
              /\ job' = [job EXCEPT ![j] =
                           Lifecycle!Row(status, job[j].attempts + 1, job[j].cancel)]
              /\ status = "cancelled" => job[j].cancel
BY DEF Lifecycle!Attempt, Lifecycle!Outcomes, Lifecycle!Live, Lifecycle!Row, JobStatuses,
       JobsTyped

\* So does the attempt in flight, whose job is cancelled; the outcome may be its status.
LEMMA LateEffect ==
  ASSUME NEW j \in Jobs, NEW outcome, Lifecycle!LateAttempt(j, outcome), JobsTyped
  PROVE  /\ job[j].status = "cancelled" /\ job[j].cancel /\ j \in late
         /\ late' = late \ {j} /\ outcome \in JobStatuses
         /\ \E status \in {outcome, "cancelled"} :
              job' = [job EXCEPT ![j] = Lifecycle!Row(status, job[j].attempts + 1, TRUE)]
<1>1. /\ j \in late /\ late' = late \ {j} /\ outcome \in JobStatuses
      /\ job[j].status = "cancelled" /\ job[j].cancel = TRUE
  BY DEF Lifecycle!LateAttempt, Lifecycle!Outcomes, JobStatuses, JobsTyped
<1>2. PICK status \in {outcome, IF outcome = "retrying" THEN "cancelled" ELSE outcome} :
        job' = [job EXCEPT ![j].status = status, ![j].attempts = @ + 1]
  BY DEF Lifecycle!LateAttempt
<1>3. job' = [job EXCEPT ![j] = Lifecycle!Row(status, job[j].attempts + 1, TRUE)]
  BY <1>1, <1>2 DEF Lifecycle!Row, JobsTyped
<1> QED
  BY <1>1, <1>2, <1>3

\* A cancellation is written over whatever the job has become.
LEMMA CancelEffect ==
  ASSUME NEW j \in Jobs, Lifecycle!CancelCommit(j), JobsTyped
  PROVE  /\ job' = [job EXCEPT ![j] = Lifecycle!Row("cancelled", job[j].attempts, TRUE)]
         /\ late' \subseteq late \cup {j}
         /\ \A k \in Jobs \ {j} : k \in late' <=> k \in late
         /\ job[j].status \notin {"pending", "retrying"} => late' = late
BY DEF Lifecycle!CancelCommit, Lifecycle!Live

\* What no step but a start does to the jobs.
JobsKept ==
  /\ \A j \in Jobs : Succeeded(j, job, undone) => Succeeded(j, job', undone')
  /\ \A j \in Jobs, status \in Final :
       Stands(j, status, job, late, reprocessed) => Stands(j, status, job', late', reprocessed')
  /\ \A i \in DOMAIN origin : i \in DOMAIN origin' /\ origin'[i] = origin[i]

\* A submission adds a job that was absent.
LEMMA SubmitKeeps ==
  ASSUME JobsInv, Place, SubmitJob, script.pc = "run", UNCHANGED operator
  PROVE  /\ JobsTyped' /\ JobsKept /\ Submitted' = Submitted + 1
         /\ Submitted' \in 1..(Len(script.results) + 1) /\ origin'[Submitted'] = script.wants
<1>1. /\ origin \in Seq(Names) /\ script.wants \in Names /\ Len(Operations) \in Nat
      /\ Len(script.results) + 1 <= Len(Operations) /\ Submitted <= Len(script.results)
      /\ Len(script.results) \in Nat
  BY OperationFacts, AppendFacts DEF Place, PlaceOf, JobsInv, JobsTyped, OfOperation, Before
<1>2. Submitted + 1 \in Jobs
  BY <1>1 DEF Jobs, Submitted
<1>3. /\ job' = [job EXCEPT ![Submitted + 1] = Lifecycle!Row("pending", 0, FALSE)]
      /\ job[Submitted + 1].status = "absent" /\ origin' = Append(origin, script.wants)
      /\ UNCHANGED <<late, reprocessed, undone>>
  BY <1>2, SubmitEffect DEF SubmitJob, Submitted, JobsInv, operator
<1>4. /\ origin' \in Seq(Names) /\ Submitted' = Submitted + 1
      /\ Submitted' <= Len(Operations) /\ origin'[Submitted'] = script.wants
      /\ \A i \in DOMAIN origin : i \in DOMAIN origin' /\ origin'[i] = origin[i]
  BY <1>1, <1>3 DEF Submitted
<1>5. JobsTyped'
  BY <1>2, <1>3, <1>4 DEF JobsInv, JobsTyped, Lifecycle!Row, JobStatuses
<1>6. ASSUME NEW j \in Jobs, Succeeded(j, job, undone)
      PROVE  Succeeded(j, job', undone')
  BY <1>2, <1>3, <1>6 DEF JobsInv, JobsTyped, Succeeded
<1>7. ASSUME NEW j \in Jobs, NEW status \in Final, Stands(j, status, job, late, reprocessed)
      PROVE  Stands(j, status, job', late', reprocessed')
  <2>1. CASE j = Submitted + 1
    <3>1. job[j].cancel = FALSE
      BY <1>3, <2>1, <1>2 DEF JobsInv, JobsTyped
    <3> QED
      BY <1>3, <1>7, <2>1, <3>1 DEF Stands, Ended
  <2>2. CASE j # Submitted + 1
    BY <1>2, <1>3, <1>7, <2>2 DEF JobsInv, JobsTyped, Stands
  <2> QED
    BY <2>1, <2>2
<1> QED
  BY <1>1, <1>4, <1>5, <1>6, <1>7 DEF JobsKept, Submitted

\* What happens to one job keeps what the script may know, if it keeps it of that job.
LEMMA OneJob ==
  ASSUME JobsTyped, NEW j \in Jobs, NEW status \in JobStatuses, NEW n \in Nat,
         NEW c \in BOOLEAN,
         job' = [job EXCEPT ![j] = Lifecycle!Row(status, n, c)],
         late' \subseteq late \cup {j}, UNCHANGED origin,
         \A k \in Jobs \ {j} : /\ k \in late' <=> k \in late
                               /\ k \in reprocessed' <=> k \in reprocessed
                               /\ k \in undone' <=> k \in undone,
         status = "absent" => ~c, status = "cancelled" => c,
         j \in late' => status = "cancelled",
         j \in undone' => status = "cancelled" /\ j \notin late',
         Succeeded(j, job, undone) => status = IF j \in undone' THEN "cancelled" ELSE "success",
         j \notin reprocessed' =>
           /\ j \notin reprocessed /\ (job[j].cancel => c)
           /\ job[j].status \in Ended =>
                status \in {job[j].status, "cancelled"} /\ j \notin late'
           /\ job[j].status = "cancelled" /\ j \notin late =>
                status = "cancelled" /\ j \notin late'
  PROVE  JobsTyped' /\ JobsKept
<1>1. /\ job'[j] = [status |-> status, attempts |-> n, cancel |-> c]
      /\ \A k \in Jobs \ {j} : job'[k] = job[k]
      /\ job' \in [Jobs -> [status : JobStatuses, attempts : Nat, cancel : BOOLEAN]]
  BY DEF JobsTyped, Lifecycle!Row
<1>2. JobsTyped'
  BY <1>1 DEF JobsTyped, Submitted
<1>3. ASSUME NEW k \in Jobs, Succeeded(k, job, undone)
      PROVE  Succeeded(k, job', undone')
  BY <1>1, <1>3 DEF Succeeded
<1>4. ASSUME NEW k \in Jobs, NEW s \in Final, Stands(k, s, job, late, reprocessed)
      PROVE  Stands(k, s, job', late', reprocessed')
  <2>1. CASE k # j
    BY <1>1, <1>4, <2>1 DEF Stands
  <2>2. CASE k = j
    <3>1. CASE j \in reprocessed'
      BY <2>2, <3>1 DEF Stands
    <3>2. CASE j \notin reprocessed'
      <4>1. /\ job[j].cancel => job'[j].cancel
            /\ job[j].status \in Ended => job'[j].status = job[j].status
                                          \/ job'[j].status = "cancelled"
            /\ job[j].status = "cancelled" /\ j \notin late =>
                 job'[j].status = "cancelled" /\ j \notin late'
            /\ job'[j].status = "cancelled" => job'[j].cancel
        BY <1>1, <3>2
      <4>2. job[j].status \in Ended => j \notin late'
        BY <3>2
      <4> QED
        BY <1>4, <2>2, <3>2, <4>1, <4>2 DEF Stands
    <3> QED
      BY <3>1, <3>2
  <2> QED
    BY <2>1, <2>2
<1> QED
  BY <1>2, <1>3, <1>4 DEF JobsKept

\* The engine and an operator keep what the script may know of the jobs.
LEMMA EngineKeeps ==
  ASSUME JobsInv, EngineStep
  PROVE  JobsTyped' /\ JobsKept
<1> USE DEF JobsInv
<1>0. UNCHANGED <<origin, script, report>>
  BY EngineEffect
<1>1. PICK j \in Jobs :
        \/ Attempt(j) \/ LateAttempt(j) \/ Lost(j)
        \/ Reprocess(j) \/ CancelRequest(j) \/ CancelCommit(j) \/ Forget(j)
  BY DEF EngineStep
<1>2. /\ job[j] = Lifecycle!Row(job[j].status, job[j].attempts, job[j].cancel)
      /\ job[j].status \in JobStatuses /\ job[j].attempts \in Nat /\ job[j].cancel \in BOOLEAN
      /\ job = [job EXCEPT ![j] = job[j]]
  BY DEF JobsTyped, Lifecycle!Row
<1>3. CASE Attempt(j)
  <2>1. UNCHANGED <<late, reprocessed, undone>> /\ job[j].status \in {"pending", "retrying"}
    BY <1>3, AttemptEffect DEF Attempt, operator
  <2>2. PICK status \in JobStatuses \ {"absent"} :
          /\ job' = [job EXCEPT ![j] = Lifecycle!Row(status, job[j].attempts + 1, job[j].cancel)]
          /\ status = "cancelled" => job[j].cancel
    BY <1>3, AttemptEffect DEF Attempt
  <2>3. j \notin late /\ j \notin undone
    BY <2>1 DEF JobsTyped
  <2>4. job[j].attempts + 1 \in Nat /\ job[j].cancel \in BOOLEAN /\ JobsTyped
    BY <1>2
  <2>5. /\ late' \subseteq late \cup {j} /\ j \notin late' /\ j \notin undone'
        /\ \A k \in Jobs \ {j} : /\ k \in late' <=> k \in late
                                 /\ k \in reprocessed' <=> k \in reprocessed
                                 /\ k \in undone' <=> k \in undone
        /\ ~Succeeded(j, job, undone) /\ job[j].status \notin Final
        /\ j \notin reprocessed' => j \notin reprocessed
    BY <2>1, <2>3 DEF Succeeded, Ended, Final
  <2> QED
    BY ONLY <1>0, <2>2, <2>4, <2>5, OneJob, j \in Jobs DEF Final
<1>4. CASE LateAttempt(j)
  <2>1. UNCHANGED <<reprocessed, undone>>
    BY <1>4 DEF LateAttempt, operator
  <2>2. PICK outcome : Lifecycle!LateAttempt(j, outcome)
    BY <1>4 DEF LateAttempt
  <2>3. PICK status \in {outcome, "cancelled"} :
          job' = [job EXCEPT ![j] = Lifecycle!Row(status, job[j].attempts + 1, TRUE)]
    BY <2>2, LateEffect
  <2>4. /\ job[j].status = "cancelled" /\ j \in late /\ late' = late \ {j}
        /\ status \in JobStatuses
    BY <2>2, <2>3, LateEffect DEF JobStatuses
  <2>5. j \notin undone /\ status # "absent"
    BY <2>2, <2>3, <2>4 DEF JobsTyped, Lifecycle!LateAttempt, Lifecycle!Outcomes
  <2>6. job[j].attempts + 1 \in Nat /\ TRUE \in BOOLEAN /\ JobsTyped
    BY <1>2
  <2>7. /\ late' \subseteq late \cup {j} /\ j \notin late'
        /\ \A k \in Jobs \ {j} : /\ k \in late' <=> k \in late
                                 /\ k \in reprocessed' <=> k \in reprocessed
                                 /\ k \in undone' <=> k \in undone
        /\ ~Succeeded(j, job, undone) /\ j \notin undone'
        /\ job[j].status \notin Ended
        /\ j \notin reprocessed' => j \notin reprocessed
    BY <2>1, <2>4, <2>5 DEF Succeeded, Ended
  <2> QED
    BY ONLY <1>0, <2>3, <2>4, <2>5, <2>6, <2>7, OneJob, j \in Jobs
<1>5. CASE Lost(j) \/ CancelRequest(j) \/ Forget(j)
  <2>1. UNCHANGED <<job, reprocessed, undone>> /\ late' \in {late, late \ {j}}
    BY <1>5 DEF Lost, CancelRequest, Forget, Lifecycle!Lost, Lifecycle!CancelRequest,
                Lifecycle!Forget, operator
  <2> QED
    BY <1>0, <2>1 DEF JobsTyped, JobsKept, Succeeded, Stands, Submitted
<1>6. CASE Reprocess(j)
  <2>1. /\ UNCHANGED <<late, undone>> /\ reprocessed' = reprocessed \cup {j}
        /\ job' = [job EXCEPT ![j] = Lifecycle!Row("pending", 0, FALSE)]
        /\ job[j].status \in {"failed", "dead_letter"}
    BY <1>6 DEF Reprocess, Lifecycle!Reset
  <2>2. j \notin late /\ j \notin undone
    BY <2>1 DEF JobsTyped
  <2>3. /\ 0 \in Nat /\ FALSE \in BOOLEAN /\ "pending" \in JobStatuses /\ JobsTyped
        /\ late' \subseteq late \cup {j} /\ j \notin late' /\ j \notin undone'
        /\ \A k \in Jobs \ {j} : /\ k \in late' <=> k \in late
                                 /\ k \in reprocessed' <=> k \in reprocessed
                                 /\ k \in undone' <=> k \in undone
        /\ ~Succeeded(j, job, undone) /\ j \in reprocessed'
    BY <2>1, <2>2 DEF Succeeded, JobStatuses
  <2> QED
    BY ONLY <1>0, <2>1, <2>3, OneJob, j \in Jobs
<1>7. CASE CancelCommit(j)
  <2>1. /\ UNCHANGED reprocessed
        /\ undone' = IF job[j].status = "success" THEN undone \cup {j} ELSE undone
    BY <1>7 DEF CancelCommit
  <2>2. /\ job' = [job EXCEPT ![j] = Lifecycle!Row("cancelled", job[j].attempts, TRUE)]
        /\ late' \subseteq late \cup {j}
        /\ \A k \in Jobs \ {j} : k \in late' <=> k \in late
        /\ job[j].status \notin {"pending", "retrying"} => late' = late
    BY <1>7, CancelEffect DEF CancelCommit
  <2>3. /\ j \in late => job[j].status = "cancelled"
        /\ j \in undone => job[j].status = "cancelled" /\ j \notin late
    BY DEF JobsTyped
  <2>4. /\ j \in undone' => j \notin late'
        /\ Succeeded(j, job, undone) => j \in undone'
    BY <2>1, <2>2, <2>3 DEF Succeeded
  <2>5. /\ job[j].status \in Final => late' = late
        /\ job[j].status \in Ended => j \notin late'
    BY <2>2, <2>3 DEF Ended, Final
  <2>6. /\ job[j].attempts \in Nat /\ TRUE \in BOOLEAN /\ "cancelled" \in JobStatuses
        /\ \A k \in Jobs \ {j} : /\ k \in reprocessed' <=> k \in reprocessed
                                 /\ k \in undone' <=> k \in undone
        /\ j \notin reprocessed' => j \notin reprocessed
    BY <1>2, <2>1 DEF JobStatuses
  <2> QED
    BY ONLY <1>0, <2>2, <2>4, <2>5, <2>6, OneJob, j \in Jobs, JobsTyped DEF Final
<1> QED
  BY <1>1, <1>3, <1>4, <1>5, <1>6, <1>7

\* Nothing done to jobs and their origin keeps both.
LEMMA IdleKeeps ==
  ASSUME JobsTyped, UNCHANGED <<jobs, origin, operator>>
  PROVE  JobsTyped' /\ JobsKept /\ Submitted' = Submitted
BY DEF JobsTyped, JobsKept, Submitted, Succeeded, Stands, jobs, operator

\* Each operation submits one job at most.
LEMMA JobsStep ==
  ASSUME Place, Place', JobsInv, faults \in Nat, [Next]_vars
  PROVE  JobsInv' /\ (Start \/ JobsKept)
<1>0. JobsTyped /\ Submitted \in Nat /\ Len(script.results) \in Nat
  BY AppendFacts DEF JobsInv, JobsTyped, Submitted, Place, PlaceOf
<1>1. CASE Start
  <2>1. /\ job' = [j \in Jobs |-> Lifecycle!Row("absent", 0, FALSE)] /\ origin' = <<>>
        /\ late' = {} /\ undone' = {}
    BY <1>1 DEF Start
  <2>2. JobsTyped' /\ Submitted' = 0
    BY <2>1, OperationFacts DEF JobsTyped, Lifecycle!Row, JobStatuses, Submitted
  <2>3. script'.pc = "look" /\ script'.job = None /\ Len(script'.results) = 0
    BY <1>1, StartEffect
  <2> QED
    BY <1>1, <2>2, <2>3 DEF JobsInv
<1>2. CASE GoesOn
  <2>1. CASE RunFlow
    <3>1. /\ SubmitJob /\ script.pc = "run" /\ script'.pc = "poll" /\ UNCHANGED operator
          /\ script'.job = Submitted + 1 /\ script'.wants = script.wants
          /\ script'.results = script.results
      BY <2>1 DEF RunFlow, Place, PlaceOf, IsScript, Fields, Submitted
    <3> QED
      BY <3>1, SubmitKeeps DEF JobsInv
  <2>2. CASE ~RunFlow
    <3>1. UNCHANGED <<jobs, origin, operator>>
      BY <1>2, <2>2 DEF GoesOn
    <3> QED
      BY <1>0, <1>2, <2>2, <3>1, IdleKeeps DEF GoesOn, JobsInv
  <2> QED
    BY <2>1, <2>2
<1>3. CASE (\E r : Concludes(r)) /\ (UNCHANGED <<jobs, origin>> \/ Submits)
  <2>1. PICK r : Concludes(r)
    BY <1>3
  <2>2. /\ script'.pc \in {"look", "report"} /\ script'.job = None /\ UNCHANGED operator
        /\ Len(script'.results) = Len(script.results) + 1 /\ script.pc \in Before
    BY <2>1, AppendFacts DEF Concludes, Place, PlaceOf
  <2>3. CASE UNCHANGED <<jobs, origin>>
    <3>1. Submitted <= Len(script.results) + 1
      BY <1>0, <2>2 DEF JobsInv, Before
    <3> QED
      BY <1>0, <2>2, <2>3, <3>1, IdleKeeps DEF JobsInv
  <2>4. CASE Submits
    BY <2>2, <2>4, SubmitKeeps DEF JobsInv, Submits
  <2> QED
    BY <1>3, <2>3, <2>4
<1>4. CASE Leaves /\ UNCHANGED <<jobs, origin>>
  BY <1>0, <1>4, IdleKeeps DEF Leaves, JobsInv
<1>5. CASE EngineStep
  BY <1>5, EngineKeeps, EngineEffect DEF JobsInv, Submitted
<1>6. CASE UNCHANGED vars
  BY <1>0, <1>6, IdleKeeps DEF vars, api, JobsInv
<1> QED
  BY <1>1, <1>2, <1>3, <1>4, <1>5, <1>6, StepKinds

\* The status it read in the end stands.
SeenInv ==
  script.pc = "logs" =>
    /\ script.status \in Final
    /\ Stands(script.job, script.status, job, late, reprocessed)
    /\ script.status = "success" => Succeeded(script.job, job, undone)

\* A result that names a job by what the script read tells its status.
Tells(r, J, L, R) ==
  r.job # None /\ r.error # "request_error" =>
    r.job \in Jobs /\ r.status \in Final /\ Stands(r.job, r.status, J, L, R)

VerdictInv ==
  \A i \in 1..Len(script.results) : Tells(script.results[i], job, late, reprocessed)

\* A success that is reported is a job's.
Backed(r, J, U, from) ==
  r.status = "success" =>
    \E j \in DOMAIN from : from[j] = r.operation /\ Succeeded(j, J, U)

SuccessInv ==
  /\ \A i \in 1..Len(script.results) : Backed(script.results[i], job, undone, origin)
  /\ \A i \in 1..Len(report.results) : Backed(report.results[i], job, undone, origin)

\* While the script works on a job, it is a submitted one.
LEMMA JobAtWork ==
  ASSUME Place, JobsInv, script.pc \in {"poll", "logs"}
  PROVE  /\ script.job \in Jobs /\ script.job \in DOMAIN origin
         /\ origin[script.job] = script.wants /\ script.job # None
<1>1. /\ script.job = Submitted /\ origin[Submitted] = script.wants /\ origin \in Seq(Names)
      /\ Submitted >= 1 /\ Submitted <= Len(Operations) /\ Len(Operations) \in Nat
  BY OperationFacts, AppendFacts DEF Place, PlaceOf, JobsInv, JobsTyped, Submitted
<1> QED
  BY <1>1, NoneAssumption DEF Jobs, Submitted

\* The status that was read goes on standing.
LEMMA SeenStep ==
  ASSUME Place, JobsInv, faults \in Nat, JobsKept \/ Start, SeenInv, [Next]_vars
  PROVE  SeenInv'
<1>1. CASE GoesOn /\ script'.pc = "logs"
  <2>1. /\ script.pc = "poll" /\ UNCHANGED <<jobs, origin, operator>>
        /\ script'.job = script.job
        /\ Terminal(job[script.job].status) /\ script'.status = job[script.job].status
    BY <1>1 DEF GoesOn, RunFlow, Place, PlaceOf, IsScript, Fields
  <2>2. /\ script.job \in Jobs /\ job[script.job].status \in Final
        /\ job[script.job].status = "cancelled" => job[script.job].cancel
        /\ script.job \in undone => job[script.job].status = "cancelled"
    BY <2>1, JobAtWork DEF JobsInv, JobsTyped, Terminal, JobStatuses, Final, Ended
  <2> QED
    BY <2>1, <2>2 DEF SeenInv, Stands, Succeeded, Final, jobs, operator
<1>2. CASE EngineStep /\ script.pc = "logs"
  <2>1. script.job \in Jobs /\ UNCHANGED script /\ JobsKept
    BY <1>2, JobAtWork, EngineEffect, StartEffect
  <2> QED
    BY <1>2, <2>1 DEF JobsKept, SeenInv
<1>3. CASE UNCHANGED vars
  BY <1>3 DEF vars, api, jobs, operator, SeenInv
<1>4. CASE script'.pc # "logs"
  BY <1>4 DEF SeenInv
<1> QED
  BY <1>1, <1>2, <1>3, <1>4, StepKinds, StartEffect, EngineEffect DEF Concludes, Leaves

\* What a result says when it is given.
LEMMA ResultTells ==
  ASSUME Place, JobsInv, SeenInv, NEW r, MayResult(r)
  PROVE  /\ Tells(r, job, late, reprocessed)
         /\ Backed(r, job, undone, origin)
         /\ r.operation = script.wants
<1>1. CASE \/ r = Result("failed", "timeout_error", None, 0)
           \/ r = Result("failed", "request_error", None, 0)
           \/ r = Result("failed", "request_error", script.job, 0)
  BY <1>1 DEF Result, Tells, Backed
<1>2. ASSUME script.pc = "logs", NEW error, NEW count,
             r = Result(script.status, error, script.job, count)
      PROVE  /\ Tells(r, job, late, reprocessed)
             /\ Backed(r, job, undone, origin)
             /\ r.operation = script.wants
  BY <1>2, JobAtWork DEF Result, Tells, Backed, SeenInv
<1> QED
  BY <1>1, <1>2 DEF MayResult

\* What a job is told to be stands; what backs a success, backs it for good.
LEMMA KeptTells ==
  ASSUME JobsKept, NEW r
  PROVE  /\ JobsTyped /\ Backed(r, job, undone, origin) => Backed(r, job', undone', origin')
         /\ Tells(r, job, late, reprocessed) => Tells(r, job', late', reprocessed')
<1>1. ASSUME JobsTyped, Backed(r, job, undone, origin), r.status = "success"
      PROVE  Backed(r, job', undone', origin')
  <2>1. PICK j \in DOMAIN origin : origin[j] = r.operation /\ Succeeded(j, job, undone)
    BY <1>1 DEF Backed
  <2>2. j \in Jobs
    BY <1>1, OperationFacts DEF JobsTyped, Submitted, Jobs
  <2> QED
    BY <2>1, <2>2 DEF Backed, JobsKept
<1> QED
  BY <1>1 DEF Backed, Tells, JobsKept

\* The results after a step are those before it, with one that may be given, or none.
LEMMA ResultsStep ==
  ASSUME Place, faults \in Nat, [Next]_vars
  PROVE  /\ IsSeq(script.results)
         /\ \/ UNCHANGED script.results
            \/ script'.results = <<>>
            \/ \E r : /\ MayResult(r) /\ script'.results = Append(script.results, r)
                      /\ script.wants \in Names
         /\ \/ UNCHANGED report
            \/ report' = NoReport /\ script'.results = <<>>
            \/ report'.results = script.results /\ report'.run = script.run
                 /\ script'.results = <<>>
BY StepKinds, StartEffect, EngineEffect
DEF GoesOn, Concludes, Leaves, vars, Place, PlaceOf

\* A result goes on telling the status of its job.
LEMMA VerdictStep ==
  ASSUME Place, JobsInv, faults \in Nat, SeenInv, JobsKept \/ Start, VerdictInv, [Next]_vars
  PROVE  VerdictInv'
<1> SUFFICES ASSUME NEW i \in 1..Len(script'.results)
             PROVE  Tells(script'.results[i], job', late', reprocessed')
  BY DEF VerdictInv
<1>1. CASE script'.results = <<>>
  BY <1>1
<1>2. CASE script'.results # <<>>
  <2>1. JobsKept
    BY <1>2, StartEffect
  <2>2. \A k \in 1..Len(script.results) : Tells(script.results[k], job', late', reprocessed')
    BY <2>1, KeptTells DEF VerdictInv
  <2>3. CASE UNCHANGED script.results
    BY <2>2, <2>3
  <2>4. CASE \E r : MayResult(r) /\ script'.results = Append(script.results, r)
    <3>1. PICK r : MayResult(r) /\ script'.results = Append(script.results, r)
      BY <2>4
    <3>2. Tells(r, job', late', reprocessed')
      BY <2>1, <3>1, ResultTells, KeptTells
    <3> QED
      BY <2>2, <3>1, <3>2, ResultsStep, AppendFacts
  <2> QED
    BY <1>2, <2>3, <2>4, ResultsStep
<1> QED
  BY <1>1, <1>2

\* A reported success goes on being backed by a job.
LEMMA SuccessStep ==
  ASSUME Place, JobsInv, faults \in Nat, SeenInv, JobsKept \/ Start, SuccessInv, [Next]_vars
  PROVE  SuccessInv'
<1>0. NoReport.results = <<>>
  BY DEF NoReport
<1>1. CASE Start
  BY <1>0, <1>1, StartEffect DEF SuccessInv
<1>2. CASE JobsKept
  <2>1. /\ \A k \in 1..Len(script.results) : Backed(script.results[k], job', undone', origin')
        /\ \A k \in 1..Len(report.results) : Backed(report.results[k], job', undone', origin')
    BY <1>2, KeptTells DEF SuccessInv, JobsInv
  <2>2. \A i \in 1..Len(report'.results) : Backed(report'.results[i], job', undone', origin')
    BY <1>0, <2>1, ResultsStep
  <2>3. \A i \in 1..Len(script'.results) : Backed(script'.results[i], job', undone', origin')
    <3>1. CASE UNCHANGED script.results \/ script'.results = <<>>
      BY <2>1, <3>1
    <3>2. CASE \E r : MayResult(r) /\ script'.results = Append(script.results, r)
      <4>1. PICK r : MayResult(r) /\ script'.results = Append(script.results, r)
        BY <3>2
      <4>2. Backed(r, job', undone', origin')
        BY <1>2, <4>1, ResultTells, KeptTells DEF JobsInv
      <4> QED
        BY <2>1, <4>1, <4>2, ResultsStep, AppendFacts
    <3> QED
      BY <3>1, <3>2, ResultsStep
  <2> QED
    BY <2>2, <2>3 DEF SuccessInv
<1> QED
  BY <1>1, <1>2

RunInv == faults \in Nat /\ JobsInv /\ SeenInv /\ VerdictInv /\ SuccessInv

\* Faults are counted.
LEMMA FaultsStep ==
  ASSUME faults \in Nat, [Next]_vars
  PROVE  faults' \in Nat
<1>1. CASE EngineStep
  BY <1>1, EngineEffect
<1>2. CASE RequestFails \/ AnswerLost \/ Killed
  BY <1>2 DEF RequestFails, AnswerLost, Killed, Fault
<1>3. CASE Start \/ ScriptStep \/ UNCHANGED vars
  <2>1. UNCHANGED faults
    BY <1>3 DEF ScriptStep, Start, Look, Create, RunFlow, PollSees, PollAgain,
                CollectLogs, WriteReport, vars
  <2> QED
    BY <2>1
<1> QED
  BY <1>1, <1>2, <1>3 DEF Next, EngineStep

\* The script and its results agree with the jobs.
LEMMA RunHolds == Spec => []RunInv
<1>1. Init => RunInv
  <2> SUFFICES ASSUME Init
               PROVE  RunInv
    OBVIOUS
  <2>1. /\ script.pc = "off" /\ script.job = None /\ script.results = <<>>
        /\ report.results = <<>> /\ origin = <<>> /\ late = {} /\ undone = {}
        /\ job = [j \in Jobs |-> Lifecycle!Row("absent", 0, FALSE)]
    BY DEF Init, Off, NoReport, Lifecycle!Init
  <2>2. JobsInv
    BY <2>1, OperationFacts DEF JobsInv, JobsTyped, JobStatuses, Lifecycle!Row, Submitted
  <2> QED
    BY <2>1, <2>2 DEF Init, RunInv, SeenInv, VerdictInv, SuccessInv
<1>2. Place /\ Place' /\ RunInv /\ [Next]_vars => RunInv'
  BY FaultsStep, JobsStep, SeenStep, VerdictStep, SuccessStep DEF RunInv
<1> QED
  BY <1>1, <1>2, PlaceHolds, PTL DEF Spec

\* The numbers up to n are n.
LEMMA IntervalSize ==
  ASSUME NEW n \in Nat
  PROVE  IsFiniteSet(1..n) /\ Cardinality(1..n) = n
BY FS_Interval

\* The status the script saw its job end in is where the job stays, unless the operator
\* reprocesses it; only a cancellation takes a verdict back, or is taken back.
THEOREM VerdictStandsHolds == Spec => []VerdictStands
<1>1. Place /\ RunInv => VerdictStands
  <2> SUFFICES ASSUME Place, RunInv, NEW i \in DOMAIN script.results,
                      NEW r, r = script.results[i],
                      r.job \notin reprocessed \cup {None}, r.error # "request_error"
               PROVE  \/ job[r.job].status = r.status
                      \/ job[r.job].cancel /\ "cancelled" \in {r.status, job[r.job].status}
    BY DEF VerdictStands
  <2>1. i \in 1..Len(script.results)
    BY AppendFacts DEF Place, PlaceOf
  <2>2. Tells(r, job, late, reprocessed)
    BY <2>1 DEF RunInv, VerdictInv
  <2> QED
    BY <2>2 DEF Tells, Stands
<1> QED
  BY <1>1, PlaceHolds, RunHolds, PTL

\* A report that says the next stage may begin has a job for each operation that ended in
\* success, and is in success still unless a cancellation was written over it.
THEOREM ReadyMeansSuccessHolds == Spec => []ReadyMeansSuccess
<1>1. Place /\ RunInv => ReadyMeansSuccess
  <2> SUFFICES ASSUME Place, RunInv, Ready(report.results), NEW i \in DOMAIN Operations
               PROVE  \E j \in DOMAIN origin :
                        /\ origin[j] = Operations[i]
                        /\ job[j].status = IF j \in undone THEN "cancelled" ELSE "success"
    BY DEF ReadyMeansSuccess
  <2> DEFINE results == report.results
             good == {k \in DOMAIN results : results[k].status \in {"success"}}
  <2>1. results # <<>> /\ Cardinality(good) = Len(results)
    BY DEF Ready, CountOf
  <2>2. report # NoReport
    BY <2>1 DEF NoReport
  <2>3. /\ Len(results) = Len(Operations) /\ DOMAIN results = 1..Len(results)
        /\ Len(results) \in Nat /\ Covers(results) /\ i \in 1..Len(results)
    BY <2>2, AppendFacts, OperationFacts DEF Place, ReportOK
  <2>4. good = 1..Len(results)
    <3>1. IsFiniteSet(1..Len(results)) /\ Cardinality(1..Len(results)) = Len(results)
      BY <2>3, IntervalSize
    <3> QED
      BY <2>1, <2>3, <3>1, FS_Subset
  <2>5. results[i].status = "success" /\ results[i].operation = Operations[i]
    BY <2>3, <2>4 DEF Covers
  <2> QED
    BY <2>3, <2>5 DEF RunInv, SuccessInv, Backed, Succeeded
<1> QED
  BY <1>1, PlaceHolds, RunHolds, PTL

-----------------------------------------------------------------------------
(* The logs *)

LogEntries == [job : Jobs \cup {None}, error : {None, "error_retried", "error_at_last"}]

\* Place i holds the newest log of the job at work.
MyNewest(i) ==
  /\ i \in DOMAIN logs /\ logs[i].job = script.job
  /\ \A k \in DOMAIN logs : logs[k].job = script.job => k <= i

\* Until it is reset, the newest log of a job at work that failed, or that the script saw
\* fail, is the last attempt's.
Failures == {"failed", "dead_letter"}
NewestTells ==
  script.job \notin reprocessed \cup {None} =>
    \A i : /\ MyNewest(i)
           /\ \/ job[script.job].status \in Failures
              \/ script.pc = "logs" /\ script.status \in Failures
           => logs[i].error = "error_at_last"

LogsInv ==
  /\ logs \in Seq(LogEntries)
  /\ script.job = None => logs = <<>>
  /\ NewestTells

\* The last number up to n is n.
LEMMA IntervalEnd ==
  ASSUME NEW n \in Nat, NEW i \in 1..n, n <= i
  PROVE  i = n
OBVIOUS

\* A log is added at the end; older ones go.
LEMMA LogEffect ==
  ASSUME logs \in Seq(LogEntries), NEW j \in Jobs, script.job # None,
         NEW error \in {None, "error_retried", "error_at_last"}, Log(j, error)
  PROVE  /\ logs' \in Seq(LogEntries)
         /\ \E first \in Nat \ {0} :
              /\ Len(logs') = Len(logs) + 2 - first /\ Len(logs') >= 1
              /\ \A i \in 1..(Len(logs') - 1) : logs'[i] = logs[i + first - 1]
              /\ logs'[Len(logs')] = IF j = script.job THEN [job |-> j, error |-> error]
                                     ELSE [job |-> None, error |-> None]
<1> DEFINE log == IF j = script.job THEN [job |-> j, error |-> error]
                  ELSE [job |-> None, error |-> None]
           all == Append(logs, log)
           first == IF Len(all) > LogLimit + 1 THEN Len(all) - LogLimit ELSE 1
<1>1. log \in LogEntries
  BY DEF LogEntries
<1>2. logs' = SubSeq(all, first, Len(all))
  BY DEF Log
<1> HIDE DEF log
<1>3. /\ all \in Seq(LogEntries) /\ Len(all) = Len(logs) + 1 /\ all[Len(all)] = log
      /\ \A i \in 1..Len(logs) : all[i] = logs[i] /\ Len(logs) \in Nat
  BY <1>1
<1> HIDE DEF all
<1>4. first \in Nat \ {0} /\ first <= Len(all)
  BY <1>3, LimitAssumption
<1> HIDE DEF first
<1>5. /\ logs' \in Seq(LogEntries) /\ Len(logs') = Len(all) - first + 1
      /\ \A i \in 1..Len(logs') : logs'[i] = all[i + first - 1]
  BY <1>2, <1>3, <1>4
<1>6. /\ Len(logs') = Len(logs) + 2 - first /\ Len(logs') >= 1
      /\ logs'[Len(logs')] = log
  BY <1>3, <1>4, <1>5
<1>7. ASSUME NEW i \in 1..(Len(logs') - 1)
      PROVE  logs'[i] = logs[i + first - 1]
  <2>1. i \in 1..Len(logs') /\ i + first - 1 \in 1..Len(logs)
    BY <1>3, <1>4, <1>6
  <2> QED
    BY <1>3, <1>5, <2>1
<1> QED
  BY <1>4, <1>5, <1>6, <1>7 DEF log

\* A log of the job at work is its newest; a log of another one leaves the newest there.
LEMMA NewestAfter ==
  ASSUME logs \in Seq(LogEntries), NEW j \in Jobs, script.job \in Jobs, UNCHANGED script,
         NEW error \in {None, "error_retried", "error_at_last"}, Log(j, error),
         NEW i, MyNewest(i)'
  PROVE  IF j = script.job THEN logs'[i].error = error
         ELSE \E k : MyNewest(k) /\ logs'[i] = logs[k]
<1>1. script.job # None
  BY NoneAssumption DEF Jobs
<1>2. logs' \in Seq(LogEntries)
  BY <1>1, LogEffect
<1>3. PICK first \in Nat \ {0} :
        /\ Len(logs') = Len(logs) + 2 - first /\ Len(logs') >= 1
        /\ \A k \in 1..(Len(logs') - 1) : logs'[k] = logs[k + first - 1]
        /\ logs'[Len(logs')] = IF j = script.job THEN [job |-> j, error |-> error]
                               ELSE [job |-> None, error |-> None]
  BY <1>1, LogEffect
<1>4. /\ Len(logs) \in Nat /\ DOMAIN logs = 1..Len(logs)
      /\ Len(logs') \in Nat /\ DOMAIN logs' = 1..Len(logs')
  BY <1>2
<1>5. /\ i \in 1..Len(logs') /\ logs'[i].job = script.job
      /\ \A k \in 1..Len(logs') : logs'[k].job = script.job => k <= i
  BY <1>4 DEF MyNewest
<1>6. CASE j = script.job
  <2>1. Len(logs') \in 1..Len(logs') /\ logs'[Len(logs')].job = script.job
    BY <1>3, <1>4, <1>6
  <2>2. i = Len(logs')
    <3>1. Len(logs') <= i
      BY <1>5, <2>1, Zenon
    <3>2. i \in 1..Len(logs') /\ Len(logs') \in Nat
      BY <1>4, <1>5, Zenon
    <3> QED
      BY <3>1, <3>2, IntervalEnd, Zenon
  <2> QED
    BY <1>3, <1>6, <2>2
<1>7. CASE j # script.job
  <2>1. logs'[Len(logs')].job # script.job
    BY <1>1, <1>3, <1>7
  <2>2. i \in 1..(Len(logs') - 1)
    BY <1>4, <1>5, <2>1
  <2> DEFINE k == i + first - 1
  <2>3. k \in 1..Len(logs) /\ logs'[i] = logs[k]
    BY <1>3, <1>4, <2>2
  <2>4. ASSUME NEW q \in 1..Len(logs), logs[q].job = script.job PROVE q <= k
    <3>1. CASE q < first
      BY <1>4, <2>2, <3>1
    <3>2. CASE ~(q < first)
      <4> DEFINE p == q - first + 1
      <4>1. p \in 1..(Len(logs') - 1) /\ p + first - 1 = q
        BY <1>3, <1>4, <3>2
      <4>2. logs'[p] = logs[q]
        BY <1>3, <4>1
      <4>3. p <= i
        BY <1>4, <1>5, <2>4, <4>1, <4>2
      <4> QED
        BY <1>4, <2>2, <4>1, <4>3
    <3> QED
      BY <3>1, <3>2
  <2> QED
    BY <1>4, <1>5, <1>7, <2>3, <2>4 DEF MyNewest
<1> QED
  BY <1>6, <1>7

\* A log that the engine adds for a job keeps what the newest tells, if it tells it itself.
LEMMA LogTells ==
  ASSUME LogsInv, script.job \in Jobs, UNCHANGED script, NEW j \in Jobs,
         NEW error \in {None, "error_retried", "error_at_last"}, Log(j, error),
         \A k \in Jobs \ {j} : /\ job'[k] = job[k]
                               /\ k \in reprocessed' <=> k \in reprocessed,
         j = script.job /\ j \notin reprocessed' =>
           /\ job'[j].status \in Failures => error = "error_at_last"
           /\ script.pc = "logs" => script.status \notin Failures
  PROVE  LogsInv'
<1>1. script.job # None
  BY NoneAssumption DEF Jobs
<1>2. logs' \in Seq(LogEntries)
  BY <1>1, LogEffect DEF LogsInv
<1>3. ASSUME NEW i, MyNewest(i)', script.job \notin reprocessed',
             \/ job'[script.job].status \in Failures
             \/ script.pc = "logs" /\ script.status \in Failures
      PROVE  logs'[i].error = "error_at_last"
  <2>1. IF j = script.job THEN logs'[i].error = error
        ELSE \E k : MyNewest(k) /\ logs'[i] = logs[k]
    BY <1>3, NewestAfter DEF LogsInv
  <2>2. CASE j = script.job
    BY <1>3, <2>1, <2>2
  <2>3. CASE j # script.job
    BY <1>1, <1>3, <2>1, <2>3 DEF LogsInv, NewestTells
  <2> QED
    BY <2>2, <2>3
<1> QED
  BY <1>1, <1>2, <1>3 DEF LogsInv, NewestTells

\* The newest log of the job at work goes on telling how the last attempt failed.
LEMMA LogsStep ==
  ASSUME Place, JobsInv, SeenInv, faults \in Nat, LogsInv, [Next]_vars
  PROVE  LogsInv'
<1>0. <<>> \in Seq(LogEntries)
  OBVIOUS
<1>1. CASE logs' = <<>>
  BY <1>0, <1>1 DEF LogsInv, NewestTells, MyNewest
<1>2. CASE script'.job = None /\ UNCHANGED logs /\ script.job = None
  BY <1>2 DEF LogsInv, NewestTells
<1>3. CASE GoesOn
  <2>1. UNCHANGED <<logs, operator>>
    BY <1>3 DEF GoesOn
  <2>2. CASE RunFlow
    <3>1. logs = <<>>
      BY <2>2 DEF RunFlow, JobsInv, LogsInv
    <3> QED
      BY <1>1, <2>1, <3>1
  <2>3. CASE ~RunFlow
    <3>1. /\ UNCHANGED <<job, reprocessed>> /\ script'.job = script.job
          /\ script'.pc = "logs" => script'.status = job[script.job].status
      BY <1>3, <2>1, <2>3 DEF GoesOn, jobs, operator
    <3> QED
      BY <2>1, <3>1 DEF LogsInv, NewestTells, MyNewest
  <2> QED
    BY <2>2, <2>3
<1>4. CASE UNCHANGED vars
  BY <1>4 DEF vars, api, jobs, operator, LogsInv, NewestTells, MyNewest
<1>5. CASE EngineStep /\ script.job = None
  BY <1>1, <1>2, <1>5
  DEF EngineStep, Attempt, LateAttempt, Lost, Reprocess, CancelRequest, CancelCommit, Forget, Log
<1>6. CASE EngineStep /\ script.job # None
  <2>1. script.job \in Jobs /\ UNCHANGED script
    BY <1>6, JobAtWork, EngineEffect DEF JobsInv
  <2>2. PICK j \in Jobs :
          \/ Attempt(j) \/ LateAttempt(j) \/ Lost(j)
          \/ Reprocess(j) \/ CancelRequest(j) \/ CancelCommit(j) \/ Forget(j)
    BY <1>6 DEF EngineStep
  <2>3. /\ job \in [Jobs -> [status : JobStatuses, attempts : Nat, cancel : BOOLEAN]]
        /\ j \in late => job[j].status = "cancelled"
        /\ script.pc = "logs" /\ script.status \in Failures /\ script.job \notin reprocessed =>
             /\ job[script.job].status \in {script.status, "cancelled"}
             /\ job[script.job].status = "cancelled" => script.job \notin late
    BY <2>1 DEF JobsInv, JobsTyped, SeenInv, Stands, Failures
  <2>4. CASE Attempt(j)
    <3>1. /\ Log(j, ErrorOf(job'[j].status)) /\ UNCHANGED reprocessed
          /\ job[j].status \in {"pending", "retrying"}
          /\ \A k \in Jobs \ {j} : job'[k] = job[k]
      BY <2>3, <2>4, AttemptEffect DEF Attempt, operator, JobsInv
    <3> DEFINE error == ErrorOf(job'[j].status)
    <3>2. /\ error \in {None, "error_retried", "error_at_last"}
          /\ job'[j].status \in Failures => error = "error_at_last"
      BY DEF ErrorOf, Failures
    <3> HIDE DEF error
    <3>3. j = script.job /\ j \notin reprocessed =>
            (script.pc = "logs" => script.status \notin Failures)
      BY <2>3, <3>1 DEF Failures
    <3> QED
      BY <2>1, <3>1, <3>2, <3>3, LogTells DEF error
  <2>5. CASE LateAttempt(j)
    <3>1. PICK outcome : Lifecycle!LateAttempt(j, outcome) /\ Log(j, ErrorOf(outcome))
      BY <2>5 DEF LateAttempt
    <3>2. UNCHANGED reprocessed /\ j \in late
      BY <2>5, <3>1 DEF LateAttempt, operator, Lifecycle!LateAttempt
    <3>3. PICK status \in {outcome, "cancelled"} :
            job' = [job EXCEPT ![j] = Lifecycle!Row(status, job[j].attempts + 1, TRUE)]
      BY <3>1, LateEffect DEF JobsInv
    <3>4. job'[j].status = status /\ \A k \in Jobs \ {j} : job'[k] = job[k]
      BY <2>3, <3>3 DEF Lifecycle!Row
    <3> DEFINE error == ErrorOf(outcome)
    <3>5. /\ error \in {None, "error_retried", "error_at_last"}
          /\ job'[j].status \in Failures => error = "error_at_last"
      BY <3>3, <3>4 DEF ErrorOf, Failures
    <3> HIDE DEF error
    <3>6. j = script.job /\ j \notin reprocessed =>
            (script.pc = "logs" => script.status \notin Failures)
      BY <2>3, <3>2 DEF Failures
    <3> QED
      BY <2>1, <3>1, <3>2, <3>4, <3>5, <3>6, LogTells DEF error
  <2>6. CASE Reprocess(j)
    <3>1. /\ Log(j, None) /\ reprocessed' = reprocessed \cup {j}
          /\ \A k \in Jobs \ {j} : job'[k] = job[k]
      BY <2>3, <2>6 DEF Reprocess, Lifecycle!Reset
    <3> QED
      BY <2>1, <3>1, LogTells
  <2>7. CASE Lost(j) \/ CancelRequest(j) \/ Forget(j)
    BY <2>1, <2>7
    DEF Lost, CancelRequest, Forget, Lifecycle!Lost, Lifecycle!CancelRequest, Lifecycle!Forget,
        operator, LogsInv, NewestTells, MyNewest
  <2>8. CASE CancelCommit(j)
    <3>1. /\ UNCHANGED <<logs, reprocessed>>
          /\ \A k \in Jobs : job'[k] = job[k] \/ job'[k].status = "cancelled"
      BY <2>3, <2>8, CancelEffect DEF CancelCommit, JobsInv, Lifecycle!Row
    <3> QED
      BY <2>1, <3>1 DEF LogsInv, NewestTells, MyNewest, Failures
  <2> QED
    BY <2>2, <2>4, <2>5, <2>6, <2>7, <2>8
<1>7. CASE Leaves
  <2>1. CASE logs' = <<>>
    BY <1>1, <2>1
  <2>2. CASE logs' # <<>>
    <3>1. UNCHANGED logs /\ script.job = None /\ script'.job = None
      BY <1>7, <2>2 DEF Leaves, JobsInv
    <3> QED
      BY <1>2, <3>1
  <2> QED
    BY <2>1, <2>2
<1>8. CASE Start
  BY <1>2, <1>8, StartEffect DEF JobsInv
<1>9. CASE \E r : Concludes(r)
  BY <1>1, <1>9 DEF Concludes
<1> QED
  BY <1>3, <1>4, <1>5, <1>6, <1>7, <1>8, <1>9, StepKinds

\* The logs agree with the job at work.
LEMMA LogsHold == Spec => []LogsInv
<1>1. Init => LogsInv
  BY <<>> \in Seq(LogEntries) DEF Init, LogsInv, NewestTells, MyNewest
<1>2. Place /\ RunInv /\ LogsInv /\ [Next]_vars => LogsInv'
  BY LogsStep DEF RunInv
<1> QED
  BY <1>1, <1>2, PlaceHolds, RunHolds, PTL DEF Spec

-----------------------------------------------------------------------------
(* What the script makes of the logs *)

\* Numbers have a least, and numbers up to n a greatest.
LEMMA NatMin ==
  ASSUME NEW T, T \subseteq Nat, T # {}
  PROVE  \E x \in T : \A y \in T : x <= y
<1> DEFINE R == OpToRel(<, Nat)
<1>1. IsWellFoundedOn(R, Nat)
  BY NatLessThanWellFounded
<1>2. \A x, y \in Nat : x < y => <<x, y>> \in R
  BY DEF OpToRel
<1> HIDE DEF R
<1>3. PICK x \in T : \A y \in T : <<y, x>> \notin R
  BY <1>1, WFMin
<1>4. ASSUME NEW y \in T PROVE x <= y
  <2>1. x \in Nat /\ y \in Nat /\ ~(y < x)
    BY <1>2, <1>3
  <2> QED
    BY <2>1
<1> QED
  BY <1>4

LEMMA MaxOfNumbers ==
  ASSUME NEW n \in Nat, NEW S, S \subseteq 1..n, S # {}
  PROVE  Max(S) \in S /\ \A x \in S : x <= Max(S)
<1> DEFINE T == {n - x : x \in S}
<1>1. PICK t \in T : \A u \in T : t <= u
  <2>1. \A x \in S : x \in 1..n /\ n - x \in Nat
    OBVIOUS
  <2>2. T \subseteq Nat /\ T # {}
    BY <2>1
  <2> QED
    BY <2>2, NatMin
<1>2. PICK m \in S : t = n - m
  OBVIOUS
<1>3. \A x \in S : m >= x
  BY <1>1, <1>2
<1>4. Max(S) \in S /\ \A y \in S : Max(S) >= y
  BY <1>3 DEF Max
<1> QED
  BY <1>4

\* The list ends as the logs do, and goes as far back as the limit allows.
LEMMA ListedFacts ==
  ASSUME logs \in Seq(LogEntries)
  PROVE  /\ DOMAIN logs = 1..Len(logs) /\ Len(logs) \in Nat
         /\ \E back \in Nat :
              /\ DOMAIN Listed = 1..(Len(logs) - back) /\ Len(logs) - back \in 0..LogLimit
              /\ \A i \in 1..(Len(logs) - back) : Listed[i] = logs[i + back]
              /\ \A i \in 1..Len(logs) : Len(logs) - i < LogLimit => i > back
<1> DEFINE n == Len(logs)
           back == IF n < LogLimit THEN 0 ELSE n - LogLimit
<1>1. n \in Nat /\ DOMAIN logs = 1..n /\ LogLimit \in Nat
  BY LimitAssumption
<1>2. Listed = SubSeq(logs, back + 1, n)
  BY <1>1 DEF Listed
<1>3. back \in Nat /\ n - back \in 0..LogLimit
  BY <1>1
<1>4. \A i \in 1..n : n - i < LogLimit => i > back
  BY <1>1
<1> HIDE DEF back
<1>5. DOMAIN Listed = 1..(n - back) /\ \A i \in 1..(n - back) : Listed[i] = logs[i + back]
  BY <1>1, <1>2, <1>3
<1> QED
  BY <1>1, <1>3, <1>4, <1>5

\* The logs it finds are within the limit, and their error is one that it knows.
LEMMA FoundFacts ==
  ASSUME logs \in Seq(LogEntries), NEW status
  PROVE  /\ IsFiniteSet(MyLogs) /\ Cardinality(MyLogs) \in 0..LogLimit
         /\ ExtractErrorType(status, MyLogs) \in {None, "error_retried", "error_at_last", "unknown_error"}
<1>1. PICK back \in Nat :
        /\ DOMAIN Listed = 1..(Len(logs) - back) /\ Len(logs) - back \in 0..LogLimit
        /\ \A i \in 1..(Len(logs) - back) : Listed[i] = logs[i + back]
  BY ListedFacts
<1> DEFINE m == Len(logs) - back
<1>2. m \in Nat /\ m <= LogLimit /\ LogLimit \in Nat /\ MyLogs \subseteq 1..m
  BY <1>1, LimitAssumption DEF MyLogs
<1>3. ASSUME NEW i \in 1..m
      PROVE  Listed[i].error \in {None, "error_retried", "error_at_last"}
  <2>1. Len(logs) \in Nat
    BY ListedFacts
  <2>2. i + back \in 1..Len(logs)
    BY <1>2, <2>1
  <2>3. logs[i + back] \in LogEntries
    BY <2>1, <2>2
  <2>4. Listed[i] = logs[i + back]
    BY <1>1
  <2> QED
    BY <2>3, <2>4 DEF LogEntries
<1> HIDE DEF m
<1>4. IsFiniteSet(MyLogs) /\ Cardinality(MyLogs) \in 0..LogLimit
  <2>1. IsFiniteSet(MyLogs) /\ Cardinality(MyLogs) <= m
    <3>1. IsFiniteSet(1..m) /\ Cardinality(1..m) = m
      BY <1>2, IntervalSize
    <3>2. MyLogs \in SUBSET (1..m)
      BY <1>2
    <3>3. IsFiniteSet(MyLogs) /\ Cardinality(MyLogs) <= Cardinality(1..m)
      BY <3>1, <3>2, FS_Subset
    <3> QED
      BY <3>1, <3>3
  <2>2. Cardinality(MyLogs) \in Nat
    BY <2>1, FS_CardinalityType
  <2> QED
    BY <1>2, <2>1, <2>2
<1>5. MyLogs # {} => Max(MyLogs) \in 1..m
  BY <1>2, MaxOfNumbers
<1> QED
  BY <1>3, <1>4, <1>5 DEF ExtractErrorType

\* If all logs of the job are within the limit, it finds all of them, the newest too.
LEMMA FoundAll ==
  ASSUME logs \in Seq(LogEntries), NEW j, script.job = j,
         NEW mine, mine = {i \in DOMAIN logs : logs[i].job = j}, mine # {},
         \A i \in mine : Len(logs) - i < LogLimit
  PROVE  /\ Cardinality(MyLogs) = Cardinality(mine) /\ MyLogs # {}
         /\ MyNewest(Max(mine)) /\ Listed[Max(MyLogs)] = logs[Max(mine)]
<1>1. PICK back \in Nat :
        /\ DOMAIN Listed = 1..(Len(logs) - back) /\ Len(logs) - back \in 0..LogLimit
        /\ \A i \in 1..(Len(logs) - back) : Listed[i] = logs[i + back]
        /\ \A i \in 1..Len(logs) : Len(logs) - i < LogLimit => i > back
  BY ListedFacts
<1>2. Len(logs) \in Nat /\ DOMAIN logs = 1..Len(logs) /\ mine \subseteq 1..Len(logs)
  BY ListedFacts
<1>3. ASSUME NEW i \in MyLogs PROVE i + back \in mine /\ i \in 1..(Len(logs) - back)
  BY <1>1, <1>2, <1>3 DEF MyLogs
<1>4. ASSUME NEW i \in mine PROVE i - back \in MyLogs
  <2>1. i \in 1..Len(logs) /\ i > back /\ logs[i].job = j
    BY <1>1, <1>2, <1>4
  <2>2. i - back \in 1..(Len(logs) - back) /\ (i - back) + back = i
    BY <1>1, <1>2, <2>1
  <2> QED
    BY <1>1, <2>1, <2>2 DEF MyLogs
<1>5. Cardinality(MyLogs) = Cardinality(mine)
  <2> DEFINE f == [i \in MyLogs |-> i + back]
  <2>1. f \in [MyLogs -> mine]
    BY <1>3
  <2>2. \A a, b \in MyLogs : f[a] = f[b] => a = b
    <3>1. \A a \in MyLogs : a \in Int
      BY <1>3
    <3> QED
      BY <3>1
  <2>3. \A i \in mine : \E a \in MyLogs : f[a] = i
    <3> SUFFICES ASSUME NEW i \in mine PROVE \E a \in MyLogs : f[a] = i
      OBVIOUS
    <3>1. i - back \in MyLogs /\ i \in Int
      BY <1>2, <1>4
    <3> QED
      BY <3>1
  <2> HIDE DEF f
  <2>4. f \in Bijection(MyLogs, mine)
    BY <2>1, <2>2, <2>3 DEF Bijection, Injection, Surjection, IsInjective
  <2>5. ExistsBijection(MyLogs, mine)
    BY <2>4 DEF ExistsBijection
  <2> QED
    BY <2>5, FoundFacts, FS_Bijection
<1>6. MyLogs # {}
  BY <1>4
<1>7. Max(mine) \in mine /\ \A i \in mine : i <= Max(mine)
  BY <1>2, MaxOfNumbers
<1>8. Max(MyLogs) \in MyLogs /\ \A i \in MyLogs : i <= Max(MyLogs)
  <2>1. MyLogs \subseteq 1..(Len(logs) - back) /\ Len(logs) - back \in Nat
    BY <1>1, <1>3
  <2> QED
    BY <1>6, <2>1, MaxOfNumbers
<1>9. Max(MyLogs) + back = Max(mine)
  <2>1. Max(MyLogs) + back <= Max(mine) /\ Max(MyLogs) \in Int
    BY <1>3, <1>7, <1>8
  <2>2. Max(mine) - back <= Max(MyLogs) /\ Max(mine) \in Int
    BY <1>2, <1>4, <1>7, <1>8
  <2> QED
    BY <2>1, <2>2
<1>10. Listed[Max(MyLogs)] = logs[Max(mine)]
  BY <1>1, <1>3, <1>8, <1>9
<1> QED
  BY <1>5, <1>6, <1>7, <1>10 DEF MyNewest

\* A result that counted the logs of its job says how the last attempt ended.
LEMMA ResultOfLogs ==
  ASSUME Place, RunInv, LogsInv, NEW r, MayResult(r), faults' = faults, NEW j,
         script.pc = "logs", script.job = j, j \notin reprocessed,
         NEW mine, mine = {i \in DOMAIN logs : logs[i].job = j},
         Cardinality(mine) = job[j].attempts,
         \A i \in mine : Len(logs) - i < LogLimit
  PROVE  /\ r.logs = job[j].attempts
         /\ \A i \in mine : (\A k \in mine : k <= i) => r.error = logs[i].error
<1> USE DEF RunInv, LogsInv
<1>1. r = Result(script.status, ExtractErrorType(script.status, MyLogs), script.job,
                 Cardinality(MyLogs))
  BY DEF MayResult
<1>2. j \in Jobs /\ script.job # None
  BY JobAtWork
<1>3. CASE mine = {}
  <2>1. MyLogs = {}
    <3>1. PICK back \in Nat :
            /\ DOMAIN Listed = 1..(Len(logs) - back) /\ Len(logs) - back \in 0..LogLimit
            /\ \A i \in 1..(Len(logs) - back) : Listed[i] = logs[i + back]
      BY ListedFacts
    <3>2. ASSUME NEW i \in MyLogs PROVE i + back \in mine
      BY <3>1, <3>2, ListedFacts DEF MyLogs
    <3> QED
      BY <1>3, <3>2
  <2> QED
    BY <1>1, <1>3, <2>1 DEF Result
<1>4. CASE mine # {}
  <2>1. /\ Cardinality(MyLogs) = Cardinality(mine) /\ MyLogs # {}
        /\ MyNewest(Max(mine)) /\ Listed[Max(MyLogs)] = logs[Max(mine)]
    BY <1>4, FoundAll
  <2>2. script.status \in Failures => Listed[Max(MyLogs)].error = "error_at_last"
    BY <1>2, <2>1 DEF NewestTells
  <2>3. ExtractErrorType(script.status, MyLogs) = Listed[Max(MyLogs)].error
    <3>1. CASE Listed[Max(MyLogs)].error # None
      BY <2>1, <3>1 DEF ExtractErrorType
    <3>2. CASE Listed[Max(MyLogs)].error = None
      <4>1. script.status \notin {"failed", "dead_letter", "retrying"}
        BY <2>2, <3>2, NoneAssumption DEF SeenInv, Final, Ended, Failures
      <4> QED
        BY <2>1, <3>2, <4>1 DEF ExtractErrorType
    <3> QED
      BY <3>1, <3>2
  <2>4. ASSUME NEW i \in mine, \A k \in mine : k <= i PROVE i = Max(mine)
    <3>1. DOMAIN logs = 1..Len(logs) /\ Len(logs) \in Nat /\ mine \subseteq 1..Len(logs)
      BY ListedFacts
    <3>2. Max(mine) \in mine /\ i <= Max(mine)
      BY <1>4, <3>1, MaxOfNumbers
    <3>3. i \in Nat /\ Max(mine) \in Nat /\ Max(mine) <= i
      BY <2>4, <3>1, <3>2
    <3> QED
      BY <3>2, <3>3
  <2> QED
    BY <1>1, <2>1, <2>3, <2>4 DEF Result
<1> QED
  BY <1>3, <1>4

\* If the logs of a job are within the limit, its result counts every attempt, and its
\* error is the last attempt's.
THEOREM LastAttemptReportedHolds == Spec => LastAttemptReported
<1> DEFINE Reports(j) ==
      LET mine == {i \in DOMAIN logs : logs[i].job = j}
          r == script'.results[Len(script'.results)]
      IN  /\ script.pc = "logs" /\ script.job = j /\ faults' = faults
          /\ Len(script'.results) > Len(script.results)
          /\ j \notin reprocessed /\ Cardinality(mine) = job[j].attempts
          /\ \A i \in mine : Len(logs) - i < LogLimit
          => /\ r.logs = job[j].attempts
             /\ \A i \in mine : (\A k \in mine : k <= i) => r.error = logs[i].error
<1>1. Place /\ RunInv /\ LogsInv /\ [Next]_vars => \A j \in DOMAIN origin : Reports(j)
  <2> SUFFICES ASSUME Place, RunInv, LogsInv, [Next]_vars, NEW j \in DOMAIN origin,
                      NEW mine, mine = {i \in DOMAIN logs : logs[i].job = j},
                      script.pc = "logs", script.job = j, faults' = faults,
                      Len(script'.results) > Len(script.results),
                      j \notin reprocessed, Cardinality(mine) = job[j].attempts,
                      \A i \in mine : Len(logs) - i < LogLimit,
                      NEW r, r = script'.results[Len(script'.results)]
               PROVE  /\ r.logs = job[j].attempts
                      /\ \A i \in mine : (\A k \in mine : k <= i) => r.error = logs[i].error
    OBVIOUS
  <2>1. PICK q : MayResult(q) /\ script'.results = Append(script.results, q)
    <3>1. IsSeq(script.results) /\ Len(script.results) \in Nat
      BY AppendFacts DEF Place, PlaceOf
    <3>2. script'.results # <<>> /\ script'.results # script.results
      BY <3>1
    <3> QED
      BY <3>2, ResultsStep DEF RunInv
  <2>2. r = q
    BY <2>1, AppendFacts DEF Place, PlaceOf
  <2> QED
    BY <2>1, <2>2, ResultOfLogs
<1>2. Place /\ RunInv /\ LogsInv /\ [Next]_vars => [\A j \in DOMAIN origin : Reports(j)]_vars
  BY <1>1
<1> QED
  BY <1>2, PlaceHolds, RunHolds, LogsHold, PTL DEF Spec, LastAttemptReported

-----------------------------------------------------------------------------
(* Types *)

ScriptTyped ==
  /\ script.polls \in 0..(MaxPolls - 1) /\ script.run \in 0..MaxRuns
  /\ report.run \in 0..MaxRuns
  /\ \A i \in 1..Len(script.results) : ResultType(script.results[i])

\* A result that may be given has its type.
LEMMA ResultTyped ==
  ASSUME Place, RunInv, LogsInv, script.wants \in Names, NEW r, MayResult(r)
  PROVE  ResultType(r)
<1> USE DEF RunInv, LogsInv
<1>1. 0 \in 0..LogLimit
  BY LimitAssumption
<1>2. script.pc = "logs" => script.job \in Jobs /\ script.status \in Final
  BY JobAtWork DEF SeenInv
<1>3. /\ Cardinality(MyLogs) \in 0..LogLimit
      /\ ExtractErrorType(script.status, MyLogs) \in Errors
  BY FoundFacts DEF Errors
<1> QED
  BY <1>1, <1>2, <1>3 DEF MayResult, Result, ResultType, Statuses, Final, Ended, Errors

\* The script keeps its counters within their limits.
LEMMA TypedStep ==
  ASSUME Place, RunInv, LogsInv, ScriptTyped, [Next]_vars
  PROVE  ScriptTyped'
<1>1. \A i \in 1..Len(script'.results) : ResultType(script'.results[i])
  <2>1. \A i \in 1..Len(script.results) : ResultType(script.results[i])
    BY DEF ScriptTyped
  <2>2. CASE UNCHANGED script.results \/ script'.results = <<>>
    BY <2>1, <2>2
  <2>3. CASE \E r : MayResult(r) /\ script'.results = Append(script.results, r)
                    /\ script.wants \in Names
    <3>1. PICK r : MayResult(r) /\ script'.results = Append(script.results, r)
                   /\ script.wants \in Names
      BY <2>3
    <3> QED
      BY <2>1, <3>1, ResultTyped, AppendFacts DEF Place, PlaceOf
  <2> QED
    BY <2>2, <2>3, ResultsStep DEF RunInv
<1>2. /\ script'.polls \in 0..(MaxPolls - 1) /\ script'.run \in 0..MaxRuns
      /\ report'.run \in 0..MaxRuns
  <2> USE DEF ScriptTyped
  <2>1. CASE Start
    <3>1. script'.polls = 0 /\ script'.run = script.run + 1 /\ script.run < MaxRuns
          /\ report' = NoReport
      BY <2>1, StartEffect
    <3>2. report'.run = 0
      BY <3>1 DEF NoReport
    <3> QED
      BY <3>1, <3>2, PollsAssumption, RunsAssumption
  <2>2. CASE GoesOn
    <3>1. script'.run = script.run /\ report' = report
      BY <2>2 DEF GoesOn
    <3>2. \/ script'.polls = script.polls
          \/ script'.polls = script.polls + 1 /\ script'.polls < MaxPolls
      BY <2>2 DEF GoesOn
    <3> QED
      BY <3>1, <3>2, PollsAssumption
  <2>3. CASE \E r : Concludes(r)
    <3>1. script'.run = script.run /\ report' = report /\ script'.polls \in {0, script.polls}
      BY <2>3 DEF Concludes
    <3> QED
      BY <3>1, PollsAssumption
  <2>4. CASE Leaves
    <3>1. /\ script'.run = script.run /\ script'.polls = 0
          /\ report'.run = report.run \/ report'.run = script.run
      BY <2>4 DEF Leaves
    <3> QED
      BY <3>1, PollsAssumption
  <2>5. CASE EngineStep \/ UNCHANGED vars
    BY <2>5, EngineEffect DEF vars
  <2> QED
    BY <2>1, <2>2, <2>3, <2>4, <2>5, StepKinds DEF RunInv
<1> QED
  BY <1>1, <1>2 DEF ScriptTyped

\* Every variable has its type, and every result is of an operation and a status that the
\* report knows.
THEOREM TypeOKHolds == Spec => []TypeOK
<1>1. Init => ScriptTyped
  BY PollsAssumption, RunsAssumption DEF Init, ScriptTyped, Off, NoReport
<1>2. Place /\ RunInv /\ LogsInv /\ ScriptTyped /\ [Next]_vars => ScriptTyped'
  BY TypedStep
<1>3. Place /\ RunInv /\ ScriptTyped /\ MadeInv => TypeOK
  <2> SUFFICES ASSUME Place, RunInv, ScriptTyped, MadeInv PROVE TypeOK
    OBVIOUS
  <2>1. made \in [{"tenant", "connection"} \cup Names -> Nat]
    BY DEF MadeInv, Kinds
  <2>2. Submitted <= Len(Operations)
    BY DEF RunInv, JobsInv, JobsTyped
  <2>3. script.pc \in {"off", "look", "create", "run", "poll", "logs", "report"}
    BY DEF Place, PlaceOf, Before
  <2>4. script.wants \in {"tenant", "connection"} \cup Names
    BY DEF Place, PlaceOf
  <2>5. \A i \in DOMAIN script.results : ResultType(script.results[i])
    BY AppendFacts DEF Place, PlaceOf, ScriptTyped
  <2> QED
    BY <2>1, <2>2, <2>3, <2>4, <2>5 DEF TypeOK, ScriptTyped, Submitted
<1> QED
  BY <1>1, <1>2, <1>3, PlaceHolds, RunHolds, LogsHold, MadeHolds, PTL DEF Spec

=============================================================================
