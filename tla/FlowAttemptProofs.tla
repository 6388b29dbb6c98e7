--------------------------- MODULE FlowAttemptProofs ---------------------------
(***************************************************************************)
(* Theorems about FlowAttempt for any flows, edits, catalog, mappings and  *)
(* answers of the ERP.                                                     *)
(***************************************************************************)
EXTENDS FlowAttempt, SequenceTheorems, FiniteSetTheorems, WellFoundedInduction, TLAPS

-----------------------------------------------------------------------------
(* The connector *)

ConnectorFields ==
  {"pc", "credentials", "todo", "token", "checked", "auths", "loads", "answer", "body"}
IsConnector(c) == c = [f \in ConnectorFields |-> c[f]]

\* The operations a connector is made for, and what is left of them.
LongTest == <<"authenticate", "authenticate", "load">>
Plans == {<<>>, <<"authenticate">>, <<"load">>, Read, LongTest}
AuthsIn(plan) ==
  IF plan = LongTest THEN 2 ELSE IF plan \in {<<"authenticate">>, Read} THEN 1 ELSE 0
LoadsIn(plan) == IF plan \in {<<"load">>, Read, LongTest} THEN 1 ELSE 0

\* A step is an authentication or a load, and its plan holds one less of it after it.
LEMMA PlanSteps ==
  ASSUME NEW plan \in Plans, plan # <<>>
  PROVE  /\ Tail(plan) \in Plans
         /\ Len(plan) # 1 => Tail(plan) # <<>>
         /\ \/ /\ Head(plan) = "authenticate"
               /\ AuthsIn(plan) = AuthsIn(Tail(plan)) + 1 /\ LoadsIn(plan) = LoadsIn(Tail(plan))
            \/ /\ Head(plan) = "load"
               /\ AuthsIn(plan) = AuthsIn(Tail(plan)) /\ LoadsIn(plan) = LoadsIn(Tail(plan)) + 1
         /\ AuthsIn(Tail(plan)) \in Nat /\ LoadsIn(Tail(plan)) \in Nat
<1>1. CASE plan = <<"authenticate">>
  BY <1>1 DEF Plans, AuthsIn, LoadsIn, Read, LongTest
<1>2. CASE plan = <<"load">>
  BY <1>2 DEF Plans, AuthsIn, LoadsIn, Read, LongTest
<1>3. CASE plan = Read
  BY <1>3 DEF Plans, AuthsIn, LoadsIn, Read, LongTest
<1>4. CASE plan = LongTest
  BY <1>4 DEF Plans, AuthsIn, LoadsIn, Read, LongTest
<1> QED
  BY <1>1, <1>2, <1>3, <1>4 DEF Plans

\* A test authenticates, and with a read check it then reads.
LEMMA TestPlans ==
  \A readCheck : Test(readCheck) = IF readCheck THEN LongTest ELSE <<"authenticate">>
<1>1. <<"authenticate">> \o <<>> = <<"authenticate">>
  OBVIOUS
<1>2. <<"authenticate">> \o <<"authenticate", "load">> = LongTest
  <2> DEFINE S == {"authenticate", "load"}
             long == <<"authenticate">> \o <<"authenticate", "load">>
  <2>1. /\ <<"authenticate">> \in Seq(S) /\ <<"authenticate", "load">> \in Seq(S)
        /\ Len(<<"authenticate">>) = 1 /\ Len(<<"authenticate", "load">>) = 2
    OBVIOUS
  <2>2. /\ long \in Seq(S) /\ Len(long) = 3
        /\ \A i \in 1..3 : long[i] = IF i <= 1 THEN <<"authenticate">>[i]
                                    ELSE <<"authenticate", "load">>[i - 1]
    BY <2>1, ConcatProperties
  <2>3. LongTest \in Seq(S) /\ Len(LongTest) = 3
    BY DEF LongTest
  <2>4. \A i \in 1..3 : long[i] = LongTest[i]
    BY <2>2 DEF LongTest
  <2> HIDE DEF long
  <2> QED
    BY <2>2, <2>3, <2>4, SeqEqual DEF long
<1> QED
  BY <1>1, <1>2 DEF Test, Read

\* What each plan asks for: a test reads at most once and asks for two tokens at most.
LEMMA PlanCounts ==
  /\ AuthsIn(<<>>) = 0 /\ LoadsIn(<<>>) = 0
  /\ AuthsIn(Read) = 1 /\ LoadsIn(Read) = 1 /\ Read # <<>> /\ Read \in Plans
  /\ \A readCheck : /\ Test(readCheck) \in Plans /\ Test(readCheck) # <<>>
                    /\ Head(Test(readCheck)) = "authenticate"
                    /\ AuthsIn(Test(readCheck)) <= 2 /\ LoadsIn(Test(readCheck)) <= 1
                    /\ AuthsIn(Test(readCheck)) \in Nat /\ LoadsIn(Test(readCheck)) \in Nat
<1>1. /\ AuthsIn(<<>>) = 0 /\ LoadsIn(<<>>) = 0
      /\ AuthsIn(Read) = 1 /\ LoadsIn(Read) = 1 /\ Read # <<>> /\ Read \in Plans
  BY DEF AuthsIn, LoadsIn, Read, LongTest, Plans
<1>2. ASSUME NEW readCheck
      PROVE  Test(readCheck) \in {<<"authenticate">>, LongTest}
  BY TestPlans
<1>3. \A plan \in {<<"authenticate">>, LongTest} :
        /\ plan \in Plans /\ plan # <<>> /\ Head(plan) = "authenticate"
        /\ AuthsIn(plan) <= 2 /\ LoadsIn(plan) <= 1
        /\ AuthsIn(plan) \in Nat /\ LoadsIn(plan) \in Nat
  BY DEF AuthsIn, LoadsIn, Read, LongTest, Plans
<1> QED
  BY <1>1, <1>2, <1>3

\* A connector that may ask for a token so many times, and for records once.
ConnectorOK(c, limit) ==
  /\ IsConnector(c) /\ c.todo \in Plans
  /\ c.pc \in {"closed", "next", "authenticating", "loading", "done", "failed"}
  /\ c.auths \in Nat /\ c.loads \in Nat /\ c.auths <= limit /\ c.loads <= 1
  /\ c.pc \in {"next", "authenticating", "loading"} => c.todo # <<>>
  /\ c.pc = "next" => c.auths + AuthsIn(c.todo) <= limit /\ c.loads + LoadsIn(c.todo) <= 1
  /\ c.pc \in {"authenticating", "loading"} =>
       c.auths + AuthsIn(Tail(c.todo)) <= limit /\ c.loads + LoadsIn(Tail(c.todo)) <= 1
  /\ c.pc = "loading" => Head(c.todo) = "load"

\* A connector that is not open has asked for nothing.
LEMMA ClosedOK ==
  ASSUME NEW limit \in Nat
  PROVE  ConnectorOK(Closed, limit) /\ Closed.pc = "closed" /\ Closed.auths = 0 /\ Closed.loads = 0
BY DEF Closed, Connector, ConnectorOK, IsConnector, ConnectorFields, Plans

\* A connector that was opened has all of its plan before it.
LEMMA OpenedOK ==
  ASSUME NEW limit \in Nat, NEW credentials, NEW plan \in Plans, plan # <<>>,
         AuthsIn(plan) <= limit, LoadsIn(plan) <= 1,
         AuthsIn(plan) \in Nat, LoadsIn(plan) \in Nat
  PROVE  ConnectorOK(Connector(credentials, plan), limit)
         /\ Connector(credentials, plan).pc = "next"
BY DEF Connector, ConnectorOK, IsConnector, ConnectorFields

\* A connector that failed asks for nothing more.
LEMMA FailedOK ==
  ASSUME NEW limit \in Nat, NEW c, ConnectorOK(c, limit), NEW answer
  PROVE  ConnectorOK(Failed(c, answer), limit) /\ Failed(c, answer).pc # "closed"
BY DEF Failed, ConnectorOK, IsConnector, ConnectorFields

\* A step that was answered leaves the rest of the plan.
LEMMA AdvancedOK ==
  ASSUME NEW limit \in Nat, NEW c, IsConnector(c), c.todo \in Plans, c.todo # <<>>,
         c.auths \in Nat, c.loads \in Nat,
         c.auths + AuthsIn(Tail(c.todo)) <= limit, c.loads + LoadsIn(Tail(c.todo)) <= 1
  PROVE  ConnectorOK(Advanced(c), limit) /\ Advanced(c).pc # "closed"
<1> DEFINE d == Advanced(c)
<1> SUFFICES ConnectorOK(d, limit) /\ d.pc # "closed"
  OBVIOUS
<1>1. /\ Tail(c.todo) \in Plans
      /\ Len(c.todo) # 1 => Tail(c.todo) # <<>>
      /\ AuthsIn(Tail(c.todo)) \in Nat /\ LoadsIn(Tail(c.todo)) \in Nat
  BY PlanSteps
<1>2. /\ IsConnector(d) /\ d.todo = Tail(c.todo)
      /\ d.pc = IF Len(c.todo) = 1 THEN "done" ELSE "next"
      /\ d.auths = c.auths /\ d.loads = c.loads
  BY DEF Advanced, IsConnector, ConnectorFields
<1> HIDE DEF d
<1>3. c.auths <= limit /\ c.loads <= 1
  BY <1>1
<1> QED
  BY <1>1, <1>2, <1>3 DEF ConnectorOK

\* No step of a connector asks for more than its plan holds.
LEMMA ClientStepOK ==
  ASSUME NEW limit \in Nat, ConnectorOK(client, limit), ClientStep
  PROVE  ConnectorOK(client', limit) /\ client.pc # "closed" /\ client'.pc # "closed"
<1> DEFINE rest == Tail(client.todo)
<1>0. /\ IsConnector(client) /\ client.todo \in Plans
      /\ client.auths \in Nat /\ client.loads \in Nat
      /\ client.auths <= limit /\ client.loads <= 1
  BY DEF ConnectorOK
<1>1. ASSUME client.pc = "next"
      PROVE  /\ client.todo # <<>> /\ rest \in Plans
             /\ AuthsIn(rest) \in Nat /\ LoadsIn(rest) \in Nat
             /\ client.auths + AuthsIn(rest) <= limit /\ client.loads + LoadsIn(rest) <= 1
             /\ Head(client.todo) = "authenticate" => client.auths + 1 + AuthsIn(rest) <= limit
             /\ Head(client.todo) = "load" => client.loads + 1 + LoadsIn(rest) <= 1
  <2>1. /\ client.todo # <<>>
        /\ client.auths + AuthsIn(client.todo) <= limit
        /\ client.loads + LoadsIn(client.todo) <= 1
    BY <1>1 DEF ConnectorOK
  <2> QED
    BY <1>0, <2>1, PlanSteps
<1>2. ASSUME client.pc \in {"authenticating", "loading"}
      PROVE  /\ client.todo # <<>>
             /\ client.auths + AuthsIn(rest) <= limit /\ client.loads + LoadsIn(rest) <= 1
  BY <1>2 DEF ConnectorOK
<1> HIDE DEF rest
<1>3. CASE AuthenticateFromCache
  <2> DEFINE c == [client EXCEPT !.checked = clock]
  <2>1. /\ IsConnector(c) /\ c.todo = client.todo
        /\ c.auths = client.auths /\ c.loads = client.loads
    BY <1>0 DEF IsConnector, ConnectorFields
  <2> QED
    BY <1>0, <1>1, <1>3, <2>1, AdvancedOK DEF AuthenticateFromCache, NextStep, rest
<1>4. CASE AuthenticateLegacy
  <2> DEFINE c == [client EXCEPT !.checked = clock, !.token = [taken |-> clock, expires |-> None]]
  <2>1. /\ IsConnector(c) /\ c.todo = client.todo
        /\ c.auths = client.auths /\ c.loads = client.loads
    BY <1>0 DEF IsConnector, ConnectorFields
  <2> QED
    BY <1>0, <1>1, <1>4, <2>1, AdvancedOK DEF AuthenticateLegacy, NextStep, rest
<1>5. CASE CredentialsMissing
  BY <1>5, FailedOK DEF CredentialsMissing, NextStep
<1>6. CASE RequestToken
  <2>1. /\ client.pc = "next" /\ Head(client.todo) = "authenticate"
        /\ client' = [client EXCEPT !.pc = "authenticating", !.auths = Count(@)]
    BY <1>6 DEF RequestToken, NextStep
  <2>2. /\ IsConnector(client') /\ client'.pc = "authenticating"
        /\ client'.todo = client.todo /\ client'.loads = client.loads
        /\ client'.auths \in {client.auths, client.auths + 1}
    BY <1>0, <2>1 DEF IsConnector, ConnectorFields, Count
  <2> QED
    BY <1>0, <1>1, <2>1, <2>2 DEF ConnectorOK, rest
<1>7. CASE RequestRecords
  <2>1. /\ client.pc = "next" /\ Head(client.todo) = "load"
        /\ client' = [client EXCEPT !.pc = "loading", !.loads = Count(@)]
    BY <1>7 DEF RequestRecords, NextStep
  <2>2. /\ IsConnector(client') /\ client'.pc = "loading"
        /\ client'.todo = client.todo /\ client'.auths = client.auths
        /\ client'.loads \in {client.loads, client.loads + 1}
    BY <1>0, <2>1 DEF IsConnector, ConnectorFields, Count
  <2> QED
    BY <1>0, <1>1, <2>1, <2>2 DEF ConnectorOK, rest
<1>8. CASE \E answer \in AuthRefusals : TokenRefused(answer)
  BY <1>8, FailedOK DEF TokenRefused
<1>9. ASSUME NEW lifetime \in Lifetimes, TokenIssued(lifetime)
      PROVE  ConnectorOK(client', limit) /\ client.pc # "closed" /\ client'.pc # "closed"
  <2> DEFINE token == [taken |-> clock,
                       expires |-> IF lifetime = None THEN None ELSE clock + lifetime]
             c == [client EXCEPT !.checked = clock, !.token = token]
  <2>1. client.pc = "authenticating" /\ client' = Advanced(c)
    BY <1>9 DEF TokenIssued
  <2> HIDE DEF token
  <2>2. /\ IsConnector(c) /\ c.todo = client.todo
        /\ c.auths = client.auths /\ c.loads = client.loads
    BY <1>0 DEF IsConnector, ConnectorFields
  <2> HIDE DEF c
  <2> QED
    BY <1>0, <1>2, <2>1, <2>2, AdvancedOK DEF rest
<1>10. CASE \E answer \in Refusals : RecordsRefused(answer)
  BY <1>10, FailedOK DEF RecordsRefused
<1>11. ASSUME NEW body \in Responses, RecordsReceived(body)
       PROVE  ConnectorOK(client', limit) /\ client.pc # "closed" /\ client'.pc # "closed"
  <2> DEFINE c == [client EXCEPT !.body = body]
  <2>1. client.pc = "loading" /\ client' = Advanced(c)
    BY <1>11 DEF RecordsReceived
  <2>2. /\ IsConnector(c) /\ c.todo = client.todo
        /\ c.auths = client.auths /\ c.loads = client.loads
    BY <1>0 DEF IsConnector, ConnectorFields
  <2> HIDE DEF c
  <2> QED
    BY <1>0, <1>2, <2>1, <2>2, AdvancedOK DEF rest
<1> QED
  BY <1>3, <1>4, <1>5, <1>6, <1>7, <1>8, <1>9, <1>10, <1>11 DEF ClientStep

-----------------------------------------------------------------------------
(* Calls of the ERP *)

\* The steps an attempt ends with.
Ends ==
  \/ FlowInactive \/ ReadInvalid \/ SourceMissing \/ MappingRaises \/ TargetMissing
  \/ Deliver \/ ConnectorRaises \/ MockRead \/ ReadFails \/ ReadAnswered

\* Storing what was read ends the attempt.
LEMMA StoreEnds ==
  ASSUME NEW records, NEW count, Store(records, count)
  PROVE  \E status, outcome : End(status, outcome)
BY DEF Store, Fail

\* Every way an attempt comes to an outcome is an End, of an attempt that was running.
LEMMA EndsEnd ==
  ASSUME Ends
  PROVE  run.pc = "running" /\ \E status, outcome : End(status, outcome)
<1>1. run.pc = "running"
  BY DEF Ends, FlowInactive, ReadInvalid, SourceMissing, MappingRaises, TargetMissing,
         Deliver, ConnectorRaises, MockRead, ReadFails, ReadAnswered, Writing, Reading, Running
<1>2. CASE MockRead \/ ReadAnswered
  BY <1>1, <1>2, StoreEnds DEF MockRead, ReadAnswered
<1>3. CASE ~(MockRead \/ ReadAnswered)
  BY <1>1, <1>3 DEF Ends, FlowInactive, ReadInvalid, SourceMissing, MappingRaises, TargetMissing,
              Deliver, ConnectorRaises, ReadFails, Fail
<1> QED
  BY <1>1, <1>2, <1>3

RunFields == {"pc", "flow", "seen"}
JobFields == {"flow", "status", "attempts"}
IsRun == run = [f \in RunFields |-> run[f]]

\* A flow whose attempt asks the ERP.
Asks(flow) ==
  /\ flow.active
  /\ Resolution(flow).kind = "read" /\ Resolution(flow).mode = "real"

\* A connector is there only while a test or the attempt of a flow that asks the ERP
\* goes on, and it has not asked for more than its plan held.
CallsInv ==
  /\ IsRun /\ run.pc \in {"idle", "running", "committed", "testing"}
  /\ ConnectorOK(client, IF run.pc = "testing" THEN 2 ELSE 1)
  /\ client.pc = "closed" => client = Closed
  /\ run.pc \in {"idle", "committed"} => client = Closed
  /\ run.pc = "running" /\ client.pc # "closed" => Asks(run.flow)

\* Before anything runs no connector is open.
LEMMA CallsInit == Init => CallsInv
BY ClosedOK DEF Init, ClientInit, CallsInv, Idle, IsRun, RunFields

\* Every step keeps the connector within its plan, and open only for an attempt that
\* may ask the ERP or for a test.
LEMMA CallsStep == CallsInv /\ [Next]_vars => CallsInv'
<1> SUFFICES ASSUME CallsInv, [Next]_vars PROVE CallsInv'
  OBVIOUS
<1>1. CASE \E f \in Flows : Submit(f)
  BY <1>1 DEF Submit, CallsInv, IsRun
<1>2. CASE \E edit \in Edits : Edit(edit)
  BY <1>2 DEF Edit, CallsInv, IsRun
<1>3. ASSUME NEW credentials, NEW readCheck, StartTest(credentials, readCheck)
      PROVE  CallsInv'
  <2>1. ConnectorOK(client', 2) /\ client'.pc = "next"
    BY <1>3, PlanCounts, OpenedOK DEF StartTest
  <2>2. IsRun' /\ run'.pc = "testing"
    BY <1>3 DEF StartTest, CallsInv, IsRun, RunFields
  <2> QED
    BY <2>1, <2>2 DEF CallsInv
<1>4. CASE Begin
  BY <1>4, ClosedOK DEF Begin, CallsInv, IsRun, RunFields
<1>5. CASE Ends
  <2>1. run.pc = "running" /\ client' = Closed /\ run' = [run EXCEPT !.pc = "committed"]
    BY <1>5, EndsEnd DEF End
  <2>2. IsRun' /\ run'.pc = "committed"
    BY <2>1 DEF CallsInv, IsRun, RunFields
  <2> QED
    BY <2>1, <2>2, ClosedOK DEF CallsInv
<1>6. CASE Connect
  <2>1. /\ run.pc = "running" /\ Asks(run.flow) /\ run' = run
        /\ client' = Connector(run.flow.credentials, Read)
    BY <1>6 DEF Connect, Reading, Running, TheRead, Asks
  <2>2. ConnectorOK(client', 1) /\ client'.pc = "next"
    BY <2>1, PlanCounts, OpenedOK
  <2> QED
    BY <2>1, <2>2 DEF CallsInv, IsRun
<1>7. CASE Return
  BY <1>7, ClosedOK DEF Return, Idle, CallsInv, IsRun, RunFields
<1>8. CASE EndTest
  BY <1>8, ClosedOK DEF EndTest, Idle, CallsInv, IsRun, RunFields
<1>9. CASE CallStep
  <2>1. run' = run /\ ClientStep
    BY <1>9 DEF CallStep
  <2>2. /\ ConnectorOK(client', IF run.pc = "testing" THEN 2 ELSE 1)
        /\ client.pc # "closed" /\ client'.pc # "closed"
    BY <2>1, ClientStepOK DEF CallsInv
  <2>3. run.pc \in {"running", "testing"}
    BY <2>2, ClosedOK DEF CallsInv
  <2> QED
    BY <2>1, <2>2, <2>3 DEF CallsInv, IsRun
<1>10. CASE Tick /\ UNCHANGED <<job, run, last>>
  BY <1>10 DEF Tick, CallsInv, IsRun
<1>11. CASE UNCHANGED vars
  BY <1>11 DEF vars, CallsInv, IsRun
<1> QED
  BY <1>1, <1>2, <1>3, <1>4, <1>5, <1>6, <1>7, <1>8, <1>9, <1>10, <1>11
  DEF Next, AttemptStep, Ends

\* A read whose resolution the runner accepts as a real one is of a sandbox.
LEMMA RealIsSandbox ==
  ASSUME NEW flow, Asks(flow)
  PROVE  /\ flow.active /\ flow.platform = "sankhya" /\ flow.environment = "sandbox"
         /\ flow.config.mode = "real"
<1> DEFINE read == Resolve(flow.config, flow.sourceEntity)
<1>1. flow.active /\ flow.platform = "sankhya" /\ Resolution(flow) = read
  BY DEF Asks, Resolution, NotARead, Invalid
<1>2. read.kind = "read" /\ read.mode = "real" /\ flow.environment = "sandbox"
  BY <1>1 DEF Asks, Resolution, NotARead, Invalid, Permitted
<1>3. read.mode = OrElse(flow.config.mode, "mock")
  BY <1>2 DEF Resolve, LoadRecords, CatalogRead, ReadConfig, NotARead, Invalid
<1> QED
  BY <1>1, <1>2, <1>3 DEF OrElse

\* The ERP is called only for an active flow that asks for a real read over a sandbox
\* connection, whatever the flows, the edits and the catalog.
THEOREM CallsOnlySandboxHolds == Spec => []CallsOnlySandbox
<1>1. CallsInv => CallsOnlySandbox
  BY ClosedOK, RealIsSandbox DEF CallsInv, CallsOnlySandbox
<1> QED
  BY <1>1, CallsInit, CallsStep, PTL DEF Spec

\* However the ERP answers and the clock runs, an attempt asks for a token and for the
\* records once each, and a test for one token more.
THEOREM CallsBoundedHolds == Spec => []CallsBounded
<1>1. CallsInv => CallsBounded
  BY DEF CallsInv, ConnectorOK, CallsBounded
<1> QED
  BY <1>1, CallsInit, CallsStep, PTL DEF Spec

-----------------------------------------------------------------------------
(* Tokens *)

TokenOK(c) ==
  \/ c.token.expires = None
  \/ c.token.expires > c.checked
  \/ c.token.taken = c.checked

\* The token was good when it was looked at, from then until the records are there.
TokenInv ==
  /\ clock \in Nat
  /\ client.token.expires \in Int \cup {None}
  /\ client.pc \in {"next", "loading"} /\ Head(client.todo) = "load" => TokenOK(client)

\* Advancing to the next call keeps the token as it was judged.
LEMMA AdvancedToken ==
  ASSUME NEW c, IsConnector(c), c.todo \in Plans, c.todo # <<>>,
         c.token.expires \in Int \cup {None},
         Head(c.todo) = "authenticate" => TokenOK(c)
  PROVE  /\ Advanced(c).token.expires \in Int \cup {None}
         /\ Advanced(c).pc \in {"next", "loading"} /\ Head(Advanced(c).todo) = "load" =>
              TokenOK(Advanced(c))
<1>1. /\ Advanced(c).token = c.token /\ Advanced(c).checked = c.checked
      /\ Advanced(c).todo = Tail(c.todo)
      /\ Advanced(c).pc = IF Len(c.todo) = 1 THEN "done" ELSE "next"
  BY DEF Advanced, IsConnector, ConnectorFields
<1>2. c.todo # <<"load">> => Head(c.todo) = "authenticate"
  BY DEF Plans, Read, LongTest
<1>3. c.todo = <<"load">> => Len(c.todo) = 1
  OBVIOUS
<1> QED
  BY <1>1, <1>2, <1>3 DEF TokenOK

\* Every step keeps the token of a request for records one that was judged good.
LEMMA TokenStep == CallsInv /\ TokenInv /\ [Next]_vars => TokenInv'
<1> SUFFICES ASSUME CallsInv, TokenInv, [Next]_vars PROVE TokenInv'
  OBVIOUS
<1>0. /\ IsConnector(client) /\ client.todo \in Plans
      /\ client.pc \in {"next", "authenticating", "loading"} => client.todo # <<>>
  BY DEF CallsInv, ConnectorOK
<1>1. ASSUME NEW credentials, NEW plan, Head(plan) = "authenticate",
             client' = Connector(credentials, plan), clock' \in Nat
      PROVE  TokenInv'
  BY <1>1 DEF TokenInv, Connector, NoToken
<1>2. CASE \E c \in {"oauth", "oauth_missing", "legacy", "legacy_missing"},
              readCheck \in ReadChecks : StartTest(c, readCheck)
  BY <1>1, <1>2, PlanCounts DEF StartTest, TokenInv
<1>3. CASE Ends \/ EndTest
  <2>1. client' = Closed /\ clock' = 0
    BY <1>3, EndsEnd DEF EndTest, End
  <2> QED
    BY <2>1 DEF TokenInv, Closed, Connector, NoToken
<1>4. CASE Connect
  BY <1>1, <1>4 DEF Connect, TokenInv, Read
<1>5. CASE CallStep
  <2>1. CASE AuthenticateFromCache
    <3> DEFINE c == [client EXCEPT !.checked = clock]
    <3>1. /\ client' = Advanced(c) /\ UNCHANGED clock /\ client.todo # <<>>
          /\ ~TokenExpired(client.token)
      BY <1>0, <2>1 DEF AuthenticateFromCache, NextStep, Cached
    <3>2. /\ IsConnector(c) /\ c.todo = client.todo
          /\ c.token = client.token /\ c.checked = clock
      BY <1>0 DEF IsConnector, ConnectorFields
    <3> HIDE DEF c
    <3>3. TokenOK(c)
      BY <3>1, <3>2 DEF TokenOK, TokenExpired, TokenInv
    <3> QED
      BY <1>0, <3>1, <3>2, <3>3, AdvancedToken DEF TokenInv
  <2>2. CASE AuthenticateLegacy
    <3> DEFINE c == [client EXCEPT !.checked = clock,
                                   !.token = [taken |-> clock, expires |-> None]]
    <3>1. client' = Advanced(c) /\ UNCHANGED clock /\ client.todo # <<>>
      BY <1>0, <2>2 DEF AuthenticateLegacy, NextStep
    <3>2. IsConnector(c) /\ c.todo = client.todo /\ c.token.expires = None
      BY <1>0 DEF IsConnector, ConnectorFields
    <3> HIDE DEF c
    <3> QED
      BY <1>0, <3>1, <3>2, AdvancedToken DEF TokenInv, TokenOK
  <2>3. ASSUME NEW lifetime \in Lifetimes, TokenIssued(lifetime) PROVE TokenInv'
    <3> DEFINE expires == IF lifetime = None THEN None ELSE clock + lifetime
               c == [client EXCEPT !.checked = clock,
                                   !.token = [taken |-> clock, expires |-> expires]]
    <3>1. client' = Advanced(c) /\ UNCHANGED clock /\ client.todo # <<>>
      BY <1>0, <2>3 DEF TokenIssued
    <3>2. expires \in Int \cup {None}
      BY LifetimesAssumption DEF TokenInv
    <3> HIDE DEF expires
    <3>3. /\ IsConnector(c) /\ c.todo = client.todo /\ c.token.expires = expires
          /\ c.token.taken = clock /\ c.checked = clock
      BY <1>0 DEF IsConnector, ConnectorFields
    <3> HIDE DEF c
    <3> QED
      BY <1>0, <3>1, <3>2, <3>3, AdvancedToken DEF TokenInv, TokenOK
  <2>4. CASE \E body \in Responses : RecordsReceived(body)
    <3>1. PICK body : RecordsReceived(body)
      BY <2>4
    <3> DEFINE c == [client EXCEPT !.body = body]
    <3>2. client' = Advanced(c) /\ UNCHANGED clock /\ client.todo # <<>> /\ client.pc = "loading"
      BY <1>0, <3>1 DEF RecordsReceived
    <3>3. /\ IsConnector(c) /\ c.todo = client.todo /\ c.token = client.token
          /\ c.checked = client.checked
      BY <1>0 DEF IsConnector, ConnectorFields
    <3> HIDE DEF c
    <3>4. Head(c.todo) = "load"
      BY <1>0, <3>2, <3>3 DEF CallsInv, ConnectorOK
    <3> QED
      BY <1>0, <3>2, <3>3, <3>4, AdvancedToken DEF TokenInv
  <2>5. CASE RequestRecords
    <3>1. /\ UNCHANGED clock /\ client.pc = "next" /\ Head(client.todo) = "load"
          /\ client'.todo = client.todo
          /\ client'.token = client.token /\ client'.checked = client.checked
      BY <1>0, <2>5 DEF RequestRecords, NextStep, IsConnector, ConnectorFields
    <3> QED
      BY <3>1 DEF TokenInv, TokenOK
  <2>6. CASE /\ UNCHANGED clock /\ client'.token = client.token
             /\ client'.pc \notin {"next", "loading"}
    BY <2>6 DEF TokenInv
  <2>7. CASE \/ CredentialsMissing \/ RequestToken
             \/ \E answer \in AuthRefusals : TokenRefused(answer)
             \/ \E answer \in Refusals : RecordsRefused(answer)
    BY <1>0, <2>6, <2>7
    DEF CredentialsMissing, RequestToken, TokenRefused, RecordsRefused, Failed,
        IsConnector, ConnectorFields
  <2> QED
    BY <1>5, <2>1, <2>2, <2>3, <2>4, <2>5, <2>7 DEF CallStep, ClientStep
<1>6. CASE UNCHANGED client /\ clock' \in Nat
  BY <1>6 DEF TokenInv, TokenOK
<1>7. CASE \/ \E f \in Flows : Submit(f)
           \/ \E edit \in Edits : Edit(edit)
           \/ Begin \/ Return \/ (Tick /\ UNCHANGED <<job, run, last>>) \/ UNCHANGED vars
  BY <1>6, <1>7 DEF Submit, Edit, Begin, Return, Tick, vars, TokenInv
<1> QED
  BY <1>2, <1>3, <1>4, <1>5, <1>7 DEF Next, AttemptStep, Ends

\* The records are asked for with a token that was good when it was looked at, or was
\* issued then, for any lifetimes of tokens and any passing of time.
THEOREM TokenNotKnownExpiredHolds == Spec => []TokenNotKnownExpired
<1>1. Init => TokenInv
  BY DEF Init, ClientInit, TokenInv, Closed, Connector, NoToken
<1>2. CallsInv /\ TokenInv => TokenNotKnownExpired
  BY DEF CallsInv, ConnectorOK, TokenInv, TokenOK, TokenNotKnownExpired
<1> QED
  BY <1>1, <1>2, CallsInit, CallsStep, TokenStep, PTL DEF Spec

-----------------------------------------------------------------------------
(* Outcomes *)

\* What an attempt came to stays until its process returns.
LEMMA OutcomeKept ==
  ASSUME CallsInv, [Next]_vars, ~Ends
  PROVE  run'.pc # "committed" \/ UNCHANGED <<job, run, last>>
<1>1. CASE \/ \E f \in Flows : Submit(f)
           \/ \E edit \in Edits : Edit(edit)
           \/ CallStep \/ (Tick /\ UNCHANGED <<job, run, last>>) \/ UNCHANGED vars
  BY <1>1 DEF Submit, Edit, CallStep, vars
<1>2. CASE \E credentials \in {"oauth", "oauth_missing", "legacy", "legacy_missing"},
              readCheck \in ReadChecks : StartTest(credentials, readCheck)
  BY <1>2 DEF StartTest, CallsInv, IsRun, RunFields
<1>3. CASE Begin \/ Connect \/ Return \/ EndTest
  BY <1>3 DEF Begin, Connect, Reading, Running, Return, EndTest, Idle
<1> QED
  BY <1>1, <1>2, <1>3 DEF Next, AttemptStep, Ends

\* An End keeps the flow the attempt had loaded, and records the outcome.
LEMMA EndKeepsFlow ==
  ASSUME CallsInv, NEW status, NEW outcome, End(status, outcome)
  PROVE  /\ run'.pc = "committed" /\ run'.flow = run.flow /\ last' = outcome
BY DEF End, CallsInv, IsRun, RunFields

\* The stages of the ends that deliver nothing.
LEMMA OtherStages ==
  ASSUME Ends
  PROVE  /\ ~Deliver => last'.stage # "write"
         /\ ~SourceMissing => last'.stage # "source"
         /\ ~ReadFails => last'.answer = None
<1>1. CASE FlowInactive \/ ReadInvalid \/ ConnectorRaises
  BY <1>1 DEF FlowInactive, ReadInvalid, ConnectorRaises, Fail, End, Unfinished
<1>2. CASE SourceMissing
  BY <1>2 DEF SourceMissing, Fail, End, Unfinished
<1>3. CASE MappingRaises
  BY <1>3 DEF MappingRaises, Fail, End, Unfinished
<1>4. CASE TargetMissing
  BY <1>4 DEF TargetMissing, Fail, End, Unfinished
<1>5. CASE Deliver
  BY <1>5 DEF Deliver, End, Unfinished
<1>6. CASE MockRead \/ ReadAnswered
  <2>1. ASSUME NEW records, NEW count, Store(records, count)
        PROVE  last'.stage \in {"read", "mapping"} /\ last'.answer = None
    BY <2>1 DEF Store, Fail, End, Unfinished
  <2> QED
    BY <1>6, <2>1 DEF MockRead, ReadAnswered
<1>7. CASE ReadFails
  BY <1>7 DEF ReadFails, Fail, End, Unfinished
<1> QED
  BY <1>1, <1>2, <1>3, <1>4, <1>5, <1>6, <1>7 DEF Ends

\* Any order of finitely many mappings has each of them at one place.
LEMMA OrdersCover ==
  ASSUME NEW mappings, IsFiniteSet(mappings), NEW order \in Orders(mappings)
  PROVE  /\ \A i \in DOMAIN order : order[i] \in mappings
         /\ \A m \in mappings : \E i \in DOMAIN order : order[i] = m
         /\ \A i, k \in DOMAIN order : order[i] = order[k] => i = k
         /\ DOMAIN order \subseteq Nat
         /\ \E n \in Nat : DOMAIN order = 1..n
<1> DEFINE places == 1..Cardinality(mappings)
<1>1. Cardinality(mappings) \in Nat
  BY FS_CardinalityType
<1>2. /\ order \in [places -> mappings]
      /\ \A i, k \in places : i # k => order[i] # order[k]
  BY DEF Orders, SetToSeqs
<1>3. IsFiniteSet(places) /\ Cardinality(places) = Cardinality(mappings)
  BY <1>1, FS_Interval
<1>4. order \in Injection(places, mappings)
  BY <1>2 DEF Injection, IsInjective
<1>5. order \in Surjection(places, mappings)
  BY <1>3, <1>4, FS_Injection
<1> QED
  BY <1>1, <1>2, <1>5 DEF Surjection

\* A nonempty set of numbers has a least, and one within 1..n a greatest element.
LEMMA NatMin ==
  ASSUME NEW T, T \subseteq Nat, T # {}
  PROVE  \E x \in T : \A y \in T : x <= y
<1> DEFINE R == OpToRel(<, Nat)
<1>1. IsWellFoundedOn(R, Nat)
  BY NatLessThanWellFounded
<1>2. \A x, y \in Nat : x < y => <<x, y>> \in R
  BY DEF OpToRel
<1> HIDE DEF R
<1>3. PICK x \in T : \A y \in T : <<y, x>> \notin R
  BY <1>1, WFMin
<1>4. ASSUME NEW y \in T PROVE x <= y
  <2>1. x \in Nat /\ y \in Nat /\ ~(y < x)
    BY <1>2, <1>3
  <2> QED
    BY <2>1
<1> QED
  BY <1>4

\* See NatMin.
LEMMA NatMax ==
  ASSUME NEW n \in Nat, NEW S, S \subseteq 1..n, S # {}
  PROVE  \E x \in S : \A y \in S : y <= x
<1> DEFINE T == {n - x : x \in S}
<1>1. PICK t \in T : \A u \in T : t <= u
  <2>1. \A x \in S : x \in 1..n /\ n - x \in Nat
    OBVIOUS
  <2>2. T \subseteq Nat /\ T # {}
    BY <2>1
  <2> QED
    BY <2>2, NatMin
<1>2. PICK m \in S : t = n - m
  OBVIOUS
<1>3. \A x \in S : x <= m
  BY <1>1, <1>2
<1> QED
  BY <1>3

\* In whatever order any finite number of mappings was loaded, each target holds what
\* one of the mappings that name it makes of the payload: the last of them.
LEMMA TargetOfSome ==
  ASSUME NEW mappings, IsFiniteSet(mappings), NEW order \in Orders(mappings), NEW payload
  PROVE  /\ DOMAIN MapFields(payload, order).target = {m.target : m \in mappings}
         /\ \A t \in DOMAIN MapFields(payload, order).target : \E m \in mappings :
              m.target = t /\ MapFields(payload, order).target[t] = Mapped(m, payload)
<1>1. DOMAIN MapFields(payload, order).target = {order[i].target : i \in DOMAIN order}
  BY DEF MapFields
<1>2. {order[i].target : i \in DOMAIN order} = {m.target : m \in mappings}
  BY OrdersCover
<1>3. ASSUME NEW t \in {order[i].target : i \in DOMAIN order}
      PROVE  \E m \in mappings :
               m.target = t /\ MapFields(payload, order).target[t] = Mapped(m, payload)
  <2> DEFINE S == {i \in DOMAIN order : order[i].target = t}
  <2>1. PICK n \in Nat : DOMAIN order = 1..n
    BY OrdersCover
  <2>2. \E i \in S : \A k \in S : k <= i
    BY <2>1, NatMax
  <2>3. LastOf(order, t) \in DOMAIN order /\ order[LastOf(order, t)].target = t
    BY <2>2 DEF LastOf
  <2>4. MapFields(payload, order).target[t] = Mapped(order[LastOf(order, t)], payload)
    BY <1>3 DEF MapFields
  <2> QED
    BY <2>3, <2>4, OrdersCover
<1> QED
  BY <1>1, <1>2, <1>3

\* If targets are distinct, a target holds what its own mapping makes of the payload.
LEMMA TargetOfMapping ==
  ASSUME NEW mappings, IsFiniteSet(mappings), DistinctTargets(mappings),
         NEW order \in Orders(mappings), NEW payload, NEW m \in mappings
  PROVE  MapFields(payload, order).target[m.target] = Mapped(m, payload)
<1>1. PICK i \in DOMAIN order : order[i] = m
  BY OrdersCover
<1>2. \A k \in DOMAIN order : order[k].target = m.target => k = i
  BY <1>1, OrdersCover DEF DistinctTargets
<1>3. i <= i
  BY OrdersCover
<1>4. LastOf(order, m.target) = i
  BY <1>1, <1>2, <1>3 DEF LastOf
<1>5. m.target \in {order[k].target : k \in DOMAIN order}
  BY <1>1
<1> QED
  BY <1>1, <1>4, <1>5 DEF MapFields

\* No query orders the mappings of a flow, and if their targets are distinct none has
\* to: map_fields makes the same of a payload, and raises on the same payloads, in
\* whatever order any finite number of mappings was loaded.
THEOREM OrderIsImmaterial ==
  ASSUME NEW mappings, IsFiniteSet(mappings), DistinctTargets(mappings),
         NEW order \in Orders(mappings), NEW other \in Orders(mappings), NEW payload
  PROVE  MapFields(payload, order) = MapFields(payload, other)
<1> DEFINE TargetsOf(o) == {o[i].target : i \in DOMAIN o}
           RaisesOn(o) == \E i \in DOMAIN o : Mapped(o[i], payload) = Raises
<1>1. ASSUME NEW o \in Orders(mappings)
      PROVE  /\ TargetsOf(o) = {m.target : m \in mappings}
             /\ RaisesOn(o) <=> \E m \in mappings : Mapped(m, payload) = Raises
             /\ \A m \in mappings : MapFields(payload, o).target[m.target] = Mapped(m, payload)
  <2>1. /\ \A i \in DOMAIN o : o[i] \in mappings
        /\ \A m \in mappings : \E i \in DOMAIN o : o[i] = m
    BY OrdersCover
  <2>2. /\ TargetsOf(o) = {m.target : m \in mappings}
        /\ RaisesOn(o) <=> \E m \in mappings : Mapped(m, payload) = Raises
    BY <2>1
  <2>3. \A m \in mappings : MapFields(payload, o).target[m.target] = Mapped(m, payload)
    BY TargetOfMapping
  <2> QED
    BY <2>2, <2>3
<1> DEFINE Made(o) == MapFields(payload, o)
<1>2. ASSUME NEW o \in Orders(mappings)
      PROVE  /\ Made(o) = [raised |-> Made(o).raised, target |-> Made(o).target]
             /\ Made(o).raised = RaisesOn(o) /\ RaisesOn(o) \in BOOLEAN
             /\ Made(o).target = [t \in TargetsOf(o) |-> Made(o).target[t]]
  BY DEF MapFields
<1> HIDE DEF Made
<1>3. \A t \in TargetsOf(order) : Made(order).target[t] = Made(other).target[t]
  BY <1>1 DEF Made
<1>4. Made(order).raised = Made(other).raised
  BY <1>1, <1>2
<1>5. Made(order).target = Made(other).target
  <2> DEFINE value(t) == Made(order).target[t]
  <2>1. TargetsOf(order) = TargetsOf(other)
    BY <1>1
  <2>2. Made(order).target = [t \in TargetsOf(order) |-> value(t)]
    BY <1>2
  <2>3. Made(other).target = [t \in TargetsOf(order) |-> Made(other).target[t]]
    BY <1>2, <2>1
  <2> HIDE DEF TargetsOf
  <2>4. Made(other).target = [t \in TargetsOf(order) |-> value(t)]
    BY <1>3, <2>3
  <2> QED
    BY <2>2, <2>4
<1> QED
  BY <1>2, <1>4, <1>5 DEF Made

FlowInv ==
  /\ job = [f \in JobFields |-> job[f]]
  /\ job.status # "absent" => job.flow \in Flows
  /\ run.pc = "running" => run.flow \in Flows
  /\ run.pc = "running" => job.status # "absent"

\* Every step keeps the flows of the job and of the attempt among the given ones.
LEMMA FlowStep == CallsInv /\ FlowInv /\ [Next]_vars => FlowInv'
<1> SUFFICES ASSUME CallsInv, FlowInv, [Next]_vars PROVE FlowInv'
  OBVIOUS
<1>1. CASE \E f \in Flows : Submit(f)
  BY <1>1 DEF Submit, FlowInv, JobFields
<1>2. CASE \E edit \in Edits : Edit(edit)
  BY <1>2, EditsAssumption DEF Edit, FlowInv, JobFields
<1>3. CASE \E credentials \in {"oauth", "oauth_missing", "legacy", "legacy_missing"},
              readCheck \in ReadChecks : StartTest(credentials, readCheck)
  BY <1>3 DEF StartTest, FlowInv, CallsInv, IsRun, RunFields
<1>4. CASE Begin
  BY <1>4 DEF Begin, FlowInv
<1>5. CASE Ends
  <2>1. PICK status, outcome : End(status, outcome)
    BY <1>5, EndsEnd
  <2>2. run.pc = "running" /\ run'.pc = "committed"
    BY <1>5, <2>1, EndsEnd, EndKeepsFlow
  <2>3. job' = [f \in JobFields |-> job'[f]] /\ job'.flow = job.flow
    BY <2>1 DEF End, FlowInv, JobFields
  <2>4. job.flow \in Flows
    BY <2>2 DEF FlowInv
  <2> QED
    BY <2>2, <2>3, <2>4 DEF FlowInv
<1>6. CASE Connect \/ Return \/ EndTest
  BY <1>6 DEF Connect, Return, EndTest, Idle, FlowInv
<1>7. CASE CallStep \/ (Tick /\ UNCHANGED <<job, run, last>>) \/ UNCHANGED vars
  BY <1>7 DEF CallStep, vars, FlowInv
<1> QED
  BY <1>1, <1>2, <1>3, <1>4, <1>5, <1>6, <1>7 DEF Next, AttemptStep, Ends

\* Each field of a delivered target holds what one of its mappings makes of the payload
\* by itself, whatever finite number of mappings, some of which may share a target, was
\* loaded in whatever order.
THEOREM DeliveredAsMappedHolds == Spec => []DeliveredAsMapped
<1>1. Init => DeliveredAsMapped /\ FlowInv
  BY DEF Init, Idle, DeliveredAsMapped, FlowInv, JobFields
<1>2. ASSUME DeliveredAsMapped, FlowInv, CallsInv, [Next]_vars PROVE DeliveredAsMapped'
  <2> USE <1>2
  <2>1. CASE Deliver
    <3>1. PICK order \in Orders(run.flow.mappings) :
            End("success", [Unfinished EXCEPT !.stage = "write",
                                              !.target = Target(order).target])
      BY <2>1 DEF Deliver
    <3>2. last'.target = Target(order).target /\ run'.flow = run.flow
      BY <3>1 DEF End, Unfinished, CallsInv, IsRun, RunFields
    <3>3. IsFiniteSet(run.flow.mappings)
      BY <2>1, FlowsAssumption DEF Deliver, Writing, Running, FlowInv
    <3> QED
      BY <3>1, <3>2, <3>3, TargetOfSome DEF DeliveredAsMapped, Target
  <2>2. CASE Ends /\ ~Deliver
    BY <2>2, OtherStages DEF DeliveredAsMapped
  <2>3. CASE ~Ends
    BY <2>3, OutcomeKept DEF DeliveredAsMapped
  <2> QED
    BY <2>1, <2>2, <2>3 DEF Ends
<1> QED
  BY <1>1, <1>2, CallsInit, CallsStep, FlowStep, PTL DEF Spec

\* A mapping whose source the payload misses, and that no default of the source fills,
\* makes nothing of it.
LEMMA NothingOfNothing ==
  ASSUME NEW payload, NEW mappings, NEW n \in mappings,
         payload[n.source] \in Missing, ~HasDefault(mappings, n.source)
  PROVE  Mapped(n, payload) = Raises \/ Mapped(n, payload) \in Missing
<1>1. n.default \in Missing
  BY DEF HasDefault
<1>2. Input(n, payload) \in Missing
  BY <1>1 DEF Input
<1>3. ASSUME NEW rule, NEW v \in Missing
      PROVE  Transform(rule, v) = Raises \/ Transform(rule, v) \in Missing
  <2>1. CASE rule = "trim"
    BY <1>3, <2>1 DEF Transform, Missing
  <2>2. CASE rule = "digits"
    BY <1>3, <2>2, NoneAssumption DEF Transform, Missing, Digits
  <2>3. CASE rule = "decimal"
    BY <1>3, <2>3 DEF Transform, Missing
  <2>4. CASE rule = "date"
    BY <1>3, <2>4 DEF Transform
  <2>5. CASE rule \notin {"trim", "digits", "decimal", "date"}
    BY <1>3, <2>5 DEF Transform
  <2> QED
    BY <2>1, <2>2, <2>3, <2>4, <2>5
<1> QED
  BY <1>2, <1>3 DEF Mapped

\* The check of the source fields refuses no payload that the mapping would have made
\* complete, for any mappings and payload.
THEOREM EarlyRefusalJustifiedHolds == Spec => []EarlyRefusalJustified
<1>1. Init => EarlyRefusalJustified
  BY DEF Init, Idle, EarlyRefusalJustified
<1>2. ASSUME EarlyRefusalJustified, CallsInv, [Next]_vars PROVE EarlyRefusalJustified'
  <2> USE <1>2
  <2>1. CASE SourceMissing
    <3>1. /\ MissingSources(run.flow.payload, run.flow.mappings) # {}
          /\ run'.flow = run.flow
      BY <2>1, EndKeepsFlow DEF SourceMissing, Fail
    <3>2. PICK n \in run.flow.mappings :
            /\ n.required /\ run.flow.payload[n.source] \in Missing
            /\ ~HasDefault(run.flow.mappings, n.source)
      BY <3>1 DEF MissingSources
    <3>3. \/ Mapped(n, run.flow.payload) = Raises
          \/ Mapped(n, run.flow.payload) \in Missing
      BY <3>2, NothingOfNothing
    <3> QED
      BY <3>1, <3>2, <3>3 DEF EarlyRefusalJustified
  <2>2. CASE Ends /\ ~SourceMissing
    BY <2>2, OtherStages DEF EarlyRefusalJustified
  <2>3. CASE ~Ends
    BY <2>3, OutcomeKept DEF EarlyRefusalJustified
  <2> QED
    BY <2>1, <2>2, <2>3 DEF Ends
<1> QED
  BY <1>1, <1>2, CallsInit, CallsStep, PTL DEF Spec

-----------------------------------------------------------------------------
(* Ends of attempts *)

Started == {"pending", "retrying"}

\* While an attempt runs, the row and its flow are as they were loaded; a connector
\* fails with an answer that has an error type.
RowInv ==
  /\ job = [f \in JobFields |-> job[f]] /\ job.attempts \in Nat
  /\ run.pc = "running" =>
       /\ job.status \in Started /\ run.seen = Row /\ run.flow = job.flow
  /\ client.pc = "failed" => client.answer \in AuthRefusals \cup {"no_credentials"}

\* A resolution is of one of three kinds.
LEMMA ResolutionKinds ==
  \A flow : Resolution(flow).kind \in {"none", "read", "invalid"}
<1>1. ASSUME NEW config, NEW entity
      PROVE  Resolve(config, entity).kind \in {"none", "read", "invalid"}
  BY DEF Resolve, LoadRecords, CatalogRead, ReadConfig, NotARead, Invalid
<1> QED
  BY <1>1 DEF Resolution, NotARead, Invalid

\* A connector fails with an answer the runner classifies.
LEMMA ClientAnswers ==
  ASSUME IsConnector(client), ClientStep, client'.pc = "failed"
  PROVE  client'.answer \in AuthRefusals \cup {"no_credentials"}
<1>1. ASSUME NEW c, IsConnector(c)
      PROVE  Advanced(c).pc # "failed"
  BY <1>1 DEF Advanced, IsConnector, ConnectorFields
<1>2. ASSUME NEW answer
      PROVE  Failed(client, answer).answer = answer
  BY DEF Failed, IsConnector, ConnectorFields
<1>3. ~AuthenticateFromCache /\ ~AuthenticateLegacy
  <2>1. IsConnector([client EXCEPT !.checked = clock])
    BY DEF IsConnector, ConnectorFields
  <2>2. IsConnector([client EXCEPT !.checked = clock,
                                   !.token = [taken |-> clock, expires |-> None]])
    BY DEF IsConnector, ConnectorFields
  <2> QED
    BY <1>1, <2>1, <2>2 DEF AuthenticateFromCache, AuthenticateLegacy
<1>4. ~RequestToken /\ ~RequestRecords
  BY DEF RequestToken, RequestRecords, IsConnector, ConnectorFields
<1>5. \A lifetime \in Lifetimes : ~TokenIssued(lifetime)
  <2> SUFFICES ASSUME NEW lifetime PROVE ~TokenIssued(lifetime)
    OBVIOUS
  <2> DEFINE token == [taken |-> clock,
                       expires |-> IF lifetime = None THEN None ELSE clock + lifetime]
  <2>1. TokenIssued(lifetime) =>
          client' = Advanced([client EXCEPT !.checked = clock, !.token = token])
    BY DEF TokenIssued
  <2> HIDE DEF token
  <2>2. IsConnector([client EXCEPT !.checked = clock, !.token = token])
    BY DEF IsConnector, ConnectorFields
  <2> QED
    BY <1>1, <2>1, <2>2
<1>6. \A body \in Responses : ~RecordsReceived(body)
  <2>1. \A body : IsConnector([client EXCEPT !.body = body])
    BY DEF IsConnector, ConnectorFields
  <2> QED
    BY <1>1, <2>1 DEF RecordsReceived
<1> QED
  BY <1>2, <1>3, <1>4, <1>5, <1>6
  DEF ClientStep, CredentialsMissing, TokenRefused, RecordsRefused, AuthRefusals

\* Every step keeps the row of a job whose attempt is running as the attempt loaded it.
LEMMA RowStep == CallsInv /\ RowInv /\ [Next]_vars => RowInv'
<1> SUFFICES ASSUME CallsInv, RowInv, [Next]_vars PROVE RowInv'
  OBVIOUS
<1>1. CASE \E f \in Flows : Submit(f)
  BY <1>1 DEF Submit, RowInv, JobFields
<1>2. ASSUME NEW edit \in Edits, Edit(edit) PROVE RowInv'
  BY <1>2 DEF Edit, RowInv, JobFields
<1>3. ASSUME NEW credentials, NEW readCheck, StartTest(credentials, readCheck)
      PROVE  RowInv'
  BY <1>3 DEF StartTest, Connector, RowInv, CallsInv, IsRun, RunFields
<1>4. CASE Begin
  BY <1>4, ClosedOK DEF Begin, RowInv, Row, Started, CallsInv
<1>5. CASE Ends
  <2>1. PICK status, outcome : End(status, outcome)
    BY <1>5, EndsEnd
  <2>2. run.pc = "running" /\ client'.pc = "closed" /\ run'.pc = "committed"
    BY <1>5, <2>1, EndsEnd, ClosedOK DEF End, CallsInv, IsRun, RunFields
  <2>3. /\ job' = [f \in JobFields |-> job'[f]]
        /\ job'.attempts = job.attempts + 1 /\ job'.flow = job.flow
    BY <2>1 DEF End, RowInv, JobFields
  <2> QED
    BY <2>2, <2>3 DEF RowInv, Started
<1>6. CASE Connect
  BY <1>6 DEF Connect, Connector, RowInv, Row
<1>7. CASE Return \/ EndTest
  BY <1>7 DEF Return, EndTest, Idle, Closed, Connector, RowInv, Row
<1>8. CASE CallStep
  BY <1>8, ClientAnswers DEF CallStep, RowInv, Row, CallsInv, ConnectorOK
<1>9. CASE (Tick /\ UNCHANGED <<job, run, last>>) \/ UNCHANGED vars
  BY <1>9 DEF Tick, vars, RowInv, Row
<1> QED
  BY <1>1, <1>2, <1>3, <1>4, <1>5, <1>6, <1>7, <1>8, <1>9 DEF Next, AttemptStep, Ends

\* What an attempt writes at its end is what JobEngine's worker writes.
LEMMA EndConcludes ==
  ASSUME CallsInv, RowInv, run.pc = "running", NEW status, NEW outcome, End(status, outcome)
  PROVE  Engine!Conclude(Worker, status)
<1>1. /\ job' = [flow |-> job.flow, status |-> status, attempts |-> job.attempts + 1]
      /\ TheJob' = TheJob
  BY DEF End, RowInv, JobFields, TheJob
<1>2. /\ run'.pc = "committed" /\ run'.seen = run.seen /\ run.seen = Row
      /\ Row' = [status |-> status, attempts |-> job.attempts + 1, cancel |-> FALSE]
  BY <1>1 DEF End, CallsInv, IsRun, RunFields, RowInv, Row
<1>3. Engine!Merge(Row, run.seen, Engine!Tried(run.seen, status)) = Row'
  BY <1>2 DEF Engine!Merge, Engine!Tried, Row
<1>4. Engine!Save(Worker, Engine!Tried(run.seen, status))
  BY <1>1, <1>2, <1>3 DEF Engine!Save
<1>5. Engine!Goto(Worker, "committed")
  BY <1>1, <1>2 DEF Engine!Goto
<1> QED
  BY <1>1, <1>2, <1>4, <1>5 DEF Engine!Conclude, Engine!ghosts, Engine!bounds

\* Every error an attempt ends with is one JobEngine expects of what its flow does.
LEMMA ErrorsExpected ==
  ASSUME NEW flow
  PROVE  /\ {"business_rule_error", "validation_error"} \subseteq KindsOf(flow)
         /\ Resolution(flow).kind = "none" => "mapping_error" \in KindsOf(flow)
         /\ Resolution(flow).kind # "none" =>
              \A answer \in AuthRefusals \cup {"no_credentials"} :
                ErrorOf(answer) \in KindsOf(flow)
         /\ KindsOf(flow) \subseteq Engine!FailureKinds
         /\ KindsOf(flow) \subseteq ErrorTypes
BY DEF KindsOf, Engine!FailureKinds, Engine!ReadFailures, Engine!WriteFailures,
       AuthRefusals, Refusals, ErrorOf, ErrorTypes

\* A failure with such an error is a failure of JobEngine's worker.
LEMMA FailEndsAsEngine ==
  ASSUME CallsInv, RowInv, run.pc = "running",
         NEW error \in KindsOf(run.flow), NEW outcome, Fail(error, outcome)
  PROVE  Engine!AttemptFails(Worker)
<1>1. Engine!Conclude(Worker, FailedStatus(error))
  BY EndConcludes DEF Fail
<1>2. run.seen = Row
  BY DEF RowInv
<1>3. FailedStatus(error) = Engine!FailureStatus(error, run.seen.attempts + 1)
  BY <1>2 DEF FailedStatus, Retryable, Engine!FailureStatus, Engine!Retryable, Row
<1> QED
  BY <1>1, <1>2, <1>3, ErrorsExpected DEF Engine!AttemptFails, Row

EndAsEngineSays ==
  run.pc = "running" /\ run'.pc = "committed" =>
    CASE last'.error # None ->
           last'.error \in KindsOf(run.flow) /\ Engine!AttemptFails(Worker)
      [] last'.stage = "raised" -> Engine!AttemptRaises(Worker)
      [] OTHER -> Engine!AttemptSucceeds(Worker)

\* An End that fails, that succeeds, or that stores what was read, is what
\* JobEngine says.
LEMMA FailureEnds ==
  ASSUME CallsInv, RowInv, run.pc = "running",
         NEW error \in KindsOf(run.flow), NEW outcome,
         outcome.error = None, DOMAIN outcome = DOMAIN Unfinished,
         outcome.stage # "raised", Fail(error, outcome)
  PROVE  EndAsEngineSays
<1>1. last' = [outcome EXCEPT !.error = error]
  BY DEF Fail, End
<1>2. last'.error = error /\ last'.stage # "raised"
  BY <1>1 DEF Unfinished
<1>3. error # None
  BY ErrorsExpected, ErrorTypesAssumption
<1> QED
  BY <1>2, <1>3, FailEndsAsEngine DEF EndAsEngineSays

\* See FailureEnds.
LEMMA SuccessEnds ==
  ASSUME CallsInv, RowInv, run.pc = "running", NEW outcome,
         outcome.error = None, outcome.stage # "raised", End("success", outcome)
  PROVE  EndAsEngineSays
<1>1. Engine!Conclude(Worker, "success") /\ run.seen.cancel = FALSE
  BY EndConcludes DEF RowInv, Row
<1>2. last' = outcome
  BY DEF End
<1> QED
  BY <1>1, <1>2 DEF EndAsEngineSays, Engine!AttemptSucceeds

\* See FailureEnds.
LEMMA StoreEndsAsEngine ==
  ASSUME CallsInv, RowInv, run.pc = "running", NEW records, NEW count, Store(records, count)
  PROVE  EndAsEngineSays
<1>1. \/ \E outcome : /\ outcome.error = None /\ outcome.stage # "raised"
                       /\ End("success", outcome)
      \/ Fail("validation_error", [Unfinished EXCEPT !.stage = "mapping"])
  BY DEF Store, Unfinished
<1>2. LET outcome == [Unfinished EXCEPT !.stage = "mapping"]
      IN  /\ outcome.error = None /\ outcome.stage # "raised"
          /\ DOMAIN outcome = DOMAIN Unfinished
  BY DEF Unfinished
<1> QED
  BY <1>1, <1>2, SuccessEnds, FailureEnds, ErrorsExpected

\* Every step that ends an attempt is one JobEngine provides for.
LEMMA EndsStep == CallsInv /\ RowInv /\ [Next]_vars => [EndAsEngineSays]_vars
<1> SUFFICES ASSUME CallsInv, RowInv, Next PROVE EndAsEngineSays
  OBVIOUS
<1>1. \A stage \in {"inactive", "invalid", "source", "mapping", "target"} :
        LET outcome == [Unfinished EXCEPT !.stage = stage]
        IN  /\ outcome.error = None /\ outcome.stage # "raised"
            /\ DOMAIN outcome = DOMAIN Unfinished
  BY DEF Unfinished
<1>2. CASE FlowInactive \/ ReadInvalid \/ SourceMissing \/ TargetMissing
  <2>1. run.pc = "running"
    BY <1>2 DEF FlowInactive, ReadInvalid, SourceMissing, TargetMissing, Writing, Running
  <2> QED
    BY <1>1, <1>2, <2>1, FailureEnds, ErrorsExpected
    DEF FlowInactive, ReadInvalid, SourceMissing, TargetMissing
<1>3. CASE MappingRaises
  <2>1. /\ run.pc = "running" /\ Resolution(run.flow).kind = "none"
        /\ Fail("mapping_error", [Unfinished EXCEPT !.stage = "mapping"])
    BY <1>3 DEF MappingRaises, Writing, Running
  <2> QED
    BY <1>1, <2>1, FailureEnds, ErrorsExpected
<1>4. CASE Deliver
  <2>1. PICK order : End("success", [Unfinished EXCEPT !.stage = "write",
                                                       !.target = Target(order).target])
    BY <1>4 DEF Deliver
  <2> DEFINE outcome == [Unfinished EXCEPT !.stage = "write", !.target = Target(order).target]
  <2>2. run.pc = "running" /\ outcome.error = None /\ outcome.stage # "raised"
    BY <1>4 DEF Deliver, Writing, Running, Unfinished
  <2> QED
    BY <2>1, <2>2, SuccessEnds
<1>5. CASE ConnectorRaises
  <2>1. /\ run.pc = "running"
        /\ End("failed", [Unfinished EXCEPT !.stage = "raised"])
    BY <1>5 DEF ConnectorRaises, Reading, Running
  <2>2. last'.error = None /\ last'.stage = "raised"
    BY <2>1 DEF End, Unfinished
  <2>3. Engine!Conclude(Worker, "failed")
    BY <2>1, EndConcludes
  <2> QED
    BY <2>1, <2>2, <2>3 DEF EndAsEngineSays, Engine!AttemptRaises
<1>6. CASE MockRead \/ ReadAnswered
  <2>1. run.pc = "running" /\ \E records, count : Store(records, count)
    BY <1>6 DEF MockRead, ReadAnswered, Reading, Running
  <2> QED
    BY <2>1, StoreEndsAsEngine
<1>7. CASE ReadFails
  <2> DEFINE outcome == [Unfinished EXCEPT !.stage = "read", !.answer = client.answer]
  <2>1. /\ run.pc = "running" /\ client.pc = "failed"
        /\ Fail(ErrorOf(client.answer), outcome)
    BY <1>7 DEF ReadFails
  <2>2. /\ outcome.error = None /\ outcome.stage # "raised"
        /\ DOMAIN outcome = DOMAIN Unfinished
    BY DEF Unfinished
  <2>3. Resolution(run.flow).kind # "none" /\ client.answer \in AuthRefusals \cup {"no_credentials"}
    BY <2>1, ClosedOK DEF CallsInv, RowInv, Asks
  <2> HIDE DEF outcome
  <2> QED
    BY <2>1, <2>2, <2>3, FailureEnds, ErrorsExpected
<1>8. CASE Connect \/ Return \/ EndTest
  BY <1>8 DEF Connect, Reading, Running, Return, EndTest, Idle, EndAsEngineSays
<1>9. CASE \/ \E f \in Flows : Submit(f)
           \/ \E edit \in Edits : Edit(edit)
           \/ Begin \/ CallStep \/ (Tick /\ UNCHANGED <<job, run, last>>)
  BY <1>9 DEF Submit, Edit, Begin, CallStep, EndAsEngineSays
<1>10. CASE \E credentials \in {"oauth", "oauth_missing", "legacy", "legacy_missing"},
               readCheck \in ReadChecks : StartTest(credentials, readCheck)
  BY <1>10 DEF StartTest, EndAsEngineSays
<1> QED
  BY <1>2, <1>3, <1>4, <1>5, <1>6, <1>7, <1>8, <1>9, <1>10 DEF Next, AttemptStep

\* JobEngine leaves open how an attempt ends; every end there is here is one it
\* provides for, for any flows, catalog, mappings and answers of the ERP, and for any
\* edits, those that make a flow that writes read and the other way round included.
THEOREM EndsAsEngineSaysHolds == Spec => EndsAsEngineSays
<1>1. Init => RowInv
  BY DEF Init, ClientInit, Closed, Connector, Idle, RowInv, JobFields
<1>2. [EndAsEngineSays]_vars =>
        [run.pc = "running" /\ run'.pc = "committed" =>
           CASE last'.error # None ->
                  last'.error \in KindsOf(run.flow) /\ Engine!AttemptFails(Worker)
             [] last'.stage = "raised" -> Engine!AttemptRaises(Worker)
             [] OTHER -> Engine!AttemptSucceeds(Worker)]_vars
  BY DEF EndAsEngineSays
<1> QED
  BY <1>1, <1>2, CallsInit, CallsStep, RowStep, EndsStep, PTL DEF Spec, EndsAsEngineSays

\* What the retry policy says of an answer.
LEMMA PolicyOfAnswers ==
  \A answer \in AuthRefusals \cup {"no_credentials"} :
    ShouldRetry(answer, ErrorOf(answer)) <=> Retryable(ErrorOf(answer))
BY DEF AuthRefusals, Refusals, ShouldRetry, StatusCodes, Retryable, ErrorOf

\* An answer of the ERP is given another attempt, while there are any left, exactly when
\* the retry policy says it deserves one.
THEOREM RetryAgreesWithPolicyHolds == Spec => []RetryAgreesWithPolicy
<1>1. Init => RowInv /\ RetryAgreesWithPolicy
  BY DEF Init, ClientInit, Closed, Connector, Idle, RowInv, JobFields, RetryAgreesWithPolicy
<1>2. ASSUME RetryAgreesWithPolicy, CallsInv, RowInv, [Next]_vars
      PROVE  RetryAgreesWithPolicy'
  <2> USE <1>2
  <2>1. CASE ReadFails
    <3> DEFINE error == ErrorOf(client.answer)
               outcome == [Unfinished EXCEPT !.stage = "read", !.answer = client.answer]
    <3>1. client.pc = "failed" /\ Fail(error, outcome)
      BY <2>1 DEF ReadFails
    <3>2. last'.answer = client.answer /\ last'.error = error
      BY <3>1 DEF Fail, End, Unfinished
    <3>3. client.answer \in AuthRefusals \cup {"no_credentials"}
      BY <3>1 DEF RowInv
    <3>4. job'.status = FailedStatus(error)
      BY <3>1 DEF Fail, End, RowInv, JobFields
    <3>5. job'.status \in {"retrying", "dead_letter"} <=> Retryable(error)
      BY <3>4 DEF FailedStatus
    <3> HIDE DEF error
    <3> QED
      BY <3>2, <3>3, <3>5, PolicyOfAnswers DEF RetryAgreesWithPolicy, error
  <2>2. CASE Ends /\ ~ReadFails
    BY <2>2, OtherStages DEF RetryAgreesWithPolicy
  <2>3. CASE ~Ends
    BY <2>3, OutcomeKept DEF RetryAgreesWithPolicy, ShouldRetry, Retryable
  <2> QED
    BY <2>1, <2>2, <2>3 DEF Ends
<1> QED
  BY <1>1, <1>2, CallsInit, CallsStep, RowStep, PTL DEF Spec

-----------------------------------------------------------------------------
(* What is stored *)

\* A read that was resolved with a definition stays within it.
LEMMA ReadWithinDefinition ==
  ASSUME NEW flow, Resolution(flow).kind = "read", flow.config.operation \in DOMAIN Catalog
  PROVE  LET d == Catalog[flow.config.operation]
             read == Resolution(flow)
         IN  /\ read.fields \subseteq d.allowed
             /\ read.limit \in 1..d.maxLimit /\ d.maxLimit \in Nat \ {0}
<1> DEFINE operation == flow.config.operation
           d == Catalog[operation]
           read == Resolution(flow)
<1>1. /\ operation # "sankhya_load_records"
      /\ d.maxLimit \in 1..HardLimit
  BY CatalogAssumption DEF WellDefined
<1>2. /\ operation # None
      /\ read = CatalogRead(flow.config, d)
  BY <1>1 DEF Resolution, Resolve, NotARead, Invalid
<1> HIDE DEF operation, d, read
<1>3. read # Invalid
  BY <1>2 DEF read, Invalid
<1>4. WithinDefinition(read, d) /\ read.limit \in 1..HardLimit
  BY <1>2, <1>3 DEF CatalogRead, ReadConfig, Invalid
<1> QED
  BY <1>1, <1>4 DEF WithinDefinition, HardLimit, operation, d, read

\* A read has a limit, catalog or not.
LEMMA ReadLimit ==
  ASSUME NEW flow, Resolution(flow).kind = "read"
  PROVE  Resolution(flow).limit \in Nat \ {0}
<1>1. ASSUME NEW config, NEW entity, Resolve(config, entity).kind = "read"
      PROVE  Resolve(config, entity).limit \in 1..HardLimit
  BY <1>1 DEF Resolve, LoadRecords, CatalogRead, ReadConfig, NotARead, Invalid
<1>2. Resolution(flow) = Resolve(flow.config, flow.sourceEntity)
  BY DEF Resolution, NotARead, Invalid
<1> QED
  BY <1>1, <1>2 DEF HardLimit

\* Storing records keeps them as they are, whatever becomes of the attempt.
LEMMA StoreStores ==
  ASSUME CallsInv, NEW records, NEW count, Store(records, count)
  PROVE  /\ run'.flow = run.flow
         /\ last'.stage = "read" => last'.records = records
<1>1. \/ Fail("validation_error", [Unfinished EXCEPT !.stage = "mapping"])
      \/ End("success", [Unfinished EXCEPT !.stage = "read", !.records = records,
                                           !.count = count])
  BY DEF Store
<1>2. run'.flow = run.flow
  BY <1>1, EndKeepsFlow DEF Fail
<1>3. /\ [Unfinished EXCEPT !.stage = "mapping", !.error = "validation_error"].stage = "mapping"
      /\ [Unfinished EXCEPT !.stage = "read", !.records = records,
                             !.count = count].records = records
  BY DEF Unfinished
<1> QED
  BY <1>1, <1>2, <1>3 DEF Fail, End, Unfinished

\* What a read stores respects its catalog entry, for any catalog, flows and edits and
\* whatever the ERP sends.
THEOREM StoredWithinCatalogHolds == Spec => []StoredWithinCatalog
<1>1. Init => StoredWithinCatalog
  BY DEF Init, Idle, StoredWithinCatalog
<1>2. ASSUME StoredWithinCatalog, CallsInv, [Next]_vars PROVE StoredWithinCatalog'
  <2> USE <1>2
  <2> DEFINE read == TheRead
             d == Catalog[run.flow.config.operation]
  <2>1. ASSUME read.kind = "read", run'.flow = run.flow, NEW records,
               DOMAIN records \subseteq 1..read.limit,
               \A i \in DOMAIN records : DOMAIN records[i] \subseteq read.fields,
               last'.stage = "read" => last'.records = records
        PROVE  StoredWithinCatalog'
    <3> SUFFICES ASSUME last'.stage = "read", run.flow.config.operation \in DOMAIN Catalog
                 PROVE  /\ DOMAIN records \subseteq 1..d.maxLimit
                        /\ \A i \in DOMAIN records : DOMAIN records[i] \subseteq d.allowed
      BY <2>1 DEF StoredWithinCatalog
    <3>1. /\ read.fields \subseteq d.allowed
          /\ read.limit \in 1..d.maxLimit /\ d.maxLimit \in Nat
      BY <2>1, ReadWithinDefinition DEF TheRead
    <3> QED
      BY <2>1, <3>1
  <2>2. CASE MockRead
    <3> DEFINE record == [f \in read.fields |-> "word"]
    <3>1. read.kind = "read" /\ Store(<<record>>, 1)
      BY <2>2 DEF MockRead, Reading
    <3>2. /\ DOMAIN <<record>> = 1..1 /\ <<record>>[1] = record
          /\ DOMAIN record = read.fields
      OBVIOUS
    <3>3. read.limit \in Nat \ {0}
      BY <3>1, ReadLimit DEF TheRead
    <3> HIDE DEF record, read
    <3>4. /\ DOMAIN <<record>> \subseteq 1..read.limit
          /\ \A i \in DOMAIN <<record>> : DOMAIN <<record>>[i] \subseteq read.fields
      BY <3>2, <3>3
    <3> QED
      BY <2>1, <3>1, <3>4, StoreStores
  <2>3. CASE ReadAnswered
    <3> DEFINE records == Normalized(client.body, read.fields, read.limit)
    <3>1. run.pc = "running" /\ client.pc = "done" /\ Store(records, CountRecords(client.body))
      BY <2>3 DEF ReadAnswered
    <3>2. read.kind = "read"
      BY <3>1, ClosedOK DEF CallsInv, Asks, TheRead
    <3>3. /\ DOMAIN records \subseteq 1..read.limit
          /\ \A i \in DOMAIN records : DOMAIN records[i] \subseteq read.fields
      BY DEF Normalized
    <3> HIDE DEF records
    <3> QED
      BY <2>1, <3>1, <3>2, <3>3, StoreStores
  <2>4. CASE Ends /\ ~MockRead /\ ~ReadAnswered
    <3>1. last'.stage = "read" => last'.records = <<>>
      <4>1. CASE ReadFails
        BY <4>1 DEF ReadFails, Fail, End, Unfinished
      <4>2. CASE Deliver
        BY <4>2 DEF Deliver, End, Unfinished
      <4>3. CASE FlowInactive \/ ReadInvalid \/ ConnectorRaises
        BY <4>3 DEF FlowInactive, ReadInvalid, ConnectorRaises, Fail, End, Unfinished
      <4>4. CASE SourceMissing \/ MappingRaises \/ TargetMissing
        BY <4>4 DEF SourceMissing, MappingRaises, TargetMissing, Fail, End, Unfinished
      <4> QED
        BY <2>4, <4>1, <4>2, <4>3, <4>4 DEF Ends
    <3>2. DOMAIN <<>> = {}
      OBVIOUS
    <3> QED
      BY <3>1, <3>2 DEF StoredWithinCatalog
  <2>5. CASE ~Ends
    BY <2>5, OutcomeKept DEF StoredWithinCatalog
  <2> QED
    BY <2>2, <2>3, <2>4, <2>5
<1> QED
  BY <1>1, <1>2, CallsInit, CallsStep, PTL DEF Spec

-----------------------------------------------------------------------------
(* Types *)

Statuses == {"absent", "pending", "retrying", "success", "failed", "dead_letter"}

CountsTyped(c) ==
  /\ c.auths \in 0..MaxCalls /\ c.loads \in 0..MaxCalls
  /\ c.answer \in AuthRefusals \cup {"no_credentials", None}

\* A job that may be attempted again has an attempt left.
TypeInv ==
  /\ clock \in 0..MaxClock /\ CountsTyped(client)
  /\ job.flow \in Flows \cup {None} /\ job.status \in Statuses
  /\ job.attempts \in 0..MaxAttempts
  /\ job.status \in Started => job.attempts < MaxAttempts
  /\ last.error \in ErrorTypes \cup {None}

\* A new connector has counted nothing and failed at nothing.
LEMMA NewTyped ==
  \A credentials, plan : CountsTyped(Connector(credentials, plan)) /\ CountsTyped(Closed)
BY BoundsAssumption DEF CountsTyped, Connector, Closed

\* No step of a connector counts beyond the bound, or fails in a way that is unknown.
LEMMA ClientStepTyped ==
  ASSUME IsConnector(client), CountsTyped(client), ClientStep
  PROVE  CountsTyped(client') /\ UNCHANGED clock
<1> DEFINE Same(c) == /\ IsConnector(c) /\ c.auths = client.auths
                      /\ c.loads = client.loads /\ c.answer = client.answer
<1>0. UNCHANGED clock
  BY DEF ClientStep, AuthenticateFromCache, AuthenticateLegacy, CredentialsMissing,
         RequestToken, RequestRecords, TokenRefused, TokenIssued, RecordsRefused,
         RecordsReceived
<1>1. ASSUME NEW c, Same(c), client' = Advanced(c)
      PROVE  CountsTyped(client')
  <2>1. /\ Advanced(c).auths = c.auths /\ Advanced(c).loads = c.loads
        /\ Advanced(c).answer = c.answer
    BY <1>1 DEF Advanced, IsConnector, ConnectorFields
  <2> QED
    BY <1>1, <2>1 DEF CountsTyped
<1>2. ASSUME NEW answer \in AuthRefusals \cup {"no_credentials"},
             client' = Failed(client, answer)
      PROVE  CountsTyped(client')
  <2>1. /\ client'.auths = client.auths /\ client'.loads = client.loads
        /\ client'.answer = answer
    BY <1>2 DEF Failed, IsConnector, ConnectorFields
  <2> QED
    BY <2>1 DEF CountsTyped
<1>3. \A calls \in 0..MaxCalls : Count(calls) \in 0..MaxCalls
  BY BoundsAssumption DEF Count
<1>4. CASE RequestToken \/ RequestRecords
  <2>1. /\ client'.auths \in {client.auths, Count(client.auths)}
        /\ client'.loads \in {client.loads, Count(client.loads)}
        /\ client'.answer = client.answer
    BY <1>4 DEF RequestToken, RequestRecords, IsConnector, ConnectorFields
  <2> QED
    BY <1>0, <1>3, <2>1 DEF CountsTyped
<1>5. CASE \/ CredentialsMissing
           \/ \E answer \in AuthRefusals : TokenRefused(answer)
           \/ \E answer \in Refusals : RecordsRefused(answer)
  BY <1>2, <1>5 DEF CredentialsMissing, TokenRefused, RecordsRefused, AuthRefusals
<1>6. CASE AuthenticateFromCache
  <2>1. Same([client EXCEPT !.checked = clock])
    BY DEF IsConnector, ConnectorFields
  <2> QED
    BY <1>1, <1>6, <2>1 DEF AuthenticateFromCache
<1>7. ASSUME NEW token, client' = Advanced([client EXCEPT !.checked = clock, !.token = token])
      PROVE  CountsTyped(client')
  <2>1. Same([client EXCEPT !.checked = clock, !.token = token])
    BY DEF IsConnector, ConnectorFields
  <2> QED
    BY <1>1, <1>7, <2>1
<1>8. CASE AuthenticateLegacy \/ \E lifetime \in Lifetimes : TokenIssued(lifetime)
  BY <1>7, <1>8 DEF AuthenticateLegacy, TokenIssued
<1>9. CASE \E body \in Responses : RecordsReceived(body)
  <2>1. \A body : Same([client EXCEPT !.body = body])
    BY DEF IsConnector, ConnectorFields
  <2> QED
    BY <1>1, <1>9, <2>1 DEF RecordsReceived
<1> QED
  BY <1>0, <1>4, <1>5, <1>6, <1>8, <1>9 DEF ClientStep

\* An attempt ends in a status that the policy or its success gives, and with an error
\* type, if any.
LEMMA EndsTyped ==
  ASSUME CallsInv, RowInv, Ends
  PROVE  \E status, outcome :
           /\ End(status, outcome)
           /\ \/ status \in {"success", "failed"}
              \/ \E error : status = FailedStatus(error)
           /\ outcome.error \in ErrorTypes \cup {None}
<1> DEFINE Typed == \E status, outcome :
             /\ End(status, outcome)
             /\ \/ status \in {"success", "failed"}
                \/ \E error : status = FailedStatus(error)
             /\ outcome.error \in ErrorTypes \cup {None}
<1>1. ASSUME NEW error \in ErrorTypes, NEW outcome, DOMAIN outcome = DOMAIN Unfinished,
             Fail(error, outcome)
      PROVE  Typed
  <2>1. [outcome EXCEPT !.error = error].error = error
    BY <1>1 DEF Unfinished
  <2> QED
    BY <1>1, <2>1 DEF Fail
<1>2. ASSUME NEW stage, NEW error \in ErrorTypes, Fail(error, [Unfinished EXCEPT !.stage = stage])
      PROVE  Typed
  <2>1. DOMAIN [Unfinished EXCEPT !.stage = stage] = DOMAIN Unfinished
    BY DEF Unfinished
  <2> QED
    BY <1>1, <1>2, <2>1
<1>3. /\ "business_rule_error" \in ErrorTypes /\ "validation_error" \in ErrorTypes
      /\ "mapping_error" \in ErrorTypes
  BY DEF ErrorTypes
<1>4. CASE FlowInactive \/ ReadInvalid \/ SourceMissing \/ MappingRaises \/ TargetMissing
  BY <1>2, <1>3, <1>4 DEF FlowInactive, ReadInvalid, SourceMissing, MappingRaises, TargetMissing
<1>5. CASE Deliver
  <2>1. PICK order : End("success", [Unfinished EXCEPT !.stage = "write",
                                                       !.target = Target(order).target])
    BY <1>5 DEF Deliver
  <2>2. [Unfinished EXCEPT !.stage = "write", !.target = Target(order).target].error = None
    BY DEF Unfinished
  <2> QED
    BY <2>1, <2>2
<1>6. CASE ConnectorRaises
  <2>1. [Unfinished EXCEPT !.stage = "raised"].error = None
    BY DEF Unfinished
  <2> QED
    BY <1>6, <2>1 DEF ConnectorRaises
<1>7. CASE MockRead \/ ReadAnswered
  <2>1. PICK records, count : Store(records, count)
    BY <1>7 DEF MockRead, ReadAnswered
  <2>2. [Unfinished EXCEPT !.stage = "read", !.records = records, !.count = count].error = None
    BY DEF Unfinished
  <2> QED
    BY <1>2, <1>3, <2>1, <2>2 DEF Store
<1>8. CASE ReadFails
  <2> DEFINE outcome == [Unfinished EXCEPT !.stage = "read", !.answer = client.answer]
  <2>1. Fail(ErrorOf(client.answer), outcome) /\ client.pc = "failed"
    BY <1>8 DEF ReadFails
  <2>2. client.answer \in AuthRefusals \cup {"no_credentials"}
    BY <2>1 DEF RowInv
  <2>3. ErrorOf(client.answer) \in ErrorTypes
    BY <2>2 DEF AuthRefusals, Refusals, ErrorOf, ErrorTypes
  <2>4. DOMAIN outcome = DOMAIN Unfinished
    BY DEF Unfinished
  <2> HIDE DEF outcome
  <2> QED
    BY <1>1, <2>1, <2>3, <2>4
<1> QED
  BY <1>4, <1>5, <1>6, <1>7, <1>8 DEF Ends

\* Every step keeps the types, and an attempt in hand for a job that may go on.
LEMMA TypeStep == CallsInv /\ FlowInv /\ RowInv /\ TypeInv /\ [Next]_vars => TypeInv'
<1> SUFFICES ASSUME CallsInv, FlowInv, RowInv, TypeInv, [Next]_vars PROVE TypeInv'
  OBVIOUS
<1>1. CASE \E f \in Flows : Submit(f)
  BY <1>1, MaxAttemptsAssumption DEF Submit, TypeInv, Statuses
<1>2. ASSUME NEW edit \in Edits, Edit(edit) PROVE TypeInv'
  <2>1. /\ job'.flow \in Flows /\ job'.status = job.status /\ job'.attempts = job.attempts
    BY <1>2, EditsAssumption DEF Edit, RowInv, JobFields
  <2> QED
    BY <1>2, <2>1 DEF Edit, TypeInv
<1>3. CASE \E credentials \in {"oauth", "oauth_missing", "legacy", "legacy_missing"},
              readCheck \in ReadChecks : StartTest(credentials, readCheck)
  BY <1>3, NewTyped DEF StartTest, TypeInv
<1>4. CASE Begin
  BY <1>4 DEF Begin, TypeInv
<1>5. CASE Ends
  <2>1. PICK status, outcome :
          /\ End(status, outcome)
          /\ \/ status \in {"success", "failed"}
             \/ \E error : status = FailedStatus(error)
          /\ outcome.error \in ErrorTypes \cup {None}
    BY <1>5, EndsTyped
  <2>2. job.attempts < MaxAttempts
    BY <1>5, EndsEnd DEF RowInv, TypeInv
  <2>3. /\ job'.status = status /\ job'.attempts = job.attempts + 1 /\ job'.flow = job.flow
    BY <2>1 DEF End, RowInv, JobFields
  <2>4. status \in Statuses /\ (status \in Started => job.attempts + 1 < MaxAttempts)
    BY <2>1 DEF FailedStatus, Statuses, Started
  <2>5. last' = outcome /\ client' = Closed /\ clock' = 0
    BY <2>1 DEF End
  <2> QED
    BY <2>1, <2>2, <2>3, <2>4, <2>5, NewTyped, MaxAttemptsAssumption, BoundsAssumption
    DEF TypeInv
<1>6. CASE Connect
  BY <1>6, NewTyped DEF Connect, TypeInv
<1>7. CASE Return
  BY <1>7 DEF Return, Unfinished, TypeInv
<1>8. CASE EndTest
  BY <1>8, NewTyped, BoundsAssumption DEF EndTest, TypeInv
<1>9. CASE CallStep
  BY <1>9, ClientStepTyped DEF CallStep, CallsInv, ConnectorOK, TypeInv
<1>10. CASE Tick /\ UNCHANGED <<job, run, last>>
  BY <1>10, BoundsAssumption DEF Tick, TypeInv
<1>11. CASE UNCHANGED vars
  BY <1>11 DEF vars, TypeInv
<1> QED
  BY <1>1, <1>2, <1>3, <1>4, <1>5, <1>6, <1>7, <1>8, <1>9, <1>10, <1>11
  DEF Next, AttemptStep, Ends

\* Every variable has its type; with it, an attempt ends in a status and an error type
\* the tables know, and no job is attempted more often than max_attempts.
THEOREM AttemptTypesHold == Spec => []TypeOK
<1>1. Init => FlowInv /\ RowInv /\ TypeInv
  BY NewTyped, MaxAttemptsAssumption, BoundsAssumption
  DEF Init, ClientInit, Idle, Unfinished, FlowInv, RowInv, JobFields, TypeInv, Statuses,
      Started, Closed, Connector
<1>2. CallsInv /\ TypeInv => TypeOK
  <2>1. Plans = {<<>>, <<"authenticate">>, <<"load">>, Read, Test(TRUE)}
    BY TestPlans DEF Plans
  <2> QED
    BY <2>1 DEF CallsInv, ConnectorOK, TypeInv, CountsTyped, Statuses, TypeOK
<1> QED
  BY <1>1, <1>2, CallsInit, CallsStep, FlowStep, RowStep, TypeStep, PTL DEF Spec

=============================================================================
