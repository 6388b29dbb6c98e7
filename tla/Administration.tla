--------------------------- MODULE Administration ---------------------------
(***************************************************************************)
(* The registry of tenants, connections, flows and mappings that the       *)
(* administration endpoints keep in PostgreSQL, and the jobs that refer to *)
(* it.  Every handler reads and checks in one step and commits in a later  *)
(* one; the database runs READ COMMITTED, enforces the foreign keys the    *)
(* tables declare, and sees only the columns SQLAlchemy found changed.     *)
(* How an attempt is retried, cancelled or delivered again is JobEngine's  *)
(* subject: here a job is attempted once, on the flow as it is by then.    *)
(***************************************************************************)
EXTENDS Naturals, FiniteSets

CONSTANTS
  Tenants,        \* tenant ids; the client of POST /connections names its own
  Connections, Flows, Mappings, Jobs,  \* ids drawn by the server, used once
  Threads,        \* API threads that serve requests
  Workers,        \* worker processes that execute jobs
  TenantOf,       \* the tenant named by the payload of each new connection
  EnvironmentOf,  \* and its environment: no endpoint changes either
  Entities,       \* values of source_entity
  Configs,        \* config_json values: read operations of an entity in a mode
  NewFlows,       \* payloads of POST /flows
  Patches,        \* payloads of PATCH /flows/{id}: the columns they set
  Clients         \* what the clients of one behaviour may do: the kinds of
                  \*   requests they send, how many at once, and the
                  \*   connections they create

NoConfig == [mode |-> "none", entity |-> "none"]

ASSUME ConfigsAssumption ==
  /\ NoConfig \in Configs
  /\ Configs \ {NoConfig} \subseteq [mode : {"mock", "real"}, entity : Entities]
ASSUME PayloadAssumption ==
  /\ TenantOf \in [Connections -> Tenants]
  /\ EnvironmentOf \in [Connections -> {"sandbox", "production"}]
ASSUME ClientsAssumption ==
  \A mix \in Clients : mix.connections \subseteq Connections /\ mix.atOnce \in Nat
ASSUME AdminActorsAssumption == Workers \cap Threads = {}

VARIABLES
  tenants, connections, flows, mappings, jobs,   \* the tables, row by id
  failed,      \* tenants and flows that rows of integration_errors refer to
  clients,     \* the member of Clients this behaviour is about
  act,         \* what each API thread and each worker is doing
  latestTest,  \* ghost: outcome of each connection's newest test that committed, and
               \*   of those that committed since that one loaded the row
  meanwhile,   \* ghost: outcomes committed since the test of a thread loaded the row
  erpReads     \* ghost: connections an execution read the ERP through for real

tables == <<tenants, connections, flows, mappings, jobs, failed>>
tests == <<latestTest, meanwhile>>
vars == <<tables, clients, act, tests, erpReads>>

-----------------------------------------------------------------------------
(* Rows *)

Absent == [row |-> "absent"]   \* no row yet
Gone == [row |-> "gone"]       \* the row was deleted
Present(r) == r \notin {Absent, Gone}

TenantRow(status) == [status |-> status, active |-> status = "active"]
TenantRows == [status : {"active", "inactive"}, active : BOOLEAN]
ConnectionRow(status, test) == [status |-> status, last_test_status |-> test]
ConnectionRows == [status : {"inactive", "active", "error"},
                   last_test_status : {"none", "success", "failed"}]
FlowRows == [tenant_id : Tenants, source : Connections, target : Connections,
             source_entity : Entities, config : Configs, active : BOOLEAN]
MappingRows == [flow_id : Flows, active : BOOLEAN]
\* "stranded": the row says pending, its message has been consumed, and nothing
\* tells of the attempt.
JobRows == [flow_id : Flows, tenant_id : Tenants, status : {"pending", "stranded", "done"}]

\* POST /flows names every column, PATCH any but tenant_id.
ASSUME FlowPayloadsAssumption ==
  /\ NewFlows \subseteq FlowRows
  /\ \A patch \in Patches :
       \E row \in FlowRows : /\ DOMAIN patch \subseteq DOMAIN row \ {"tenant_id"}
                            /\ \A column \in DOMAIN patch : patch[column] = row[column]

\* The UPDATE a session issues at commit: the columns it changed, and no other.
Merge(current, loaded, new) ==
  [c \in DOMAIN current |-> IF new[c] # loaded[c] THEN new[c] ELSE current[c]]

\* A row with the columns of a PATCH set, and those of them that this changes.
Patched(row, patch) == [c \in DOMAIN row |-> IF c \in DOMAIN patch THEN patch[c] ELSE row[c]]
Changed(row, patch) == [c \in {d \in DOMAIN patch : patch[d] # row[d]} |-> patch[c]]

\* The foreign keys on a tenant, and those of a flow and of a mapping.
TenantThere(t) == Present(tenants[t])
FlowInsertable(f) ==
  /\ TenantThere(f.tenant_id)
  /\ Present(connections[f.source]) /\ Present(connections[f.target])

Actors == Threads \cup Workers
Idle == [pc |-> "idle"]
Free(a) ==
  /\ act[a] = Idle
  /\ a \in Threads => Cardinality({h \in Threads : act[h] # Idle}) < clients.atOnce
Begin(a, doing) == Free(a) /\ act' = [act EXCEPT ![a] = doing]
Leave(a) == act' = [act EXCEPT ![a] = Idle]

Init ==
  /\ clients \in Clients
  /\ tenants = [t \in Tenants |-> Absent]
  /\ connections = [c \in Connections |-> Absent]
  /\ flows = [f \in Flows |-> Absent]
  /\ mappings = [m \in Mappings |-> Absent]
  /\ jobs = [j \in Jobs |-> Absent]
  /\ failed = {}
  /\ act = [a \in Actors |-> Idle]
  /\ latestTest = [c \in Connections |-> {}]
  /\ meanwhile = [h \in Threads |-> {}]
  /\ erpReads = {}

-----------------------------------------------------------------------------
(* /tenants *)

CreateTenant(h) ==
  /\ "create_tenant" \in clients.requests
  /\ Free(h)
  /\ \E t \in Tenants, status \in {"active", "inactive"} :
       /\ tenants[t] = Absent
       /\ \A g \in Threads : act[g].pc = "create_connection" => TenantOf[act[g].id] # t
       /\ tenants' = [tenants EXCEPT ![t] = TenantRow(status)]
  /\ UNCHANGED <<connections, flows, mappings, jobs, failed, act, tests, erpReads, clients>>

PatchTenant(h, t) ==
  /\ "patch_tenant" \in clients.requests
  /\ TenantThere(t)
  /\ \E status \in {"active", "inactive"} :
       Begin(h, [pc |-> "patch_tenant", id |-> t, seen |-> tenants[t],
                 new |-> TenantRow(status)])
  /\ UNCHANGED <<tables, tests, erpReads, clients>>

\* Mutant of PatchTenantCommit: the active flag is left as it is.
PatchTenantCommitStatus(h) ==
  /\ act[h].pc = "patch_tenant"
  /\ IF TenantThere(act[h].id)
       THEN tenants' = [tenants EXCEPT ![act[h].id].status = act[h].new.status]
       ELSE UNCHANGED tenants
  /\ Leave(h)
  /\ UNCHANGED <<connections, flows, mappings, jobs, failed, tests, erpReads, clients>>

\* An UPDATE that matches no row raises, and the request answers 500.
PatchTenantCommit(h) ==
  /\ act[h].pc = "patch_tenant"
  /\ IF TenantThere(act[h].id)
       THEN tenants' = [tenants EXCEPT ![act[h].id] = Merge(@, act[h].seen, act[h].new)]
       ELSE UNCHANGED tenants
  /\ Leave(h)
  /\ UNCHANGED <<connections, flows, mappings, jobs, failed, tests, erpReads, clients>>

ConnectionsOf(t) == {c \in Connections : Present(connections[c]) /\ TenantOf[c] = t}
FlowsOf(t) == {f \in Flows : Present(flows[f]) /\ flows[f].tenant_id = t}
JobsOf(t) == {j \in Jobs : Present(jobs[j]) /\ jobs[j].tenant_id = t}

\* A tenant with connections, flows, jobs or logs is refused with 409 (a log
\* belongs to a connection or a job that is counted as well).
DeleteTenantCount(h, t) ==
  /\ "delete_tenant" \in clients.requests
  /\ TenantThere(t)
  /\ ConnectionsOf(t) = {} /\ FlowsOf(t) = {} /\ JobsOf(t) = {}
  /\ Begin(h, [pc |-> "delete_tenant", id |-> t])
  /\ UNCHANGED <<tables, tests, erpReads, clients>>

\* db.delete collects the tenant's connections, jobs and logs and deletes them
\* with it.  A flow (its tenant_id would become NULL) or an integration error
\* makes the commit fail; so does a row that arrives after the collection,
\* which AbandonRequest covers.
DeleteTenantCommit(h) ==
  /\ act[h].pc = "delete_tenant"
  /\ LET t == act[h].id IN
       IF TenantThere(t) /\ FlowsOf(t) = {} /\ t \notin failed
         THEN /\ tenants' = [tenants EXCEPT ![t] = Gone]
              /\ connections' = [c \in Connections |->
                                   IF c \in ConnectionsOf(t) THEN Gone ELSE connections[c]]
              /\ jobs' = [j \in Jobs |-> IF j \in JobsOf(t) THEN Gone ELSE jobs[j]]
         ELSE UNCHANGED <<tenants, connections, jobs>>
  /\ Leave(h)
  /\ UNCHANGED <<flows, mappings, failed, tests, erpReads, clients>>

-----------------------------------------------------------------------------
(* /connections *)

\* _ensure_tenant looks the tenant up.
CreateConnection(h, c) ==
  /\ "create_connection" \in clients.requests
  /\ connections[c] = Absent /\ c \in clients.connections
  /\ \A g \in Threads : act[g].pc = "create_connection" => act[g].id # c
  /\ Begin(h, [pc |-> "create_connection", id |-> c, found |-> TenantThere(TenantOf[c])])
  /\ UNCHANGED <<tables, tests, erpReads, clients>>

\* The tenant that was missing is inserted with the connection.  The primary key
\* refuses it if it exists by now, the foreign key if a found one is gone: 500.
CreateConnectionCommit(h) ==
  /\ act[h].pc = "create_connection"
  /\ LET c == act[h].id IN
       IF act[h].found = TenantThere(TenantOf[c])
         THEN /\ connections' = [connections EXCEPT ![c] = ConnectionRow("inactive", "none")]
              /\ IF act[h].found THEN UNCHANGED tenants
                 ELSE tenants' = [tenants EXCEPT ![TenantOf[c]] = TenantRow("active")]
         ELSE UNCHANGED <<tenants, connections>>
  /\ Leave(h)
  /\ UNCHANGED <<flows, mappings, jobs, failed, tests, erpReads, clients>>

TestConnection(h, c) ==
  /\ "test_connection" \in clients.requests
  /\ Present(connections[c])
  /\ Begin(h, [pc |-> "test_connection", id |-> c, seen |-> connections[c]])
  /\ UNCHANGED <<tables, tests, erpReads, clients>>

\* Mutants of Tested: a failed test keeps the connection active, and an outcome
\* is written to the wrong column.
TestedSticky(outcome) ==
  ConnectionRow("active", outcome)
TestedMisplaced(outcome) ==
  ConnectionRow(outcome, outcome)

Tested(outcome) ==
  IF outcome = "success" THEN ConnectionRow("active", "success") ELSE ConnectionRow("error", "failed")

\* Other tests of the connection, which loaded its row and have not committed yet.
Rivals(h) == {g \in Threads \ {h} : act[g].pc = "test_connection" /\ act[g].id = act[h].id}

\* After the remote call the outcome is written over the row as loaded before
\* it, with a log, and with an integration error if it failed.
TestConnectionCommit(h) ==
  /\ act[h].pc = "test_connection"
  /\ \E outcome \in {"success", "failed"} :
       LET c == act[h].id IN
         IF Present(connections[c])
           THEN /\ connections' =
                     [connections EXCEPT ![c] = Merge(@, act[h].seen, Tested(outcome))]
                /\ failed' = IF outcome = "failed" THEN failed \cup {TenantOf[c]} ELSE failed
                /\ latestTest' = [latestTest EXCEPT ![c] = {outcome} \cup meanwhile[h]]
                /\ meanwhile' = [g \in Threads |->
                                    IF g = h THEN {}
                                    ELSE IF g \in Rivals(h) THEN meanwhile[g] \cup {outcome}
                                    ELSE meanwhile[g]]
           ELSE /\ meanwhile' = [meanwhile EXCEPT ![h] = {}]
                /\ UNCHANGED <<connections, failed, latestTest>>
  /\ Leave(h)
  /\ UNCHANGED <<tenants, flows, mappings, jobs, erpReads, clients>>

-----------------------------------------------------------------------------
(* /flows *)

\* A stored config names an operation on source_entity, and a real read is for
\* the sandbox (resolve_read_operation_request, validate_catalog_read_operation).
ValidConfig(config, entity, environment) ==
  config # NoConfig =>
    /\ config.entity = entity
    /\ config.mode = "real" => environment = "sandbox"

\* Mutant of WithinTenant: the target is not looked at.
SourceWithinTenant(f) ==
  /\ Present(connections[f.source]) /\ Present(connections[f.target])
  /\ TenantOf[f.source] = f.tenant_id

WithinTenant(f) ==
  /\ Present(connections[f.source]) /\ Present(connections[f.target])
  /\ TenantOf[f.source] = f.tenant_id /\ TenantOf[f.target] = f.tenant_id

CreateFlow(h, f) ==
  /\ "create_flow" \in clients.requests
  /\ flows[f] = Absent
  /\ \A g \in Threads : act[g].pc = "create_flow" => act[g].id # f
  /\ \E new \in NewFlows :
       /\ TenantThere(new.tenant_id) /\ WithinTenant(new)
       /\ ValidConfig(new.config, new.source_entity, EnvironmentOf[new.source])
       /\ Begin(h, [pc |-> "create_flow", id |-> f, new |-> new])
  /\ UNCHANGED <<tables, tests, erpReads, clients>>

CreateFlowCommit(h) ==
  /\ act[h].pc = "create_flow"
  /\ flows' = IF FlowInsertable(act[h].new) THEN [flows EXCEPT ![act[h].id] = act[h].new] ELSE flows
  /\ Leave(h)
  /\ UNCHANGED <<tenants, connections, mappings, jobs, failed, tests, erpReads, clients>>

\* A PATCH is validated against the row as loaded: the connections if it names
\* one, the config only if the PATCH carries one.
PatchFlow(h, f) ==
  /\ "patch_flow" \in clients.requests
  /\ Present(flows[f])
  /\ \E patch \in Patches :
       LET new == Patched(flows[f], patch) IN
         /\ DOMAIN patch \cap {"source", "target"} # {} => WithinTenant(new)
         /\ "config" \in DOMAIN patch =>
              ValidConfig(new.config, new.source_entity, EnvironmentOf[new.source])
         /\ Begin(h, [pc |-> "patch_flow", id |-> f, changes |-> Changed(flows[f], patch)])
  /\ UNCHANGED <<tables, tests, erpReads, clients>>

\* What this PATCH changes, over what others have done since.  The foreign keys
\* are checked, and a row that is gone answers 500.
PatchFlowCommit(h) ==
  /\ act[h].pc = "patch_flow"
  /\ LET f == act[h].id
         merged == Patched(flows[f], act[h].changes) IN
       flows' = IF Present(flows[f]) /\ FlowInsertable(merged)
                  THEN [flows EXCEPT ![f] = merged] ELSE flows
  /\ Leave(h)
  /\ UNCHANGED <<tenants, connections, mappings, jobs, failed, tests, erpReads, clients>>

MappingsOf(f) == {m \in Mappings : Present(mappings[m]) /\ mappings[m].flow_id = f}
RunsOf(f) == {j \in Jobs : Present(jobs[j]) /\ jobs[j].flow_id = f}

\* A flow with mappings or jobs is refused with 409.
DeleteFlowCount(h, f) ==
  /\ "delete_flow" \in clients.requests
  /\ Present(flows[f])
  /\ MappingsOf(f) = {} /\ RunsOf(f) = {}
  /\ Begin(h, [pc |-> "delete_flow", id |-> f])
  /\ UNCHANGED <<tables, tests, erpReads, clients>>

\* Mutant of DeleteFlowCommit: the mappings are left behind.
DeleteFlowCommitAlone(h) ==
  /\ act[h].pc = "delete_flow"
  /\ flows' = [flows EXCEPT ![act[h].id] = Gone]
  /\ Leave(h)
  /\ UNCHANGED <<tenants, connections, mappings, jobs, failed, tests, erpReads, clients>>

\* The mappings there are by now go with it; the jobs do not, and no foreign
\* key ties sync_jobs.flow_id to the flow.  An integration error of it does: its
\* commit fails.
DeleteFlowCommit(h) ==
  /\ act[h].pc = "delete_flow"
  /\ LET f == act[h].id IN
       IF f \notin failed
         THEN /\ flows' = [flows EXCEPT ![f] = Gone]
              /\ mappings' = [m \in Mappings |->
                                IF m \in MappingsOf(f) THEN Gone ELSE mappings[m]]
         ELSE UNCHANGED <<flows, mappings>>
  /\ Leave(h)
  /\ UNCHANGED <<tenants, connections, jobs, failed, tests, erpReads, clients>>

-----------------------------------------------------------------------------
(* /flows/{flow_id}/mappings and /mappings *)

CreateMapping(h, m) ==
  /\ "create_mapping" \in clients.requests
  /\ mappings[m] = Absent
  /\ \A g \in Threads : act[g].pc = "create_mapping" => act[g].id # m
  /\ \E f \in Flows, active \in BOOLEAN :
       /\ Present(flows[f])
       /\ Begin(h, [pc |-> "create_mapping", id |-> m,
                    new |-> [flow_id |-> f, active |-> active]])
  /\ UNCHANGED <<tables, tests, erpReads, clients>>

\* The foreign key refuses a mapping whose flow is gone.
CreateMappingCommit(h) ==
  /\ act[h].pc = "create_mapping"
  /\ mappings' = IF Present(flows[act[h].new.flow_id])
                   THEN [mappings EXCEPT ![act[h].id] = act[h].new] ELSE mappings
  /\ Leave(h)
  /\ UNCHANGED <<tenants, connections, flows, jobs, failed, tests, erpReads, clients>>

PatchMapping(h, m) ==
  /\ "patch_mapping" \in clients.requests
  /\ Present(mappings[m])
  /\ \E active \in BOOLEAN :
       Begin(h, [pc |-> "patch_mapping", id |-> m, seen |-> mappings[m],
                 new |-> [mappings[m] EXCEPT !.active = active]])
  /\ UNCHANGED <<tables, tests, erpReads, clients>>

\* Mutant of PatchMappingCommit: the row is written whether it is there or not.
PatchMappingCommitUpsert(h) ==
  /\ act[h].pc = "patch_mapping"
  /\ mappings' = [mappings EXCEPT ![act[h].id] = act[h].new]
  /\ Leave(h)
  /\ UNCHANGED <<tenants, connections, flows, jobs, failed, tests, erpReads, clients>>

PatchMappingCommit(h) ==
  /\ act[h].pc = "patch_mapping"
  /\ LET m == act[h].id IN
       mappings' = IF Present(mappings[m])
                     THEN [mappings EXCEPT ![m] = Merge(@, act[h].seen, act[h].new)]
                     ELSE mappings
  /\ Leave(h)
  /\ UNCHANGED <<tenants, connections, flows, jobs, failed, tests, erpReads, clients>>

\* One step: it reads nothing but that the row is there, and a DELETE that
\* matches no row is no error.
DeleteMapping(h, m) ==
  /\ "delete_mapping" \in clients.requests
  /\ Free(h)
  /\ Present(mappings[m])
  /\ mappings' = [mappings EXCEPT ![m] = Gone]
  /\ UNCHANGED <<tenants, connections, flows, jobs, failed, act, tests, erpReads, clients>>

-----------------------------------------------------------------------------
(* POST /flows/{flow_id}/run, and the execution of the job *)

\* prepare_flow_job resolves the stored config: a flow that PATCHes have made
\* unrunnable answers 400 here.
RunFlow(h, f, j) ==
  /\ "run_flow" \in clients.requests
  /\ jobs[j] = Absent
  /\ \A g \in Threads : act[g].pc = "run_flow" => act[g].id # j
  /\ Present(flows[f])
  /\ ValidConfig(flows[f].config, flows[f].source_entity, EnvironmentOf[flows[f].source])
  /\ Begin(h, [pc |-> "run_flow", id |-> j,
               new |-> [flow_id |-> f, tenant_id |-> flows[f].tenant_id, status |-> "pending"]])
  /\ UNCHANGED <<tables, tests, erpReads, clients>>

\* sync_jobs refers to its tenant, not to its flow.
RunFlowCommit(h) ==
  /\ act[h].pc = "run_flow"
  /\ jobs' = IF TenantThere(act[h].new.tenant_id)
               THEN [jobs EXCEPT ![act[h].id] = act[h].new] ELSE jobs
  /\ Leave(h)
  /\ UNCHANGED <<tenants, connections, flows, mappings, failed, tests, erpReads, clients>>

\* execute_job loads the flow and its connections.
Execute(w, j) ==
  /\ Present(jobs[j]) /\ jobs[j].status = "pending" /\ Present(flows[jobs[j].flow_id])
  /\ \A v \in Workers : act[v].pc = "execute" => act[v].id # j
  /\ Begin(w, [pc |-> "execute", id |-> j, seen |-> flows[jobs[j].flow_id]])
  /\ UNCHANGED <<tables, tests, erpReads, clients>>

Conclude(j, status) == jobs' = [jobs EXCEPT ![j].status = status]

\* The flow of the job is gone: execute_job raises, the handler writes an
\* integration error for that flow, its foreign key fails the commit, and the
\* row stays as it was with its message consumed.
ExecuteOrphan(w, j) ==
  /\ Free(w)
  /\ Present(jobs[j]) /\ jobs[j].status = "pending" /\ ~Present(flows[jobs[j].flow_id])
  /\ \A v \in Workers : act[v].pc = "execute" => act[v].id # j
  /\ Conclude(j, "stranded")
  /\ UNCHANGED <<tenants, connections, flows, mappings, failed, act, tests, erpReads, clients>>

\* Mutant of Refused: what was checked when the run was requested is trusted.
RefusedInactive(f) == ~f.active

\* An inactive flow is refused (business_rule_error), and so is a config that
\* does not resolve against the flow as loaded (validation_error).
Refused(f) ==
  \/ ~f.active
  \/ ~ValidConfig(f.config, f.source_entity, EnvironmentOf[f.source])

\* What the attempt asks of the ERP: nothing unless the config reads for real.
Read(f) == IF f.config.mode = "real" /\ ~Refused(f) THEN {f.source} ELSE {}

ExecuteSucceeds(w) ==
  /\ act[w].pc = "execute" /\ ~Refused(act[w].seen)
  /\ erpReads' = erpReads \cup Read(act[w].seen)
  /\ IF Present(jobs[act[w].id]) THEN Conclude(act[w].id, "done") ELSE UNCHANGED jobs
  /\ Leave(w)
  /\ UNCHANGED <<tenants, connections, flows, mappings, failed, tests, clients>>

\* A failure is written with an integration error, which needs the flow's row, and
\* with its text, which has to fit: otherwise the handler's commit fails as well,
\* and the row stays as it was with its message consumed.
ExecuteFails(w) ==
  /\ act[w].pc = "execute"
  /\ erpReads' = erpReads \cup Read(act[w].seen)
  /\ LET j == act[w].id IN
       \/ /\ Present(jobs[j]) /\ Present(flows[jobs[j].flow_id])
          /\ Conclude(j, "done")
          /\ failed' = failed \cup {jobs[j].tenant_id, jobs[j].flow_id}
       \/ Present(jobs[j]) /\ Conclude(j, "stranded") /\ UNCHANGED failed
       \/ ~Present(jobs[j]) /\ UNCHANGED <<jobs, failed>>
  /\ Leave(w)
  /\ UNCHANGED <<tenants, connections, flows, mappings, tests, clients>>

-----------------------------------------------------------------------------
\* The process or its database connection is lost before the commit.
AbandonRequest(h) ==
  /\ act[h] # Idle
  /\ Leave(h)
  /\ meanwhile' = [meanwhile EXCEPT ![h] = {}]
  /\ UNCHANGED <<tables, latestTest, erpReads, clients>>

TenantRequest(h) ==
  \/ CreateTenant(h)
  \/ \E t \in Tenants : PatchTenant(h, t) \/ DeleteTenantCount(h, t)
  \/ PatchTenantCommit(h) \/ DeleteTenantCommit(h)

ConnectionRequest(h) ==
  \/ \E c \in Connections : CreateConnection(h, c) \/ TestConnection(h, c)
  \/ CreateConnectionCommit(h) \/ TestConnectionCommit(h)

FlowRequest(h) ==
  \/ \E f \in Flows : CreateFlow(h, f) \/ PatchFlow(h, f) \/ DeleteFlowCount(h, f)
  \/ \E f \in Flows, j \in Jobs : RunFlow(h, f, j)
  \/ CreateFlowCommit(h) \/ PatchFlowCommit(h) \/ DeleteFlowCommit(h) \/ RunFlowCommit(h)

MappingRequest(h) ==
  \/ \E m \in Mappings : CreateMapping(h, m) \/ PatchMapping(h, m) \/ DeleteMapping(h, m)
  \/ CreateMappingCommit(h) \/ PatchMappingCommit(h)

WorkerStep(w) ==
  \/ \E j \in Jobs : Execute(w, j) \/ ExecuteOrphan(w, j)
  \/ ExecuteSucceeds(w) \/ ExecuteFails(w)

Next ==
  \/ \E h \in Threads : \/ TenantRequest(h) \/ ConnectionRequest(h)
                        \/ FlowRequest(h) \/ MappingRequest(h)
                        \/ AbandonRequest(h)
  \/ \E w \in Workers : WorkerStep(w)

Spec == Init /\ [][Next]_vars

-----------------------------------------------------------------------------
(* Properties *)

ThreadStates ==
  {Idle}
  \cup [pc : {"patch_tenant"}, id : Tenants, seen : TenantRows, new : TenantRows]
  \cup [pc : {"delete_tenant"}, id : Tenants]
  \cup [pc : {"create_connection"}, id : Connections, found : BOOLEAN]
  \cup [pc : {"test_connection"}, id : Connections, seen : ConnectionRows]
  \cup [pc : {"create_flow"}, id : Flows, new : FlowRows]
  \cup [pc : {"patch_flow"}, id : Flows, changes : {Changed(f, p) : f \in FlowRows, p \in Patches}]
  \cup [pc : {"delete_flow"}, id : Flows]
  \cup [pc : {"create_mapping"}, id : Mappings, new : MappingRows]
  \cup [pc : {"patch_mapping"}, id : Mappings, seen : MappingRows, new : MappingRows]
  \cup [pc : {"run_flow"}, id : Jobs, new : JobRows]

\* The tables hold rows of their types, and each actor what its handler carries
\* from its reads to its commit.
TypeOK ==
  /\ tenants \in [Tenants -> {Absent, Gone} \cup TenantRows]
  /\ connections \in [Connections -> {Absent, Gone} \cup ConnectionRows]
  /\ flows \in [Flows -> {Absent, Gone} \cup FlowRows]
  /\ mappings \in [Mappings -> {Absent, Gone} \cup MappingRows]
  /\ jobs \in [Jobs -> {Absent, Gone} \cup JobRows]
  /\ failed \subseteq Tenants \cup Flows
  /\ clients \in Clients
  /\ \A h \in Threads : act[h] \in ThreadStates
  /\ \A w \in Workers : act[w] \in {Idle} \cup [pc : {"execute"}, id : Jobs, seen : FlowRows]
  /\ latestTest \in [Connections -> SUBSET {"success", "failed"}]
  /\ meanwhile \in [Threads -> SUBSET {"success", "failed"}]
  /\ erpReads \subseteq Connections

\* What refers to a row never outlives it, the one reference without a foreign
\* key aside (sync_jobs.flow_id): deletions that cascade to some children, are
\* refused for others and were decided on counts taken earlier
\* (routes_tenants.py:88-101, routes_flows.py:166-174) leave nothing behind.
ReferencesHold ==
  /\ \A c \in Connections : Present(connections[c]) => TenantThere(TenantOf[c])
  /\ \A f \in Flows : Present(flows[f]) => FlowInsertable(flows[f])
  /\ \A m \in Mappings : Present(mappings[m]) => Present(flows[mappings[m].flow_id])
  /\ \A j \in Jobs : Present(jobs[j]) => TenantThere(jobs[j].tenant_id)

\* Both connections of a flow belong to its tenant, whatever PATCHes of the two
\* columns were validated against rows that others changed before the commit
\* (routes_flows.py:54-66, 144-147).
FlowsWithinTenant ==
  \A f \in Flows : Present(flows[f]) =>
    TenantOf[flows[f].source] = flows[f].tenant_id /\ TenantOf[flows[f].target] = flows[f].tenant_id

\* Columns that are written together stay together when only the changed ones
\* of overlapping requests are merged: status and active of a tenant
\* (routes_tenants.py:70-72), status and last_test_status of a connection
\* (runner.py:358-360, 404-406).
PairsAgree ==
  /\ \A t \in Tenants : TenantThere(t) => (tenants[t].active <=> tenants[t].status = "active")
  /\ \A c \in Connections : Present(connections[c]) =>
       connections[c] \in {ConnectionRow("inactive", "none"), ConnectionRow("active", "success"),
                           ConnectionRow("error", "failed")}

\* A connection shows the outcome of its newest test, or of one that committed
\* while that test was under way (runner.py:358, 404): a failed test that loaded
\* "error" changes no column, and leaves the "active" that another one committed
\* meanwhile, but nothing older survives it.
LatestTestShown ==
  \A c \in Connections : Present(connections[c]) =>
    /\ connections[c].status = "active" => "success" \in latestTest[c]
    /\ connections[c].status = "error" => "failed" \in latestTest[c]
    /\ connections[c].status = "inactive" => latestTest[c] = {}

\* No execution reads a production ERP, although PATCHes of the connection or of
\* the entity are not validated against the stored config, and two PATCHes that
\* are each valid may merge into a flow that is not (routes_flows.py:148-153):
\* the attempt resolves the flow it loaded again (runner.py:174, 961-975).
ReadsStayInSandbox == \A c \in erpReads : EnvironmentOf[c] = "sandbox"

\* A tenant that connections, flows or jobs refer to is not deleted, nor a flow
\* that mappings or jobs refer to (docs/PROJECT_RULES.md:32, docs/DECISIONS.md:35).
\* The code counts them (routes_tenants.py:88-93, routes_flows.py:166-168) and
\* commits later, and what has been created in between goes along or is orphaned.
LinkedNotDeleted ==
  [][/\ \A t \in Tenants : TenantThere(t) /\ tenants'[t] = Gone =>
          ConnectionsOf(t) = {} /\ FlowsOf(t) = {} /\ JobsOf(t) = {}
     /\ \A f \in Flows : Present(flows[f]) /\ flows'[f] = Gone =>
          MappingsOf(f) = {} /\ RunsOf(f) = {}]_vars

\* A row that was deleted stays deleted: a PATCH, a test, an execution or an
\* insert that read before the delete does not bring it back.
NoResurrection ==
  [][/\ \A c \in Connections : connections[c] = Gone => connections'[c] = Gone
     /\ \A f \in Flows : flows[f] = Gone => flows'[f] = Gone
     /\ \A m \in Mappings : mappings[m] = Gone => mappings'[m] = Gone
     /\ \A j \in Jobs : jobs[j] = Gone => jobs'[j] = Gone]_vars

=============================================================================
