------------------------ MODULE AdministrationProofs ------------------------
(***************************************************************************)
(* Theorems about Administration for any tenants, connections, flows,      *)
(* mappings and jobs, any number of threads and workers, any payloads and  *)
(* any mix of requests.                                                    *)
(***************************************************************************)
EXTENDS Administration, TLAPS

-----------------------------------------------------------------------------
(* What requests begin and what they leave *)

\* A request's first step, which only reads.
Begins(h) ==
  \/ \E t \in Tenants : PatchTenant(h, t) \/ DeleteTenantCount(h, t)
  \/ \E c \in Connections : CreateConnection(h, c) \/ TestConnection(h, c)
  \/ \E f \in Flows : CreateFlow(h, f) \/ PatchFlow(h, f) \/ DeleteFlowCount(h, f)
  \/ \E f \in Flows, j \in Jobs : RunFlow(h, f, j)
  \/ \E m \in Mappings : CreateMapping(h, m) \/ PatchMapping(h, m)

\* A step that writes nothing.
Opening ==
  \/ \E h \in Threads : Begins(h) \/ AbandonRequest(h)
  \/ \E w \in Workers, j \in Jobs : Execute(w, j)

\* A request of one step, or the commit of a request that began before.
Commit ==
  \/ \E h \in Threads :
       \/ CreateTenant(h) \/ PatchTenantCommit(h) \/ DeleteTenantCommit(h)
       \/ CreateConnectionCommit(h) \/ TestConnectionCommit(h)
       \/ CreateFlowCommit(h) \/ PatchFlowCommit(h) \/ DeleteFlowCommit(h) \/ RunFlowCommit(h)
       \/ CreateMappingCommit(h) \/ PatchMappingCommit(h)
       \/ \E m \in Mappings : DeleteMapping(h, m)
  \/ \E w \in Workers : \/ \E j \in Jobs : ExecuteOrphan(w, j)
                        \/ ExecuteSucceeds(w) \/ ExecuteFails(w)

\* Every step is an opening or a commit.
LEMMA Steps == Next => Opening \/ Commit
BY DEF Next, TenantRequest, ConnectionRequest, FlowRequest, MappingRequest, WorkerStep,
       Opening, Begins, Commit

\* An opening leaves the tables as they are.
LEMMA OpeningReads == Opening => UNCHANGED <<tables, latestTest, erpReads, clients>>
BY DEF Opening, Begins, PatchTenant, DeleteTenantCount, CreateConnection, TestConnection, CreateFlow,
       PatchFlow, DeleteFlowCount, RunFlow, CreateMapping, PatchMapping, Execute, AbandonRequest,
   tests

\* The tables and the actors' states are functions of the ids.
Tabled ==
  /\ tenants = [t \in Tenants |-> tenants[t]]
  /\ connections = [c \in Connections |-> connections[c]]
  /\ flows = [f \in Flows |-> flows[f]]
  /\ mappings = [m \in Mappings |-> mappings[m]]
  /\ jobs = [j \in Jobs |-> jobs[j]]
  /\ act = [a \in Actors |-> act[a]]

\* At first every table is one of its ids.
LEMMA TabledInit == Init => Tabled
BY DEF Init, Tabled

\* Every step leaves tables of the same ids.
LEMMA TabledStep == Tabled /\ [Next]_vars => Tabled'
<1> SUFFICES ASSUME Tabled, [Next]_vars PROVE Tabled'
  OBVIOUS
<1>1. CASE Opening
  <2>1. UNCHANGED tables
    BY <1>1, OpeningReads
  <2>2. act' = [a \in Actors |-> act'[a]]
    BY <1>1 DEF Opening, Begins, PatchTenant, DeleteTenantCount, CreateConnection, TestConnection,
                CreateFlow, PatchFlow, DeleteFlowCount, RunFlow, CreateMapping, PatchMapping,
                Execute, AbandonRequest, Leave, Begin, Tabled
  <2> QED
    BY <2>1, <2>2 DEF tables, Tabled
<1>2. CASE Commit
  <2>1. act' = [a \in Actors |-> act'[a]]
    BY <1>2 DEF Commit, CreateTenant, PatchTenantCommit, DeleteTenantCommit,
                CreateConnectionCommit, TestConnectionCommit, CreateFlowCommit, PatchFlowCommit,
                DeleteFlowCommit, RunFlowCommit, CreateMappingCommit, PatchMappingCommit,
                DeleteMapping, ExecuteOrphan, ExecuteSucceeds, ExecuteFails, Leave, Tabled
  <2>2. /\ tenants' = [t \in Tenants |-> tenants'[t]]
        /\ connections' = [c \in Connections |-> connections'[c]]
    BY <1>2 DEF Commit, CreateTenant, PatchTenantCommit, DeleteTenantCommit,
                CreateConnectionCommit, TestConnectionCommit, CreateFlowCommit, PatchFlowCommit,
                DeleteFlowCommit, RunFlowCommit, CreateMappingCommit, PatchMappingCommit,
                DeleteMapping, ExecuteOrphan, ExecuteSucceeds, ExecuteFails, Tabled
  <2>3. /\ flows' = [f \in Flows |-> flows'[f]]
        /\ mappings' = [m \in Mappings |-> mappings'[m]]
    BY <1>2 DEF Commit, CreateTenant, PatchTenantCommit, DeleteTenantCommit,
                CreateConnectionCommit, TestConnectionCommit, CreateFlowCommit, PatchFlowCommit,
                DeleteFlowCommit, RunFlowCommit, CreateMappingCommit, PatchMappingCommit,
                DeleteMapping, ExecuteOrphan, ExecuteSucceeds, ExecuteFails, Tabled
  <2>4. jobs' = [j \in Jobs |-> jobs'[j]]
    BY <1>2 DEF Commit, CreateTenant, PatchTenantCommit, DeleteTenantCommit,
                CreateConnectionCommit, TestConnectionCommit, CreateFlowCommit, PatchFlowCommit,
                DeleteFlowCommit, RunFlowCommit, CreateMappingCommit, PatchMappingCommit,
                DeleteMapping, ExecuteOrphan, ExecuteSucceeds, ExecuteFails, Conclude, Tabled
  <2> QED
    BY <2>1, <2>2, <2>3, <2>4 DEF Tabled
<1>3. CASE UNCHANGED vars
  BY <1>3 DEF vars, tables, Tabled
<1> QED
  BY <1>1, <1>2, <1>3, Steps

\* An actor that begins something begins that, and the others go on.
LEMMA Beginning ==
  ASSUME Tabled, NEW a \in Actors, NEW doing, Begin(a, doing)
  PROVE  act'[a] = doing /\ \A g \in Actors : g # a => act'[g] = act[g]
BY DEF Begin, Tabled

\* An opening is nothing to a thread, or ends its request, or begins one for it.
LEMMA Began ==
  ASSUME Tabled, Opening, NEW g \in Threads
  PROVE  act'[g] \in {act[g], Idle} \/ Begins(g)
<1>1. ASSUME NEW h \in Threads, Begins(h), h # g
      PROVE  act'[g] = act[g]
  <2>1. \E doing : Begin(h, doing)
    <3>1. CASE \/ \E t \in Tenants : PatchTenant(h, t) \/ DeleteTenantCount(h, t)
               \/ \E c \in Connections : CreateConnection(h, c) \/ TestConnection(h, c)
      BY <3>1 DEF PatchTenant, DeleteTenantCount, CreateConnection, TestConnection
    <3>2. CASE \E f \in Flows : CreateFlow(h, f) \/ PatchFlow(h, f) \/ DeleteFlowCount(h, f)
      BY <3>2 DEF CreateFlow, PatchFlow, DeleteFlowCount
    <3>3. CASE \E f \in Flows, j \in Jobs : RunFlow(h, f, j)
      BY <3>3 DEF RunFlow
    <3>4. CASE \E m \in Mappings : CreateMapping(h, m) \/ PatchMapping(h, m)
      BY <3>4 DEF CreateMapping, PatchMapping
    <3> QED
      BY <1>1, <3>1, <3>2, <3>3, <3>4 DEF Begins
  <2> QED
    BY <1>1, <2>1, Beginning DEF Actors
<1>2. ASSUME NEW h \in Threads, AbandonRequest(h)
      PROVE  act'[g] \in {act[g], Idle}
  BY <1>2 DEF AbandonRequest, Leave, Tabled
<1>3. ASSUME NEW w \in Workers, NEW j \in Jobs, Execute(w, j)
      PROVE  act'[g] = act[g]
  <2>1. \E doing : Begin(w, doing)
    BY <1>3 DEF Execute
  <2>2. w # g
    BY AdminActorsAssumption
  <2> QED
    BY <2>1, <2>2, Beginning DEF Actors
<1> QED
  BY <1>1, <1>2, <1>3 DEF Opening

\* What a thread carries once it has begun.
LEMMA Begun ==
  ASSUME Tabled, NEW g \in Threads
  PROVE  /\ \A t \in Tenants : PatchTenant(g, t) =>
                 /\ act'[g].pc = "patch_tenant" /\ act'[g].id = t /\ TenantThere(t)
                 /\ act'[g].seen = tenants[t]
                 /\ act'[g].new \in {TenantRow("active"), TenantRow("inactive")}
         /\ \A t \in Tenants : DeleteTenantCount(g, t) =>
                 act'[g].pc = "delete_tenant"
         /\ \A c \in Connections : CreateConnection(g, c) =>
                 /\ act'[g].pc = "create_connection" /\ act'[g].id = c
         /\ \A c \in Connections : TestConnection(g, c) =>
                 /\ act'[g].pc = "test_connection" /\ act'[g].id = c
                 /\ Present(connections[c]) /\ act'[g].seen = connections[c]
         /\ \A f \in Flows : CreateFlow(g, f) =>
                 /\ act'[g].pc = "create_flow" /\ act'[g].id = f
         /\ \A f \in Flows : PatchFlow(g, f) =>
                 /\ act'[g].pc = "patch_flow" /\ act'[g].id = f
         /\ \A f \in Flows : DeleteFlowCount(g, f) =>
                 /\ act'[g].pc = "delete_flow" /\ act'[g].id = f
         /\ \A m \in Mappings : CreateMapping(g, m) =>
                 /\ act'[g].pc = "create_mapping" /\ act'[g].id = m
                 /\ \E f \in Flows, active \in BOOLEAN :
                      act'[g].new = [flow_id |-> f, active |-> active]
         /\ \A m \in Mappings : PatchMapping(g, m) =>
                 /\ act'[g].pc = "patch_mapping" /\ act'[g].id = m
                 /\ Present(mappings[m]) /\ act'[g].seen = mappings[m]
                 /\ \E active \in BOOLEAN :
                      act'[g].new = [mappings[m] EXCEPT !.active = active]
         /\ \A f \in Flows, j \in Jobs : RunFlow(g, f, j) =>
                 /\ act'[g].pc = "run_flow" /\ act'[g].id = j /\ Present(flows[f])
                 /\ act'[g].new = [flow_id |-> f, tenant_id |-> flows[f].tenant_id,
                                   status |-> "pending"]
<1>1. ASSUME NEW t \in Tenants, PatchTenant(g, t)
      PROVE  /\ act'[g].pc = "patch_tenant" /\ act'[g].id = t /\ TenantThere(t)
             /\ act'[g].seen = tenants[t]
             /\ act'[g].new \in {TenantRow("active"), TenantRow("inactive")}
  BY <1>1, Beginning DEF PatchTenant, Actors
<1>2. ASSUME NEW t \in Tenants, DeleteTenantCount(g, t)
      PROVE  act'[g].pc = "delete_tenant"
  BY <1>2, Beginning DEF DeleteTenantCount, Actors
<1>3. ASSUME NEW c \in Connections, CreateConnection(g, c)
      PROVE  /\ act'[g].pc = "create_connection" /\ act'[g].id = c
  BY <1>3, Beginning DEF CreateConnection, Actors
<1>4. ASSUME NEW c \in Connections, TestConnection(g, c)
      PROVE  /\ act'[g].pc = "test_connection" /\ act'[g].id = c
             /\ Present(connections[c]) /\ act'[g].seen = connections[c]
  BY <1>4, Beginning DEF TestConnection, Actors
<1>5. ASSUME NEW f \in Flows, CreateFlow(g, f)
      PROVE  /\ act'[g].pc = "create_flow" /\ act'[g].id = f
  BY <1>5, Beginning DEF CreateFlow, Actors
<1>6. ASSUME NEW f \in Flows, PatchFlow(g, f)
      PROVE  /\ act'[g].pc = "patch_flow" /\ act'[g].id = f
  BY <1>6, Beginning DEF PatchFlow, Actors
<1>7. ASSUME NEW f \in Flows, DeleteFlowCount(g, f)
      PROVE  /\ act'[g].pc = "delete_flow" /\ act'[g].id = f
  BY <1>7, Beginning DEF DeleteFlowCount, Actors
<1>8. ASSUME NEW m \in Mappings, CreateMapping(g, m)
      PROVE  /\ act'[g].pc = "create_mapping" /\ act'[g].id = m
             /\ \E f \in Flows, active \in BOOLEAN :
                  act'[g].new = [flow_id |-> f, active |-> active]
  BY <1>8, Beginning DEF CreateMapping, Actors
<1>9. ASSUME NEW m \in Mappings, PatchMapping(g, m)
      PROVE  /\ act'[g].pc = "patch_mapping" /\ act'[g].id = m
             /\ Present(mappings[m]) /\ act'[g].seen = mappings[m]
             /\ \E active \in BOOLEAN :
                  act'[g].new = [mappings[m] EXCEPT !.active = active]
  BY <1>9, Beginning DEF PatchMapping, Actors
<1>10. ASSUME NEW f \in Flows, NEW j \in Jobs, RunFlow(g, f, j)
       PROVE  /\ act'[g].pc = "run_flow" /\ act'[g].id = j /\ Present(flows[f])
              /\ act'[g].new = [flow_id |-> f, tenant_id |-> flows[f].tenant_id,
                                status |-> "pending"]
  BY <1>10, Beginning DEF RunFlow, Actors
<1> QED
  BY <1>1, <1>2, <1>3, <1>4, <1>5, <1>6, <1>7, <1>8, <1>9, <1>10

-----------------------------------------------------------------------------
(* The environment of what is read *)

\* Whatever the flow loaded by an attempt has become, only a sandbox is read through.
THEOREM ReadsStayInSandboxHolds == Spec => []ReadsStayInSandbox
<1>1. Init => ReadsStayInSandbox
  BY DEF Init, ReadsStayInSandbox
<1>2. ASSUME NEW f, NEW c \in Read(f) PROVE EnvironmentOf[c] = "sandbox"
  BY DEF Read, Refused, ValidConfig, NoConfig
<1>3. ReadsStayInSandbox /\ [Next]_vars => ReadsStayInSandbox'
  <2> SUFFICES ASSUME ReadsStayInSandbox, [Next]_vars PROVE ReadsStayInSandbox'
    OBVIOUS
  <2>1. CASE Opening \/ UNCHANGED vars
    BY <2>1, OpeningReads DEF vars, ReadsStayInSandbox
  <2>2. CASE Commit
    <3>1. UNCHANGED erpReads \/ \E w \in Workers : erpReads' = erpReads \cup Read(act[w].seen)
      BY <2>2 DEF Commit, CreateTenant, PatchTenantCommit, DeleteTenantCommit,
                  CreateConnectionCommit, TestConnectionCommit, CreateFlowCommit,
                  PatchFlowCommit, DeleteFlowCommit, RunFlowCommit, CreateMappingCommit,
                  PatchMappingCommit, DeleteMapping, ExecuteOrphan, ExecuteSucceeds, ExecuteFails
    <3> QED
      BY <3>1, <1>2 DEF ReadsStayInSandbox
  <2> QED
    BY <2>1, <2>2, Steps
<1> QED
  BY <1>1, <1>3, PTL DEF Spec

-----------------------------------------------------------------------------
(* Ids are used once *)

\* The requests that insert a row, and the ids taken by the ones under way: the row
\* is not there yet, and no two of them have the same id.  A flow that is being deleted
\* has been there.
Inserts == {"create_connection", "create_flow", "create_mapping", "run_flow"}
Reserved ==
  \A h \in Threads :
    /\ act[h].pc = "create_connection" => connections[act[h].id] = Absent
    /\ act[h].pc = "create_flow" => flows[act[h].id] = Absent
    /\ act[h].pc = "create_mapping" => mappings[act[h].id] = Absent
    /\ act[h].pc = "run_flow" => jobs[act[h].id] = Absent
    /\ act[h].pc = "create_connection" => act[h].id \in Connections
    /\ act[h].pc = "create_flow" => act[h].id \in Flows
    /\ act[h].pc = "create_mapping" => act[h].id \in Mappings
    /\ act[h].pc = "run_flow" => act[h].id \in Jobs
    /\ act[h].pc = "delete_flow" => act[h].id \in Flows /\ flows[act[h].id] # Absent
    /\ \A g \in Threads :
         g # h /\ act[h].pc \in Inserts /\ act[g].pc = act[h].pc => act[g].id # act[h].id

\* A commit ends the request of one thread, and begins nothing.
LEMMA CommitLeaves ==
  ASSUME Tabled, Commit
  PROVE  \A g \in Threads : act'[g] = act[g] \/ act'[g] = Idle
<1>1. UNCHANGED act \/ \E a \in Actors : Leave(a)
  BY DEF Commit, CreateTenant, PatchTenantCommit, DeleteTenantCommit, CreateConnectionCommit,
         TestConnectionCommit, CreateFlowCommit, PatchFlowCommit, DeleteFlowCommit,
         RunFlowCommit, CreateMappingCommit, PatchMappingCommit, DeleteMapping, ExecuteOrphan,
         ExecuteSucceeds, ExecuteFails, Actors
<1> QED
  BY <1>1 DEF Leave, Actors, Tabled

\* Commits that insert a row under an id.
Inserted(request, id) ==
  \E h \in Threads : act[h].pc = request /\ act[h].id = id /\ act'[h] = Idle

\* Where there is no row a commit brings none, unless it inserts it.
LEMMA MissingRows ==
  ASSUME Tabled, Reserved, Commit
  PROVE  /\ \A c \in Connections : ~Present(connections[c]) =>
              connections'[c] = connections[c] \/ Inserted("create_connection", c)
         /\ \A f \in Flows : ~Present(flows[f]) =>
              flows'[f] = flows[f] \/ Inserted("create_flow", f)
         /\ \A m \in Mappings : ~Present(mappings[m]) =>
              mappings'[m] = mappings[m] \/ Inserted("create_mapping", m)
         /\ \A j \in Jobs : ~Present(jobs[j]) =>
              jobs'[j] = jobs[j] \/ Inserted("run_flow", j)
<1>1. ASSUME NEW h \in Threads, CreateTenant(h) \/ PatchTenantCommit(h)
      PROVE  UNCHANGED <<connections, flows, mappings, jobs>>
  BY <1>1 DEF CreateTenant, PatchTenantCommit
<1>2. ASSUME NEW h \in Threads, DeleteTenantCommit(h)
      PROVE  /\ UNCHANGED <<flows, mappings>>
             /\ \A c \in Connections : ~Present(connections[c]) => connections'[c] = connections[c]
             /\ \A j \in Jobs : ~Present(jobs[j]) => jobs'[j] = jobs[j]
  BY <1>2 DEF DeleteTenantCommit, ConnectionsOf, JobsOf
<1>3. ASSUME NEW h \in Threads, CreateConnectionCommit(h)
      PROVE  /\ UNCHANGED <<flows, mappings, jobs>>
             /\ \A c \in Connections : connections'[c] = connections[c] \/ c = act[h].id
             /\ act[h].pc = "create_connection" /\ act'[h] = Idle
  BY <1>3 DEF CreateConnectionCommit, Leave, Actors, Tabled
<1>4. ASSUME NEW h \in Threads, TestConnectionCommit(h)
      PROVE  /\ UNCHANGED <<flows, mappings, jobs>>
             /\ \A c \in Connections : ~Present(connections[c]) => connections'[c] = connections[c]
  BY <1>4 DEF TestConnectionCommit, Tabled
<1>5. ASSUME NEW h \in Threads, CreateFlowCommit(h)
      PROVE  /\ UNCHANGED <<connections, mappings, jobs>>
             /\ \A f \in Flows : flows'[f] = flows[f] \/ f = act[h].id
             /\ act[h].pc = "create_flow" /\ act'[h] = Idle
  BY <1>5 DEF CreateFlowCommit, Leave, Actors, Tabled
<1>6. ASSUME NEW h \in Threads, PatchFlowCommit(h)
      PROVE  /\ UNCHANGED <<connections, mappings, jobs>>
             /\ \A f \in Flows : ~Present(flows[f]) => flows'[f] = flows[f]
  BY <1>6 DEF PatchFlowCommit, Tabled
<1>7. ASSUME NEW h \in Threads, DeleteFlowCommit(h)
      PROVE  /\ UNCHANGED <<connections, jobs>>
             /\ \A f \in Flows : ~Present(flows[f]) => flows'[f] = flows[f]
             /\ \A m \in Mappings : ~Present(mappings[m]) => mappings'[m] = mappings[m]
  BY <1>7 DEF DeleteFlowCommit, MappingsOf, Tabled, Reserved, Present
<1>8. ASSUME NEW h \in Threads, RunFlowCommit(h)
      PROVE  /\ UNCHANGED <<connections, flows, mappings>>
             /\ \A j \in Jobs : jobs'[j] = jobs[j] \/ j = act[h].id
             /\ act[h].pc = "run_flow" /\ act'[h] = Idle
  BY <1>8 DEF RunFlowCommit, Leave, Actors, Tabled
<1>9. ASSUME NEW h \in Threads, CreateMappingCommit(h)
      PROVE  /\ UNCHANGED <<connections, flows, jobs>>
             /\ \A m \in Mappings : mappings'[m] = mappings[m] \/ m = act[h].id
             /\ act[h].pc = "create_mapping" /\ act'[h] = Idle
  BY <1>9 DEF CreateMappingCommit, Leave, Actors, Tabled
<1>10. ASSUME NEW h \in Threads,
              PatchMappingCommit(h) \/ \E m \in Mappings : DeleteMapping(h, m)
       PROVE  /\ UNCHANGED <<connections, flows, jobs>>
              /\ \A m \in Mappings : ~Present(mappings[m]) => mappings'[m] = mappings[m]
  BY <1>10 DEF PatchMappingCommit, DeleteMapping, Tabled
<1>11. ASSUME NEW w \in Workers,
              ExecuteSucceeds(w) \/ ExecuteFails(w) \/ \E j \in Jobs : ExecuteOrphan(w, j)
       PROVE  /\ UNCHANGED <<connections, flows, mappings>>
              /\ \A j \in Jobs : ~Present(jobs[j]) => jobs'[j] = jobs[j]
  BY <1>11 DEF ExecuteSucceeds, ExecuteFails, ExecuteOrphan, Conclude, Tabled
<1> QED
  <2>1. \A c \in Connections : ~Present(connections[c]) =>
          connections'[c] = connections[c] \/ Inserted("create_connection", c)
    BY <1>1, <1>2, <1>3, <1>4, <1>5, <1>6, <1>7, <1>8, <1>9, <1>10, <1>11 DEF Commit, Inserted
  <2>2. \A f \in Flows : ~Present(flows[f]) =>
          flows'[f] = flows[f] \/ Inserted("create_flow", f)
    BY <1>1, <1>2, <1>3, <1>4, <1>5, <1>6, <1>7, <1>8, <1>9, <1>10, <1>11 DEF Commit, Inserted
  <2>3. \A m \in Mappings : ~Present(mappings[m]) =>
          mappings'[m] = mappings[m] \/ Inserted("create_mapping", m)
    BY <1>1, <1>2, <1>3, <1>4, <1>5, <1>6, <1>7, <1>8, <1>9, <1>10, <1>11 DEF Commit, Inserted
  <2>4. \A j \in Jobs : ~Present(jobs[j]) =>
          jobs'[j] = jobs[j] \/ Inserted("run_flow", j)
    BY <1>1, <1>2, <1>3, <1>4, <1>5, <1>6, <1>7, <1>8, <1>9, <1>10, <1>11 DEF Commit, Inserted
  <2> QED
    BY <2>1, <2>2, <2>3, <2>4

-----------------------------------------------------------------------------
(* Flows and their tenant *)

\* A row of the flows with both connections of its tenant.
Sane(row) ==
  /\ row \in FlowRows
  /\ TenantOf[row.source] = row.tenant_id /\ TenantOf[row.target] = row.tenant_id

\* The columns a PATCH changes, and with them a flow of a tenant.
IsPatch(changes) ==
  \E row \in FlowRows : /\ DOMAIN changes \subseteq DOMAIN row \ {"tenant_id"}
                        /\ \A column \in DOMAIN changes : changes[column] = row[column]
KeepsTenant(changes, tenant) ==
  /\ "source" \in DOMAIN changes => TenantOf[changes["source"]] = tenant
  /\ "target" \in DOMAIN changes => TenantOf[changes["target"]] = tenant

\* The flows there are, those about to be inserted, and those about to be changed.
FlowsSane ==
  /\ \A f \in Flows : Present(flows[f]) => Sane(flows[f])
  /\ \A h \in Threads :
       /\ act[h].pc = "create_flow" => Sane(act[h].new)
       /\ act[h].pc = "patch_flow" =>
            /\ act[h].id \in Flows /\ flows[act[h].id] # Absent /\ IsPatch(act[h].changes)
            /\ Present(flows[act[h].id]) =>
                 KeepsTenant(act[h].changes, flows[act[h].id].tenant_id)

\* A row of a flow is neither of the two that say there is none.
LEMMA FlowRowsPresent ==
  ASSUME NEW row \in FlowRows
  PROVE  Present(row)
BY DEF FlowRows, Present, Absent, Gone

\* A flow that is patched is a flow of the same tenant.
LEMMA PatchedFlows ==
  ASSUME NEW row, Sane(row), NEW changes, IsPatch(changes)
  PROVE  /\ Patched(row, changes) \in FlowRows
         /\ Patched(row, changes).tenant_id = row.tenant_id
         /\ KeepsTenant(changes, row.tenant_id) => Sane(Patched(row, changes))
<1>1. PICK other \in FlowRows : /\ DOMAIN changes \subseteq DOMAIN other \ {"tenant_id"}
                                /\ \A column \in DOMAIN changes : changes[column] = other[column]
  BY DEF IsPatch
<1> DEFINE Of(column) == IF column \in DOMAIN changes THEN other[column] ELSE row[column]
<1>2. Patched(row, changes) =
        [tenant_id |-> row.tenant_id, source |-> Of("source"), target |-> Of("target"),
         source_entity |-> Of("source_entity"), config |-> Of("config"),
         active |-> Of("active")]
  BY <1>1 DEF Patched, Sane, FlowRows
<1>3. /\ Of("source") \in Connections /\ Of("target") \in Connections
      /\ Of("source_entity") \in Entities /\ Of("config") \in Configs /\ Of("active") \in BOOLEAN
      /\ row.tenant_id \in Tenants
  BY <1>1 DEF Sane, FlowRows
<1>4. KeepsTenant(changes, row.tenant_id) =>
        TenantOf[Of("source")] = row.tenant_id /\ TenantOf[Of("target")] = row.tenant_id
  BY <1>1 DEF KeepsTenant, Sane
<1> HIDE DEF Of
<1> QED
  BY <1>2, <1>3, <1>4 DEF Sane, FlowRows

\* What a PATCH changes is a patch, and keeps the tenant if what it names was checked.
LEMMA ChangedFlows ==
  ASSUME NEW row, Sane(row), NEW patch \in Patches,
         DOMAIN patch \cap {"source", "target"} # {} => WithinTenant(Patched(row, patch))
  PROVE  /\ IsPatch(Changed(row, patch))
         /\ KeepsTenant(Changed(row, patch), row.tenant_id)
<1>1. IsPatch(patch)
  BY FlowPayloadsAssumption DEF IsPatch
<1>2. /\ DOMAIN Changed(row, patch) \subseteq DOMAIN patch
      /\ \A column \in DOMAIN Changed(row, patch) : Changed(row, patch)[column] = patch[column]
  BY DEF Changed
<1>3. DOMAIN row = {"tenant_id", "source", "target", "source_entity", "config", "active"}
  BY DEF Sane, FlowRows
<1>4. /\ "source" \in DOMAIN patch => Patched(row, patch).source = patch["source"]
      /\ "target" \in DOMAIN patch => Patched(row, patch).target = patch["target"]
      /\ Patched(row, patch).tenant_id = row.tenant_id
  BY <1>1, <1>3, PatchedFlows DEF Patched
<1>5. KeepsTenant(patch, row.tenant_id)
  BY <1>4 DEF KeepsTenant, WithinTenant
<1> QED
  BY <1>1, <1>2, <1>5 DEF IsPatch, KeepsTenant

\* Where there is a flow a commit leaves it, with its tenant, or deletes it.
LEMMA PresentFlows ==
  ASSUME Tabled, Reserved, FlowsSane, Commit, NEW f \in Flows, Present(flows[f])
  PROVE  \/ flows'[f] = Gone
         \/ Sane(flows'[f]) /\ flows'[f].tenant_id = flows[f].tenant_id
<1>1. \/ UNCHANGED flows
      \/ \E h \in Threads : CreateFlowCommit(h) \/ PatchFlowCommit(h) \/ DeleteFlowCommit(h)
  BY DEF Commit, CreateTenant, PatchTenantCommit, DeleteTenantCommit, CreateConnectionCommit,
       TestConnectionCommit, RunFlowCommit, CreateMappingCommit, PatchMappingCommit,
       DeleteMapping, ExecuteOrphan, ExecuteSucceeds, ExecuteFails
<1>2. ASSUME NEW h \in Threads, PatchFlowCommit(h)
      PROVE  Sane(flows'[f]) /\ flows'[f].tenant_id = flows[f].tenant_id
  <2>1. CASE act[h].id = f /\ flows' = [flows EXCEPT ![f] = Patched(flows[f], act[h].changes)]
    <3>1. act[h].pc = "patch_flow"
      BY <1>2 DEF PatchFlowCommit
    <3>2. flows'[f] = Patched(flows[f], act[h].changes)
      BY <2>1 DEF Tabled
    <3> QED
      BY <2>1, <3>1, <3>2, PatchedFlows DEF FlowsSane
  <2>2. CASE act[h].id # f \/ flows' = flows
    BY <1>2, <2>2 DEF PatchFlowCommit, FlowsSane, Tabled
  <2> QED
    BY <1>2, <2>1, <2>2 DEF PatchFlowCommit
<1>3. ASSUME NEW h \in Threads, CreateFlowCommit(h)
      PROVE  flows'[f] = flows[f]
  BY <1>3 DEF CreateFlowCommit, Reserved, Tabled, Present
<1>4. ASSUME NEW h \in Threads, DeleteFlowCommit(h)
      PROVE  flows'[f] = flows[f] \/ flows'[f] = Gone
  BY <1>4 DEF DeleteFlowCommit, Tabled
<1> QED
  BY <1>1, <1>2, <1>3, <1>4 DEF FlowsSane

\* At first no id is taken.
LEMMA ReservedInit == Init => Reserved
BY DEF Init, Reserved, Idle, Inserts, Actors

\* What Reserved asks of one thread is kept by the steps of the others that leave the
\* tables alone.
LEMMA ReservedOpening ==
  ASSUME Reserved, UNCHANGED tables, NEW h,
         \A g \in Threads : g # h => act'[g] = act[g],
         h \in Threads =>
           \/ act'[h].pc \notin Inserts \cup {"delete_flow"}
           \/ act'[h].pc = "delete_flow" /\ act'[h].id \in Flows /\ flows[act'[h].id] # Absent
           \/ /\ \A g \in Threads : act[g].pc = act'[h].pc => act[g].id # act'[h].id
              /\ \/ /\ act'[h].pc = "create_connection"
                    /\ act'[h].id \in Connections /\ connections[act'[h].id] = Absent
                 \/ /\ act'[h].pc = "create_flow"
                    /\ act'[h].id \in Flows /\ flows[act'[h].id] = Absent
                 \/ /\ act'[h].pc = "create_mapping"
                    /\ act'[h].id \in Mappings /\ mappings[act'[h].id] = Absent
                 \/ /\ act'[h].pc = "run_flow"
                    /\ act'[h].id \in Jobs /\ jobs[act'[h].id] = Absent
  PROVE  Reserved'
<1> SUFFICES ASSUME NEW k \in Threads
             PROVE  /\ act'[k].pc = "create_connection" => connections[act'[k].id] = Absent
                    /\ act'[k].pc = "create_flow" => flows[act'[k].id] = Absent
                    /\ act'[k].pc = "create_mapping" => mappings[act'[k].id] = Absent
                    /\ act'[k].pc = "run_flow" => jobs[act'[k].id] = Absent
                    /\ act'[k].pc = "create_connection" => act'[k].id \in Connections
                    /\ act'[k].pc = "create_flow" => act'[k].id \in Flows
                    /\ act'[k].pc = "create_mapping" => act'[k].id \in Mappings
                    /\ act'[k].pc = "run_flow" => act'[k].id \in Jobs
                    /\ act'[k].pc = "delete_flow" =>
                         act'[k].id \in Flows /\ flows[act'[k].id] # Absent
                    /\ \A g \in Threads :
                         g # k /\ act'[k].pc \in Inserts /\ act'[g].pc = act'[k].pc =>
                           act'[g].id # act'[k].id
  BY DEF Reserved, tables
<1>1. CASE k = h
  BY <1>1 DEF Reserved, Inserts
<1>2. CASE k # h
  BY <1>2 DEF Reserved, Inserts
<1> QED
  BY <1>1, <1>2

\* Every step keeps the ids of requests under way theirs.
LEMMA ReservedStep == Tabled /\ Reserved /\ FlowsSane /\ [Next]_vars => Reserved'
<1> SUFFICES ASSUME Tabled, Reserved, FlowsSane, [Next]_vars PROVE Reserved'
  OBVIOUS
<1>1. CASE Opening
  <2> UNCHANGED tables
    BY <1>1, OpeningReads
  <2> Threads \subseteq Actors /\ Workers \subseteq Actors
    BY DEF Actors
  <2>1. ASSUME NEW h \in Threads, NEW t \in Tenants,
               PatchTenant(h, t) \/ DeleteTenantCount(h, t)
        PROVE  Reserved'
    <3>1. PICK doing : Begin(h, doing) /\ doing.pc \in {"patch_tenant", "delete_tenant"}
      BY <2>1 DEF PatchTenant, DeleteTenantCount
    <3> QED
      BY <3>1, Beginning, ReservedOpening DEF Inserts
  <2>2. ASSUME NEW h \in Threads, NEW c \in Connections, CreateConnection(h, c)
        PROVE  Reserved'
    <3>1. PICK doing : Begin(h, doing) /\ doing.pc = "create_connection" /\ doing.id = c
      BY <2>2 DEF CreateConnection
    <3> QED
      BY <2>2, <3>1, Beginning, ReservedOpening DEF CreateConnection
  <2>3. ASSUME NEW h \in Threads, NEW c \in Connections, TestConnection(h, c)
        PROVE  Reserved'
    <3>1. PICK doing : Begin(h, doing) /\ doing.pc = "test_connection"
      BY <2>3 DEF TestConnection
    <3> QED
      BY <3>1, Beginning, ReservedOpening DEF Inserts
  <2>4. ASSUME NEW h \in Threads, NEW f \in Flows, CreateFlow(h, f)
        PROVE  Reserved'
    <3>1. PICK doing : Begin(h, doing) /\ doing.pc = "create_flow" /\ doing.id = f
      BY <2>4 DEF CreateFlow
    <3> QED
      BY <2>4, <3>1, Beginning, ReservedOpening DEF CreateFlow
  <2>5. ASSUME NEW h \in Threads, NEW f \in Flows, PatchFlow(h, f)
        PROVE  Reserved'
    <3>1. PICK doing : Begin(h, doing) /\ doing.pc = "patch_flow"
      BY <2>5 DEF PatchFlow
    <3> QED
      BY <3>1, Beginning, ReservedOpening DEF Inserts
  <2>6. ASSUME NEW h \in Threads, NEW f \in Flows, DeleteFlowCount(h, f)
        PROVE  Reserved'
    <3>1. PICK doing : Begin(h, doing) /\ doing.pc = "delete_flow" /\ doing.id = f
      BY <2>6 DEF DeleteFlowCount
    <3>2. flows[f] # Absent
      BY <2>6 DEF DeleteFlowCount, Present
    <3> QED
      BY <3>1, <3>2, Beginning, ReservedOpening
  <2>7. ASSUME NEW h \in Threads, NEW f \in Flows, NEW j \in Jobs, RunFlow(h, f, j)
        PROVE  Reserved'
    <3>1. PICK doing : Begin(h, doing) /\ doing.pc = "run_flow" /\ doing.id = j
      BY <2>7 DEF RunFlow
    <3> QED
      BY <2>7, <3>1, Beginning, ReservedOpening DEF RunFlow
  <2>8. ASSUME NEW h \in Threads, NEW m \in Mappings, CreateMapping(h, m)
        PROVE  Reserved'
    <3>1. PICK doing : Begin(h, doing) /\ doing.pc = "create_mapping" /\ doing.id = m
      BY <2>8 DEF CreateMapping
    <3> QED
      BY <2>8, <3>1, Beginning, ReservedOpening DEF CreateMapping
  <2>9. ASSUME NEW h \in Threads, NEW m \in Mappings, PatchMapping(h, m)
        PROVE  Reserved'
    <3>1. PICK doing : Begin(h, doing) /\ doing.pc = "patch_mapping"
      BY <2>9 DEF PatchMapping
    <3> QED
      BY <3>1, Beginning, ReservedOpening DEF Inserts
  <2>10. ASSUME NEW w \in Workers, NEW j \in Jobs, Execute(w, j)
         PROVE  Reserved'
    <3>1. PICK doing : Begin(w, doing) /\ doing.pc = "execute"
      BY <2>10 DEF Execute
    <3> QED
      BY <3>1, Beginning, ReservedOpening DEF Inserts
  <2>11. ASSUME NEW h \in Threads, AbandonRequest(h)
         PROVE  Reserved'
    <3>1. act'[h] = Idle /\ \A g \in Threads : g # h => act'[g] = act[g]
      BY <2>11 DEF AbandonRequest, Leave, Tabled
    <3> QED
      BY <3>1, ReservedOpening DEF Inserts, Idle
  <2> QED
    BY <1>1, <2>1, <2>2, <2>3, <2>4, <2>5, <2>6, <2>7, <2>8, <2>9, <2>10, <2>11 DEF Opening, Begins
<1>2. CASE Commit
  <2>1. \A g \in Threads : act'[g] = act[g] \/ act'[g] = Idle
    BY <1>2, CommitLeaves
  <2>2. \A g \in Threads :
          act'[g].pc \in Inserts \cup {"delete_flow"} => act'[g] = act[g]
    BY <2>1 DEF Idle, Inserts
  <2>3. ASSUME NEW g \in Threads, act'[g].pc \in Inserts
        PROVE  ~Inserted(act[g].pc, act[g].id)
    BY <2>2, <2>3 DEF Reserved, Inserted, Idle, Inserts
  <2>4. ASSUME NEW g \in Threads
        PROVE  /\ act'[g].pc = "create_connection" => connections'[act[g].id] = Absent
               /\ act'[g].pc = "create_flow" => flows'[act[g].id] = Absent
               /\ act'[g].pc = "create_mapping" => mappings'[act[g].id] = Absent
               /\ act'[g].pc = "run_flow" => jobs'[act[g].id] = Absent
    BY <1>2, <2>2, <2>3, MissingRows DEF Reserved, Inserts, Present
  <2>5. ASSUME NEW g \in Threads, act'[g].pc = "delete_flow"
        PROVE  flows'[act[g].id] # Absent
    <3>1. act[g].pc = "delete_flow" /\ act[g].id \in Flows /\ flows[act[g].id] # Absent
      BY <2>2, <2>5 DEF Reserved
    <3>2. CASE Present(flows[act[g].id])
      BY <1>2, <3>1, <3>2, PresentFlows, FlowRowsPresent DEF Sane, Present, Absent, Gone
    <3>3. CASE ~Present(flows[act[g].id])
      <4>1. ~Inserted("create_flow", act[g].id)
        BY <3>1, <3>3 DEF Inserted, Reserved, Present
      <4> QED
        BY <1>2, <3>1, <3>3, <4>1, MissingRows
    <3> QED
      BY <3>2, <3>3
  <2> QED
    BY <2>2, <2>4, <2>5 DEF Reserved, Inserts
<1>3. CASE UNCHANGED vars
  BY <1>3 DEF vars, tables, Reserved
<1> QED
  BY <1>1, <1>2, <1>3, Steps

\* Neither reading nor committing makes a flow of two tenants.
LEMMA FlowsSaneInit == Init => FlowsSane
BY DEF Init, FlowsSane, Idle, Actors, Present

\* Every step keeps flows, there and under way, within their tenants.
LEMMA FlowsSaneStep == Tabled /\ Reserved /\ FlowsSane /\ [Next]_vars => FlowsSane'
<1> SUFFICES ASSUME Tabled, Reserved, FlowsSane, [Next]_vars PROVE FlowsSane'
  OBVIOUS
<1>1. CASE Opening
  <2>1. UNCHANGED tables
    BY <1>1, OpeningReads
  <2>2. ASSUME NEW g \in Threads
        PROVE  \/ act'[g] = act[g]
               \/ act'[g].pc \notin {"create_flow", "patch_flow"}
               \/ \E f \in Flows : CreateFlow(g, f) \/ PatchFlow(g, f)
    <3>1. ASSUME \/ \E t \in Tenants : PatchTenant(g, t) \/ DeleteTenantCount(g, t)
                 \/ \E c \in Connections : CreateConnection(g, c) \/ TestConnection(g, c)
                 \/ \E f \in Flows : DeleteFlowCount(g, f)
                 \/ \E f \in Flows, j \in Jobs : RunFlow(g, f, j)
                 \/ \E m \in Mappings : CreateMapping(g, m) \/ PatchMapping(g, m)
          PROVE  act'[g].pc \notin {"create_flow", "patch_flow"}
      BY <3>1, Begun
    <3> QED
      BY <1>1, <3>1, Began DEF Begins, Idle
  <2>3. ASSUME NEW g \in Threads, NEW f \in Flows, CreateFlow(g, f)
        PROVE  act'[g].pc = "create_flow" /\ Sane(act'[g].new)
    <3>1. PICK new \in NewFlows : WithinTenant(new) /\ Begin(g, [pc |-> "create_flow", id |-> f, new |-> new])
      BY <2>3 DEF CreateFlow
    <3>2. act'[g] = [pc |-> "create_flow", id |-> f, new |-> new]
      BY <3>1, Beginning DEF Actors
    <3> QED
      BY <3>1, <3>2, FlowPayloadsAssumption DEF Sane, WithinTenant
  <2>4. ASSUME NEW g \in Threads, NEW f \in Flows, PatchFlow(g, f)
        PROVE  /\ act'[g].pc = "patch_flow" /\ act'[g].id = f /\ Present(flows[f])
               /\ IsPatch(act'[g].changes)
               /\ KeepsTenant(act'[g].changes, flows[f].tenant_id)
    <3>1. PICK patch \in Patches :
            /\ DOMAIN patch \cap {"source", "target"} # {} => WithinTenant(Patched(flows[f], patch))
            /\ Begin(g, [pc |-> "patch_flow", id |-> f, changes |-> Changed(flows[f], patch)])
      BY <2>4 DEF PatchFlow
    <3>2. act'[g] = [pc |-> "patch_flow", id |-> f, changes |-> Changed(flows[f], patch)]
      BY <3>1, Beginning DEF Actors
    <3>3. Present(flows[f]) /\ Sane(flows[f])
      BY <2>4 DEF PatchFlow, FlowsSane
    <3> QED
      BY <3>1, <3>2, <3>3, ChangedFlows
  <2> QED
    BY <2>1, <2>2, <2>3, <2>4 DEF FlowsSane, tables, Present
<1>2. CASE Commit
  <2>1. \A g \in Threads : act'[g].pc \in {"create_flow", "patch_flow"} => act'[g] = act[g]
    BY <1>2, CommitLeaves DEF Idle
  <2>2. ASSUME NEW f \in Flows, flows[f] # Absent
        PROVE  /\ flows'[f] # Absent
               /\ Present(flows'[f]) =>
                    Present(flows[f]) /\ Sane(flows'[f]) /\ flows'[f].tenant_id = flows[f].tenant_id
    <3>1. CASE Present(flows[f])
      BY <1>2, <3>1, PresentFlows, FlowRowsPresent DEF Sane, Present, Absent, Gone
    <3>2. CASE ~Present(flows[f])
      <4>1. ~Inserted("create_flow", f)
        BY <2>2, <3>2 DEF Inserted, Reserved
      <4> QED
        BY <1>2, <2>2, <3>2, <4>1, MissingRows DEF Present
    <3> QED
      BY <3>1, <3>2
  <2>3. ASSUME NEW f \in Flows, flows[f] = Absent, Present(flows'[f])
        PROVE  Sane(flows'[f])
    <3>1. PICK h \in Threads : CreateFlowCommit(h)
      BY <1>2, <2>3 DEF Commit, CreateTenant, PatchTenantCommit, DeleteTenantCommit,
         CreateConnectionCommit, TestConnectionCommit, PatchFlowCommit, DeleteFlowCommit,
         RunFlowCommit, CreateMappingCommit, PatchMappingCommit, DeleteMapping, ExecuteOrphan,
         ExecuteSucceeds, ExecuteFails, Tabled, Present
    <3> QED
      BY <2>3, <3>1 DEF CreateFlowCommit, Tabled, FlowsSane, Present
  <2> QED
    BY <2>1, <2>2, <2>3 DEF FlowsSane
<1>3. CASE UNCHANGED vars
  BY <1>3 DEF vars, tables, FlowsSane, Present
<1> QED
  BY <1>1, <1>2, <1>3, Steps

\* The registry keeps all of this together.
RegistryInv == Tabled /\ Reserved /\ FlowsSane

\* The parts of RegistryInv hold together.
LEMMA RegistryHolds == Spec => []RegistryInv
<1>1. Init => RegistryInv
  BY TabledInit, ReservedInit, FlowsSaneInit DEF RegistryInv
<1>2. RegistryInv /\ [Next]_vars => RegistryInv'
  BY TabledStep, ReservedStep, FlowsSaneStep DEF RegistryInv
<1> QED
  BY <1>1, <1>2, PTL DEF Spec

\* Both connections of a flow belong to its tenant, however many PATCHes of either
\* were validated before any of them committed.
THEOREM FlowsWithinTenantHolds == Spec => []FlowsWithinTenant
<1>1. RegistryInv => FlowsWithinTenant
  BY DEF RegistryInv, FlowsSane, Sane, FlowsWithinTenant
<1> QED
  BY <1>1, RegistryHolds, PTL

\* No commit brings back a row that was deleted, whatever its request had read.
THEOREM NoResurrectionHolds == Spec => NoResurrection
<1> DEFINE Stays ==
  /\ \A c \in Connections : connections[c] = Gone => connections'[c] = Gone
  /\ \A f \in Flows : flows[f] = Gone => flows'[f] = Gone
  /\ \A m \in Mappings : mappings[m] = Gone => mappings'[m] = Gone
  /\ \A j \in Jobs : jobs[j] = Gone => jobs'[j] = Gone
<1>1. ASSUME RegistryInv, [Next]_vars PROVE Stays
  <2>1. CASE Opening \/ UNCHANGED vars
    BY <2>1, OpeningReads DEF vars, tables
  <2>2. CASE Commit
    <3>1. Absent # Gone /\ ~Present(Gone)
      BY DEF Absent, Gone, Present
    <3>2. /\ \A c \in Connections : connections[c] = Gone => ~Inserted("create_connection", c)
          /\ \A f \in Flows : flows[f] = Gone => ~Inserted("create_flow", f)
          /\ \A m \in Mappings : mappings[m] = Gone => ~Inserted("create_mapping", m)
          /\ \A j \in Jobs : jobs[j] = Gone => ~Inserted("run_flow", j)
      BY <1>1, <3>1 DEF Inserted, RegistryInv, Reserved
    <3> QED
      BY <1>1, <2>2, <3>1, <3>2, MissingRows DEF RegistryInv
  <2> QED
    BY <1>1, <2>1, <2>2, Steps
<1>2. Stays => [Stays]_vars
  OBVIOUS
<1>3. Spec => [][Stays]_vars
  BY <1>1, RegistryHolds, PTL DEF Spec
<1> QED
  BY <1>3 DEF NoResurrection

-----------------------------------------------------------------------------
(* Columns that are written together *)

\* If a request changed every column or none, the merged row is the current row or the
\* request's.
LEMMA MergedWhole ==
  ASSUME NEW current, NEW loaded, NEW new,
         current = [c \in DOMAIN current |-> current[c]],
         new = [c \in DOMAIN current |-> new[c]],
         loaded = new \/ \A c \in DOMAIN current : new[c] # loaded[c]
  PROVE  Merge(current, loaded, new) \in {current, new}
<1>1. CASE loaded = new
  <2>1. Merge(current, loaded, new) = [c \in DOMAIN current |-> current[c]]
    BY <1>1 DEF Merge
  <2> QED
    BY <2>1
<1>2. CASE \A c \in DOMAIN current : new[c] # loaded[c]
  <2>1. Merge(current, loaded, new) = [c \in DOMAIN current |-> new[c]]
    BY <1>2 DEF Merge
  <2> QED
    BY <2>1
<1> QED
  BY <1>1, <1>2

TenantPairs == {TenantRow("active"), TenantRow("inactive")}
TestedPairs == {ConnectionRow("active", "success"), ConnectionRow("error", "failed")}
ConnectionPairs == {ConnectionRow("inactive", "none")} \cup TestedPairs

\* Rows of the two tables, there and as requests under way have loaded them.
Paired ==
  /\ \A t \in Tenants : TenantThere(t) => tenants[t] \in TenantPairs
  /\ \A c \in Connections : Present(connections[c]) => connections[c] \in ConnectionPairs
  /\ \A h \in Threads :
       /\ act[h].pc = "patch_tenant" => act[h].seen \in TenantPairs /\ act[h].new \in TenantPairs
       /\ act[h].pc = "test_connection" => act[h].seen \in ConnectionPairs

\* Two pairs that are not the same differ in both columns.
LEMMA MergedTenants ==
  ASSUME NEW current \in TenantPairs, NEW loaded \in TenantPairs, NEW new \in TenantPairs
  PROVE  Merge(current, loaded, new) \in TenantPairs
<1>1. DOMAIN current = {"status", "active"}
  BY DEF TenantPairs, TenantRow
<1>2. /\ current = [c \in DOMAIN current |-> current[c]]
      /\ new = [c \in DOMAIN current |-> new[c]]
  BY <1>1 DEF TenantPairs, TenantRow
<1>3. loaded = new \/ \A c \in DOMAIN current : new[c] # loaded[c]
  BY <1>1 DEF TenantPairs, TenantRow
<1> QED
  BY <1>2, <1>3, MergedWhole

\* The same of connections and what a test writes.
LEMMA MergedConnections ==
  ASSUME NEW current \in ConnectionPairs, NEW loaded \in ConnectionPairs, NEW new \in TestedPairs
  PROVE  Merge(current, loaded, new) \in ConnectionPairs
<1>1. DOMAIN current = {"status", "last_test_status"}
  BY DEF ConnectionPairs, TestedPairs, ConnectionRow
<1>2. /\ current = [c \in DOMAIN current |-> current[c]]
      /\ new = [c \in DOMAIN current |-> new[c]]
  BY <1>1 DEF ConnectionPairs, TestedPairs, ConnectionRow
<1>3. loaded = new \/ \A c \in DOMAIN current : new[c] # loaded[c]
  BY <1>1 DEF ConnectionPairs, TestedPairs, ConnectionRow
<1> QED
  BY <1>2, <1>3, MergedWhole DEF ConnectionPairs

\* A test leaves the pair there was, or another one.
LEMMA TestedConnections ==
  ASSUME Tabled, Paired, NEW h \in Threads, TestConnectionCommit(h), NEW c \in Connections
  PROVE  \/ connections'[c] = connections[c]
         \/ Present(connections[c]) /\ connections'[c] \in ConnectionPairs
<1>1. \A outcome \in {"success", "failed"} : Tested(outcome) \in TestedPairs
  BY DEF Tested, TestedPairs
<1>2. PICK outcome \in {"success", "failed"} :
        /\ act[h].pc = "test_connection"
        /\ \/ UNCHANGED connections
           \/ connections' = [connections EXCEPT ![act[h].id] =
                                Merge(@, act[h].seen, Tested(outcome))]
        /\ ~Present(connections[act[h].id]) => UNCHANGED connections
  BY DEF TestConnectionCommit
<1>3. CASE connections'[c] # connections[c]
  <2>1. /\ Present(connections[c])
        /\ connections'[c] = Merge(connections[c], act[h].seen, Tested(outcome))
    BY <1>2, <1>3 DEF Tabled
  <2>2. connections[c] \in ConnectionPairs /\ act[h].seen \in ConnectionPairs
    BY <1>2, <2>1 DEF Paired
  <2> QED
    BY <1>1, <2>1, <2>2, MergedConnections
<1> QED
  BY <1>3

\* Before any request there is nothing to agree.
LEMMA PairedInit == Init => Paired
BY DEF Init, Paired, Idle, Actors, Present, TenantThere

\* Every step keeps the pairs.
LEMMA PairedStep == Tabled /\ Reserved /\ Paired /\ [Next]_vars => Paired'
<1> SUFFICES ASSUME Tabled, Reserved, Paired, [Next]_vars PROVE Paired'
  OBVIOUS
<1>1. CASE Opening
  <2>1. UNCHANGED tables
    BY <1>1, OpeningReads
  <2>2. ASSUME NEW g \in Threads
        PROVE  /\ act'[g].pc = "patch_tenant" =>
                    act'[g].seen \in TenantPairs /\ act'[g].new \in TenantPairs
               /\ act'[g].pc = "test_connection" => act'[g].seen \in ConnectionPairs
    <3>1. CASE Begins(g)
      BY <3>1, Begun DEF Begins, Paired, TenantPairs
    <3>2. CASE ~Begins(g)
      BY <1>1, <2>1, <3>2, Began DEF Paired, Idle
    <3> QED
      BY <3>1, <3>2
  <2> QED
    BY <2>1, <2>2 DEF Paired, tables, Present, TenantThere
<1>2. CASE Commit
  <2>1. \A g \in Threads :
          act'[g].pc \in {"patch_tenant", "test_connection"} => act'[g] = act[g]
    BY <1>2, CommitLeaves DEF Idle
  <2>2. ASSUME NEW t \in Tenants, Present(tenants'[t])
        PROVE  tenants'[t] \in TenantPairs
    <3>1. CASE \E h \in Threads : CreateTenant(h)
      BY <2>2, <3>1 DEF CreateTenant, Tabled, Paired, TenantThere, TenantPairs
    <3>2. CASE \E h \in Threads : PatchTenantCommit(h)
      BY <2>2, <3>2, MergedTenants DEF PatchTenantCommit, Tabled, Paired, TenantThere
    <3>3. CASE \E h \in Threads : DeleteTenantCommit(h)
      BY <2>2, <3>3 DEF DeleteTenantCommit, Tabled, Paired, TenantThere, Present
    <3>4. CASE \E h \in Threads : CreateConnectionCommit(h)
      BY <2>2, <3>4 DEF CreateConnectionCommit, Tabled, Paired, TenantThere, TenantPairs
    <3>5. CASE UNCHANGED tenants
      BY <2>2, <3>5 DEF Paired, TenantThere
    <3> QED
      BY <1>2, <3>1, <3>2, <3>3, <3>4, <3>5 DEF Commit, TestConnectionCommit, CreateFlowCommit,
         PatchFlowCommit, DeleteFlowCommit, RunFlowCommit, CreateMappingCommit,
         PatchMappingCommit, DeleteMapping, ExecuteOrphan, ExecuteSucceeds, ExecuteFails
  <2>3. ASSUME NEW c \in Connections, Present(connections'[c])
        PROVE  connections'[c] \in ConnectionPairs
    <3>1. CASE \E h \in Threads : CreateConnectionCommit(h)
      BY <2>3, <3>1 DEF CreateConnectionCommit, Tabled, Paired, ConnectionPairs
    <3>2. CASE \E h \in Threads : TestConnectionCommit(h)
      BY <2>3, <3>2, TestedConnections DEF Paired
    <3>3. CASE \E h \in Threads : DeleteTenantCommit(h)
      BY <2>3, <3>3 DEF DeleteTenantCommit, Paired, Present
    <3>4. CASE UNCHANGED connections
      BY <2>3, <3>4 DEF Paired
    <3> QED
      BY <1>2, <3>1, <3>2, <3>3, <3>4 DEF Commit, CreateTenant, PatchTenantCommit,
         CreateFlowCommit, PatchFlowCommit, DeleteFlowCommit, RunFlowCommit,
         CreateMappingCommit, PatchMappingCommit, DeleteMapping, ExecuteOrphan,
         ExecuteSucceeds, ExecuteFails
  <2> QED
    BY <2>1, <2>2, <2>3 DEF Paired, TenantThere
<1>3. CASE UNCHANGED vars
  BY <1>3 DEF vars, tables, Paired, Present, TenantThere
<1> QED
  BY <1>1, <1>2, <1>3, Steps

\* However requests that write them overlap, the two columns of a tenant agree, and those
\* of a connection.
THEOREM PairsAgreeHolds == Spec => []PairsAgree
<1>1. Init => Paired
  BY PairedInit
<1>2. RegistryInv /\ Paired /\ [Next]_vars => Paired'
  BY PairedStep DEF RegistryInv
<1>3. Paired => PairsAgree
  <2>1. \A row \in TenantPairs : row.active <=> row.status = "active"
    <3>1. \A status : /\ TenantRow(status).status = status
                      /\ TenantRow(status).active <=> status = "active"
      BY Zenon DEF TenantRow
    <3> QED
      BY <3>1 DEF TenantPairs
  <2> QED
    BY <2>1 DEF Paired, PairsAgree, ConnectionPairs, TestedPairs
<1> QED
  BY <1>1, <1>2, <1>3, RegistryHolds, PTL DEF Spec

-----------------------------------------------------------------------------
(* References *)

IsMapping(row) ==
  /\ row = [c \in {"flow_id", "active"} |-> row[c]]
  /\ row.flow_id \in Flows
IsJob(row) ==
  /\ row = [c \in {"flow_id", "tenant_id", "status"} |-> row[c]]
  /\ row.flow_id \in Flows /\ flows[row.flow_id] # Absent
  /\ row.tenant_id \in Tenants

\* Mappings and jobs, there and in requests under way, and the flows that jobs are of:
\* a flow has been there, and is never another one's again.
Shaped ==
  /\ \A m \in Mappings : Present(mappings[m]) => IsMapping(mappings[m])
  /\ \A j \in Jobs : Present(jobs[j]) => IsJob(jobs[j])
  /\ \A h \in Threads :
       /\ act[h].pc = "create_mapping" => IsMapping(act[h].new)
       /\ act[h].pc = "patch_mapping" => act[h].new.flow_id = act[h].seen.flow_id
       /\ act[h].pc = "run_flow" => IsJob(act[h].new) /\ act[h].new.status = "pending"

\* At first there are no mappings and no jobs.
LEMMA ShapedInit == Init => Shaped
BY DEF Init, Shaped, Idle, Actors, Present

\* The flow a commit finds gone or there is not one it finds absent.
LEMMA FlowsStayUsed ==
  ASSUME RegistryInv, Commit, NEW f \in Flows, flows[f] # Absent
  PROVE  /\ flows'[f] # Absent
         /\ ~Present(flows[f]) => ~Present(flows'[f])
<1>1. CASE Present(flows[f])
  BY <1>1, PresentFlows, FlowRowsPresent DEF RegistryInv, Sane, Present, Absent, Gone
<1>2. CASE ~Present(flows[f])
  <2>1. ~Inserted("create_flow", f)
    BY <1>2 DEF Inserted, RegistryInv, Reserved
  <2> QED
    BY <1>2, <2>1, MissingRows DEF RegistryInv, Present
<1> QED
  BY <1>1, <1>2

\* A row of a mapping that is merged keeps its flow.
LEMMA MergedMappings ==
  ASSUME NEW current, IsMapping(current), NEW loaded, NEW new, new.flow_id = loaded.flow_id
  PROVE  /\ IsMapping(Merge(current, loaded, new))
         /\ Merge(current, loaded, new).flow_id = current.flow_id
<1>1. DOMAIN current = {"flow_id", "active"}
  BY DEF IsMapping
<1>2. Merge(current, loaded, new) =
        [c \in {"flow_id", "active"} |-> IF new[c] # loaded[c] THEN new[c] ELSE current[c]]
  BY <1>1 DEF Merge
<1>3. /\ Merge(current, loaded, new).flow_id = current.flow_id
      /\ DOMAIN Merge(current, loaded, new) = {"flow_id", "active"}
  BY <1>2
<1> QED
  BY <1>2, <1>3 DEF IsMapping

\* A mapping after a commit: as before, gone, of the flow it had, or of a flow there is.
LEMMA MappingsCommit ==
  ASSUME Tabled, Shaped, Commit, NEW m \in Mappings, Present(mappings'[m])
  PROVE  /\ IsMapping(mappings'[m])
         /\ \/ Present(mappings[m]) /\ mappings'[m].flow_id = mappings[m].flow_id
            \/ Present(flows[mappings'[m].flow_id]) /\ UNCHANGED flows
<1>1. CASE \E h \in Threads : CreateMappingCommit(h)
  <2>1. PICK h \in Threads : CreateMappingCommit(h)
    BY <1>1
  <2>2. UNCHANGED flows /\ act[h].pc = "create_mapping"
    BY <2>1 DEF CreateMappingCommit
  <2>3. CASE mappings'[m] = mappings[m]
    BY <2>3 DEF Shaped
  <2>4. CASE mappings'[m] # mappings[m]
    <3>1. Present(flows[act[h].new.flow_id]) /\ mappings'[m] = act[h].new
      BY <2>1, <2>4 DEF CreateMappingCommit, Tabled
    <3> QED
      BY <2>2, <3>1 DEF Shaped
  <2> QED
    BY <2>3, <2>4
<1>2. CASE \E h \in Threads : PatchMappingCommit(h)
  <2>1. PICK h \in Threads : PatchMappingCommit(h)
    BY <1>2
  <2>2. CASE mappings'[m] = mappings[m]
    BY <2>2 DEF Shaped
  <2>3. CASE mappings'[m] # mappings[m]
    <3>1. /\ Present(mappings[m]) /\ act[h].pc = "patch_mapping"
          /\ mappings'[m] = Merge(mappings[m], act[h].seen, act[h].new)
      BY <2>1, <2>3 DEF PatchMappingCommit, Tabled
    <3> QED
      BY <3>1, MergedMappings DEF Shaped
  <2> QED
    BY <2>2, <2>3
<1>3. CASE \E h \in Threads : DeleteFlowCommit(h)
  BY <1>3 DEF DeleteFlowCommit, Shaped, Present
<1>4. CASE \E h \in Threads, n \in Mappings : DeleteMapping(h, n)
  <2>1. mappings'[m] = mappings[m]
    BY <1>4 DEF DeleteMapping, Tabled, Present
  <2> QED
    BY <2>1 DEF Shaped
<1>5. CASE UNCHANGED mappings
  BY <1>5 DEF Shaped
<1> QED
  BY <1>1, <1>2, <1>3, <1>4, <1>5 DEF Commit, CreateTenant, PatchTenantCommit,
     DeleteTenantCommit, CreateConnectionCommit, TestConnectionCommit, CreateFlowCommit,
     PatchFlowCommit, RunFlowCommit, ExecuteOrphan, ExecuteSucceeds, ExecuteFails

\* A job of a flow that was there remains one.
LEMMA JobsKept ==
  ASSUME RegistryInv, Commit, NEW row, IsJob(row)
  PROVE  IsJob(row)'
<1>1. flows'[row.flow_id] # Absent
  BY FlowsStayUsed DEF IsJob
<1> QED
  BY <1>1 DEF IsJob

\* A job after a commit: the job there was, of the same flow and tenant, or a new one.
LEMMA JobsCommit ==
  ASSUME RegistryInv, Shaped, Commit, NEW j \in Jobs, Present(jobs'[j])
  PROVE  /\ IsJob(jobs'[j])
         /\ \/ /\ Present(jobs[j]) /\ jobs'[j].tenant_id = jobs[j].tenant_id
               /\ jobs'[j].flow_id = jobs[j].flow_id
            \/ /\ TenantThere(jobs'[j].tenant_id) /\ UNCHANGED tenants
               /\ jobs'[j].status = "pending"
<1> USE DEF RegistryInv
<1>1. CASE \E h \in Threads : RunFlowCommit(h)
  <2>1. PICK h \in Threads : RunFlowCommit(h)
    BY <1>1
  <2>2. CASE jobs'[j] = jobs[j]
    BY <2>2 DEF Shaped
  <2>3. CASE jobs'[j] # jobs[j]
    <3>1. /\ act[h].pc = "run_flow" /\ TenantThere(act[h].new.tenant_id)
          /\ jobs'[j] = act[h].new /\ UNCHANGED tenants
      BY <2>1, <2>3 DEF RunFlowCommit, Tabled
    <3> QED
      BY <3>1 DEF Shaped
  <2> QED
    BY <2>2, <2>3
<1>2. ASSUME NEW k, NEW status, Conclude(k, status), Present(jobs[k])
      PROVE  /\ Present(jobs[j]) /\ IsJob(jobs'[j]) /\ jobs'[j].tenant_id = jobs[j].tenant_id
             /\ jobs'[j].flow_id = jobs[j].flow_id
  <2>1. CASE k = j
    <3>1. jobs'[j] = [jobs[j] EXCEPT !.status = status] /\ IsJob(jobs[j])
      BY <1>2, <2>1 DEF Conclude, Tabled, Shaped
    <3> QED
      BY <1>2, <2>1, <3>1 DEF IsJob
  <2>2. CASE k # j
    BY <1>2, <2>2 DEF Conclude, Tabled, Shaped
  <2> QED
    BY <2>1, <2>2
<1>3. CASE \E w \in Workers, k \in Jobs : ExecuteOrphan(w, k)
  BY <1>2, <1>3 DEF ExecuteOrphan
<1>4. CASE \E w \in Workers : ExecuteSucceeds(w) \/ ExecuteFails(w)
  <2>1. UNCHANGED jobs \/ \E k, status : Conclude(k, status) /\ Present(jobs[k])
    BY <1>4 DEF ExecuteSucceeds, ExecuteFails
  <2> QED
    BY <1>2, <2>1 DEF Shaped
<1>5. CASE \E h \in Threads : DeleteTenantCommit(h)
  BY <1>5 DEF DeleteTenantCommit, Shaped, Present
<1>6. CASE UNCHANGED jobs
  BY <1>6 DEF Shaped
<1> QED
  BY <1>1, <1>3, <1>4, <1>5, <1>6 DEF Commit, CreateTenant, PatchTenantCommit,
     CreateConnectionCommit, TestConnectionCommit, CreateFlowCommit, PatchFlowCommit,
     DeleteFlowCommit, CreateMappingCommit, PatchMappingCommit, DeleteMapping

\* A tenant is there after a commit, or is deleted by it: with its connections and jobs,
\* and without a flow.
LEMMA TenantsCommit ==
  ASSUME Tabled, Paired, Commit, NEW t \in Tenants, TenantThere(t), ~Present(tenants'[t])
  PROVE  /\ UNCHANGED <<flows, mappings>> /\ FlowsOf(t) = {}
         /\ \A u \in Tenants : u # t => tenants'[u] = tenants[u]
         /\ connections' = [c \in Connections |->
                              IF c \in ConnectionsOf(t) THEN Gone ELSE connections[c]]
         /\ jobs' = [j \in Jobs |-> IF j \in JobsOf(t) THEN Gone ELSE jobs[j]]
<1>1. \A row \in TenantPairs : Present(row)
  BY DEF TenantPairs, TenantRow, Present, Absent, Gone
<1>2. ASSUME NEW h \in Threads, CreateTenant(h) PROVE FALSE
  BY <1>2 DEF CreateTenant, Tabled, TenantThere, Present
<1>3. ASSUME NEW h \in Threads, PatchTenantCommit(h) PROVE FALSE
  <2>1. /\ act[h].pc = "patch_tenant"
        /\ tenants'[t] \in {tenants[t], Merge(tenants[t], act[h].seen, act[h].new)}
    BY <1>3 DEF PatchTenantCommit, Tabled
  <2>2. Merge(tenants[t], act[h].seen, act[h].new) \in TenantPairs
    BY <2>1, MergedTenants DEF Paired
  <2> QED
    BY <1>1, <2>1, <2>2 DEF TenantThere
<1>4. ASSUME NEW h \in Threads, CreateConnectionCommit(h) PROVE FALSE
  BY <1>4 DEF CreateConnectionCommit, Tabled, TenantThere, Present
<1>5. ~UNCHANGED tenants
  BY DEF TenantThere
<1>6. PICK h \in Threads : DeleteTenantCommit(h)
  BY <1>2, <1>3, <1>4, <1>5 DEF Commit, TestConnectionCommit, CreateFlowCommit,
     PatchFlowCommit, DeleteFlowCommit, RunFlowCommit, CreateMappingCommit,
     PatchMappingCommit, DeleteMapping, ExecuteOrphan, ExecuteSucceeds, ExecuteFails
<1>7. act[h].id = t
  BY <1>5, <1>6 DEF DeleteTenantCommit, Tabled, TenantThere
<1> QED
  BY <1>5, <1>6, <1>7 DEF DeleteTenantCommit, Tabled

\* A connection is there after a commit, or is deleted by it with its tenant.
LEMMA ConnectionsCommit ==
  ASSUME Tabled, Reserved, Paired, Commit, NEW c \in Connections, Present(connections[c]),
         ~Present(connections'[c])
  PROVE  /\ UNCHANGED flows /\ FlowsOf(TenantOf[c]) = {}
         /\ \E h \in Threads : DeleteTenantCommit(h)
<1>1. \A row \in ConnectionPairs : Present(row)
  BY DEF ConnectionPairs, TestedPairs, ConnectionRow, Present, Absent, Gone
<1>2. ASSUME NEW h \in Threads, TestConnectionCommit(h) PROVE FALSE
  BY <1>1, <1>2, TestedConnections
<1>3. ASSUME NEW h \in Threads, CreateConnectionCommit(h) PROVE FALSE
  BY <1>3 DEF CreateConnectionCommit, Tabled, Reserved, Present
<1>4. ~UNCHANGED connections
  OBVIOUS
<1>5. PICK h \in Threads : DeleteTenantCommit(h)
  BY <1>2, <1>3, <1>4 DEF Commit, CreateTenant, PatchTenantCommit, CreateFlowCommit,
     PatchFlowCommit, DeleteFlowCommit, RunFlowCommit, CreateMappingCommit,
     PatchMappingCommit, DeleteMapping, ExecuteOrphan, ExecuteSucceeds, ExecuteFails
<1> QED
  BY <1>5 DEF DeleteTenantCommit, ConnectionsOf

\* A flow after a commit: the flow there was, or one whose tenant and connections are
\* there.
LEMMA FlowsCommit ==
  ASSUME Tabled, Commit, NEW f \in Flows, Present(flows'[f])
  PROVE  \/ flows'[f] = flows[f]
         \/ FlowInsertable(flows'[f]) /\ UNCHANGED <<tenants, connections>>
<1>1. CASE \E h \in Threads : CreateFlowCommit(h)
  BY <1>1 DEF CreateFlowCommit, Tabled
<1>2. CASE \E h \in Threads : PatchFlowCommit(h)
  BY <1>2 DEF PatchFlowCommit, Tabled
<1>3. CASE \E h \in Threads : DeleteFlowCommit(h)
  BY <1>3 DEF DeleteFlowCommit, Tabled, Present
<1> QED
  BY <1>1, <1>2, <1>3 DEF Commit, CreateTenant, PatchTenantCommit, DeleteTenantCommit,
     CreateConnectionCommit, TestConnectionCommit, RunFlowCommit, CreateMappingCommit,
     PatchMappingCommit, DeleteMapping, ExecuteOrphan, ExecuteSucceeds, ExecuteFails

\* A flow is there after a commit, or is deleted by it with its mappings.
LEMMA FlowsDeleted ==
  ASSUME RegistryInv, Commit, NEW f \in Flows, Present(flows[f]), ~Present(flows'[f])
  PROVE  /\ \A m \in Mappings : mappings[m].flow_id = f => ~Present(mappings'[m])
         /\ \E h \in Threads : DeleteFlowCommit(h)
<1> USE DEF RegistryInv
<1>1. flows'[f] = Gone
  BY PresentFlows, FlowRowsPresent DEF Sane
<1>2. ASSUME NEW h \in Threads, CreateFlowCommit(h) \/ PatchFlowCommit(h) PROVE FALSE
  <2>1. CASE CreateFlowCommit(h)
    BY <2>1 DEF CreateFlowCommit, Tabled, Reserved, Present
  <2>2. CASE PatchFlowCommit(h)
    <3>1. /\ act[h].pc = "patch_flow"
          /\ flows'[f] \in {flows[f], Patched(flows[f], act[h].changes)}
          /\ flows'[f] # flows[f] => act[h].id = f
      BY <2>2 DEF PatchFlowCommit, Tabled
    <3> QED
      BY <3>1, PatchedFlows, FlowRowsPresent DEF FlowsSane
  <2> QED
    BY <1>2, <2>1, <2>2
<1>3. PICK h \in Threads : DeleteFlowCommit(h)
  BY <1>1, <1>2 DEF Commit, CreateTenant, PatchTenantCommit, DeleteTenantCommit,
     CreateConnectionCommit, TestConnectionCommit, RunFlowCommit, CreateMappingCommit,
     PatchMappingCommit, DeleteMapping, ExecuteOrphan, ExecuteSucceeds, ExecuteFails
<1>4. act[h].id = f
  BY <1>3 DEF DeleteFlowCommit, Tabled
<1> QED
  BY <1>3, <1>4 DEF DeleteFlowCommit, MappingsOf, Present, Tabled

\* What the registry refers to, with what keeps it so.
LinkedInv == RegistryInv /\ Paired /\ Shaped /\ ReferencesHold

\* Every step keeps mappings and jobs in shape, wherever they are.
LEMMA ShapedStep == RegistryInv /\ Shaped /\ [Next]_vars => Shaped'
<1> SUFFICES ASSUME RegistryInv, Shaped, [Next]_vars PROVE Shaped'
  OBVIOUS
<1>1. CASE Opening
  <2>1. UNCHANGED tables /\ Tabled
    BY <1>1, OpeningReads DEF RegistryInv
  <2>2. \A row : IsJob(row) => IsJob(row)'
    BY <2>1 DEF IsJob, tables
  <2>3. ASSUME NEW g \in Threads, Begins(g)
        PROVE  /\ act'[g].pc = "create_mapping" => IsMapping(act'[g].new)
               /\ act'[g].pc = "patch_mapping" => act'[g].new.flow_id = act'[g].seen.flow_id
               /\ act'[g].pc = "run_flow" => IsJob(act'[g].new) /\ act'[g].new.status = "pending"
    <3>1. \A f \in Flows, active \in BOOLEAN : IsMapping([flow_id |-> f, active |-> active])
      BY DEF IsMapping
    <3>2. \A row, active : IsMapping(row) => [row EXCEPT !.active = active].flow_id = row.flow_id
      BY DEF IsMapping
    <3>3. \A f \in Flows : Present(flows[f]) =>
            IsJob([flow_id |-> f, tenant_id |-> flows[f].tenant_id, status |-> "pending"])
      BY DEF IsJob, Present, RegistryInv, FlowsSane, Sane, FlowRows
    <3>4. CASE \E m \in Mappings : CreateMapping(g, m)
      <4>1. PICK m \in Mappings : CreateMapping(g, m)
        BY <3>4
      <4>2. /\ act'[g].pc = "create_mapping"
            /\ \E f \in Flows, active \in BOOLEAN :
                 act'[g].new = [flow_id |-> f, active |-> active]
        BY <2>1, <4>1, Begun
      <4> QED
        BY <3>1, <4>2
    <3>5. CASE \E m \in Mappings : PatchMapping(g, m)
      <4>1. PICK m \in Mappings : PatchMapping(g, m)
        BY <3>5
      <4>2. /\ act'[g].pc = "patch_mapping" /\ Present(mappings[m])
            /\ act'[g].seen = mappings[m]
            /\ \E active \in BOOLEAN : act'[g].new = [mappings[m] EXCEPT !.active = active]
        BY <2>1, <4>1, Begun
      <4> QED
        BY <3>2, <4>2 DEF Shaped
    <3>6. CASE \E f \in Flows, j \in Jobs : RunFlow(g, f, j)
      <4>1. PICK f \in Flows, j \in Jobs : RunFlow(g, f, j)
        BY <3>6
      <4>2. /\ act'[g].pc = "run_flow" /\ Present(flows[f])
            /\ act'[g].new = [flow_id |-> f, tenant_id |-> flows[f].tenant_id,
                              status |-> "pending"]
        BY <2>1, <4>1, Begun
      <4> QED
        BY <3>3, <4>2
    <3> QED
      BY <2>1, <2>3, <3>4, <3>5, <3>6, Begun DEF Begins
  <2>4. ASSUME NEW g \in Threads, ~Begins(g)
        PROVE  act'[g] = act[g] \/ act'[g].pc = "idle"
    BY <1>1, <2>1, <2>4, Began DEF Idle
  <2>5. ASSUME NEW g \in Threads
        PROVE  /\ act'[g].pc = "create_mapping" => IsMapping(act'[g].new)
               /\ act'[g].pc = "patch_mapping" => act'[g].new.flow_id = act'[g].seen.flow_id
               /\ act'[g].pc = "run_flow" => IsJob(act'[g].new) /\ act'[g].new.status = "pending"
    <3>1. CASE Begins(g)
      BY <2>3, <3>1
    <3>2. CASE ~Begins(g)
      BY <2>4, <3>2 DEF Shaped
    <3> QED
      BY <3>1, <3>2
  <2>6. /\ \A m \in Mappings : Present(mappings'[m]) => IsMapping(mappings'[m])
        /\ \A j \in Jobs : Present(jobs'[j]) => IsJob(jobs'[j])
    BY <2>1 DEF Shaped, tables
  <2> QED
    BY <2>2, <2>5, <2>6 DEF Shaped, Present, IsMapping
<1>2. CASE Commit
  <2>1. \A m \in Mappings : Present(mappings'[m]) => IsMapping(mappings'[m])
    BY <1>2, MappingsCommit DEF RegistryInv
  <2>2. \A j \in Jobs : Present(jobs'[j]) => IsJob(jobs'[j])
    BY <1>2, JobsCommit
  <2>3. \A row : IsJob(row) => IsJob(row)'
    BY <1>2, JobsKept
  <2>4. \A g \in Threads : act'[g] = act[g] \/ act'[g].pc = "idle"
    BY <1>2, CommitLeaves DEF RegistryInv, Idle
  <2> QED
    BY <2>1, <2>2, <2>3, <2>4 DEF Shaped, Present, IsMapping
<1>3. CASE UNCHANGED vars
  BY <1>3 DEF vars, tables, Shaped, Present, IsMapping, IsJob
<1> QED
  BY <1>1, <1>2, <1>3, Steps

\* Every step keeps what the rows refer to.
LEMMA ReferencesStep == LinkedInv /\ [Next]_vars => ReferencesHold'
<1> SUFFICES ASSUME LinkedInv, [Next]_vars PROVE ReferencesHold'
  OBVIOUS
<1> USE DEF LinkedInv
<1>1. CASE Opening \/ UNCHANGED vars
  BY <1>1, OpeningReads
  DEF vars, tables, ReferencesHold, FlowInsertable, TenantThere, Present
<1>2. CASE Commit
  <2> USE DEF RegistryInv
  <2>1. ASSUME NEW c \in Connections, Present(connections'[c])
        PROVE  Present(tenants'[TenantOf[c]])
    <3>1. TenantOf[c] \in Tenants
      BY PayloadAssumption
    <3>2. CASE \E h \in Threads : CreateConnectionCommit(h)
      <4>1. PICK h \in Threads : CreateConnectionCommit(h)
        BY <3>2
      <4>2. \A row : row = TenantRow("active") => Present(row)
        BY DEF TenantRow, Present, Absent, Gone
      <4>3. /\ \/ connections'[c] = connections[c]
               \/ c = act[h].id /\ act[h].found = TenantThere(TenantOf[c])
            /\ \/ UNCHANGED tenants
               \/ tenants' = [tenants EXCEPT ![TenantOf[act[h].id]] = TenantRow("active")]
            /\ c = act[h].id /\ connections'[c] # connections[c] =>
                 \/ TenantThere(TenantOf[c]) /\ UNCHANGED tenants
                 \/ tenants' = [tenants EXCEPT ![TenantOf[c]] = TenantRow("active")]
        BY <4>1 DEF CreateConnectionCommit, Tabled
      <4>4. connections'[c] = connections[c] => TenantThere(TenantOf[c])
        BY <2>1 DEF ReferencesHold
      <4> QED
        BY <3>1, <4>2, <4>3, <4>4 DEF Tabled, TenantThere
    <3>3. CASE ~\E h \in Threads : CreateConnectionCommit(h)
      <4>1. Present(connections[c])
        BY <1>2, <2>1, <3>3
        DEF Commit, CreateTenant, PatchTenantCommit, DeleteTenantCommit, TestConnectionCommit,
         CreateFlowCommit, PatchFlowCommit, DeleteFlowCommit, RunFlowCommit,
         CreateMappingCommit, PatchMappingCommit, DeleteMapping, ExecuteOrphan,
         ExecuteSucceeds, ExecuteFails, Tabled, Present
      <4>2. TenantThere(TenantOf[c])
        BY <4>1 DEF ReferencesHold
      <4>3. ASSUME ~Present(tenants'[TenantOf[c]]) PROVE FALSE
        <5>1. c \in ConnectionsOf(TenantOf[c])
          BY <4>1 DEF ConnectionsOf
        <5>2. connections'[c] = Gone
          BY <1>2, <3>1, <4>2, <4>3, <5>1, TenantsCommit
        <5> QED
          BY <2>1, <5>2 DEF Present
      <4> QED
        BY <4>3
    <3> QED
      BY <3>2, <3>3
  <2>2. ASSUME NEW f \in Flows, Present(flows'[f])
        PROVE  /\ Present(tenants'[flows'[f].tenant_id])
               /\ Present(connections'[flows'[f].source])
               /\ Present(connections'[flows'[f].target])
    <3>1. CASE FlowInsertable(flows'[f]) /\ UNCHANGED <<tenants, connections>>
      BY <3>1 DEF FlowInsertable, TenantThere
    <3>2. CASE flows'[f] = flows[f]
      <4>1. Sane(flows[f]) /\ FlowInsertable(flows[f]) /\ f \in FlowsOf(flows[f].tenant_id)
        BY <2>2, <3>2 DEF FlowsSane, ReferencesHold, FlowsOf
      <4>2. /\ flows[f].tenant_id \in Tenants
            /\ flows[f].source \in Connections /\ flows[f].target \in Connections
            /\ TenantOf[flows[f].source] = flows[f].tenant_id
            /\ TenantOf[flows[f].target] = flows[f].tenant_id
        BY <4>1 DEF Sane, FlowRows
      <4>3. Present(tenants'[flows[f].tenant_id])
        BY <1>2, <4>1, <4>2, TenantsCommit DEF FlowInsertable
      <4>4. Present(connections'[flows[f].source]) /\ Present(connections'[flows[f].target])
        BY <1>2, <4>1, <4>2, ConnectionsCommit DEF FlowInsertable
      <4> QED
        BY <3>2, <4>3, <4>4
    <3> QED
      BY <1>2, <2>2, <3>1, <3>2, FlowsCommit
  <2>3. ASSUME NEW m \in Mappings, Present(mappings'[m])
        PROVE  Present(flows'[mappings'[m].flow_id])
    <3>1. CASE Present(mappings[m]) /\ mappings'[m].flow_id = mappings[m].flow_id
      <4>1. Present(flows[mappings[m].flow_id])
        BY <3>1 DEF ReferencesHold
      <4>2. mappings[m].flow_id \in Flows
        BY <3>1 DEF Shaped, IsMapping
      <4> QED
        BY <1>2, <2>3, <3>1, <4>1, <4>2, FlowsDeleted
    <3>2. CASE Present(flows[mappings'[m].flow_id]) /\ UNCHANGED flows
      BY <3>2
    <3> QED
      BY <1>2, <2>3, <3>1, <3>2, MappingsCommit
  <2>4. ASSUME NEW j \in Jobs, Present(jobs'[j])
        PROVE  Present(tenants'[jobs'[j].tenant_id])
    <3>1. CASE TenantThere(jobs'[j].tenant_id) /\ UNCHANGED tenants
      BY <3>1 DEF TenantThere
    <3>2. CASE Present(jobs[j]) /\ jobs'[j].tenant_id = jobs[j].tenant_id
      <4>1. TenantThere(jobs[j].tenant_id) /\ j \in JobsOf(jobs[j].tenant_id)
        BY <3>2 DEF ReferencesHold, JobsOf
      <4>2. jobs'[j] # Gone
        BY <2>4 DEF Present
      <4>3. jobs[j].tenant_id \in Tenants
        BY <3>2 DEF Shaped, IsJob
      <4> QED
        BY <1>2, <3>2, <4>1, <4>2, <4>3, TenantsCommit
    <3> QED
      BY <1>2, <2>4, <3>1, <3>2, JobsCommit
  <2> QED
    BY <2>1, <2>2, <2>3, <2>4 DEF ReferencesHold, Present, TenantThere, FlowInsertable
<1> QED
  BY <1>1, <1>2, Steps

\* What refers to a row never outlives it, the flow of a job aside.
THEOREM ReferencesHoldAlways == Spec => []ReferencesHold
<1>1. Init => Paired /\ Shaped /\ ReferencesHold
  BY PairedInit, ShapedInit DEF Init, ReferencesHold, Present
<1>2. LinkedInv /\ [Next]_vars => Paired' /\ Shaped' /\ ReferencesHold'
  BY PairedStep, ShapedStep, ReferencesStep DEF LinkedInv, RegistryInv
<1>3. RegistryInv /\ Paired /\ Shaped /\ ReferencesHold => LinkedInv
  BY DEF LinkedInv
<1> QED
  BY <1>1, <1>2, <1>3, RegistryHolds, PTL DEF Spec

-----------------------------------------------------------------------------
(* Tests of connections *)

Outcomes == {"success", "failed"}
Shows(row, outcome) == row = Tested(outcome)

\* What the tests that committed left, and what one under way may find at its commit:
\* the row as it loaded it, or as another one that committed since has left it.
TestsShown ==
  /\ latestTest = [c \in Connections |-> latestTest[c]]
  /\ meanwhile = [h \in Threads |-> meanwhile[h]]
  /\ \A c \in Connections :
       /\ connections[c] = Absent => latestTest[c] = {}
       /\ Present(connections[c]) =>
            \/ connections[c] = ConnectionRow("inactive", "none") /\ latestTest[c] = {}
            \/ \E outcome \in latestTest[c] \cap Outcomes : Shows(connections[c], outcome)
  /\ \A h \in Threads : act[h].pc = "test_connection" =>
       /\ act[h].id \in Connections /\ connections[act[h].id] # Absent
       /\ Present(connections[act[h].id]) =>
            \/ connections[act[h].id] = act[h].seen
            \/ \E outcome \in meanwhile[h] \cap Outcomes :
                 Shows(connections[act[h].id], outcome)

\* A test that would change one column of what it loaded changes both.
LEMMA MergedTest ==
  ASSUME NEW current \in ConnectionPairs, NEW loaded \in ConnectionPairs, NEW new \in TestedPairs
  PROVE  Merge(current, loaded, new) = IF loaded = new THEN current ELSE new
<1>1. DOMAIN current = {"status", "last_test_status"}
  BY DEF ConnectionPairs, TestedPairs, ConnectionRow
<1>2. /\ current = [c \in DOMAIN current |-> current[c]]
      /\ new = [c \in DOMAIN current |-> new[c]]
  BY <1>1 DEF ConnectionPairs, TestedPairs, ConnectionRow
<1>3. CASE loaded = new
  <2>1. Merge(current, loaded, new) = [c \in DOMAIN current |-> current[c]]
    BY <1>3 DEF Merge
  <2> QED
    BY <1>2, <1>3, <2>1
<1>4. CASE loaded # new
  <2>1. \A c \in DOMAIN current : new[c] # loaded[c]
    BY <1>1, <1>4 DEF ConnectionPairs, TestedPairs, ConnectionRow
  <2>2. Merge(current, loaded, new) = [c \in DOMAIN current |-> new[c]]
    BY <2>1 DEF Merge
  <2> QED
    BY <1>2, <1>4, <2>2
<1> QED
  BY <1>3, <1>4

\* A commit that changes the row of a connection deletes it, inserts it, or tests it.
LEMMA ConnectionsChange ==
  ASSUME RegistryInv, Paired, Commit, NEW c \in Connections, connections'[c] # connections[c]
  PROVE  \/ connections'[c] = Gone
         \/ /\ connections[c] = Absent
            /\ connections'[c] = ConnectionRow("inactive", "none")
         \/ \E h \in Threads : TestConnectionCommit(h) /\ act[h].id = c
<1> USE DEF RegistryInv
<1>1. ASSUME NEW h \in Threads, CreateConnectionCommit(h)
      PROVE  /\ connections[c] = Absent
             /\ connections'[c] = ConnectionRow("inactive", "none")
  BY <1>1 DEF CreateConnectionCommit, Tabled, Reserved
<1>2. ASSUME NEW h \in Threads, TestConnectionCommit(h)
      PROVE  act[h].id = c
  BY <1>2 DEF TestConnectionCommit, Tabled
<1>3. ASSUME NEW h \in Threads, DeleteTenantCommit(h)
      PROVE  connections'[c] = Gone
  BY <1>3 DEF DeleteTenantCommit
<1> QED
  BY <1>1, <1>2, <1>3 DEF Commit, CreateTenant, PatchTenantCommit, CreateFlowCommit,
     PatchFlowCommit, DeleteFlowCommit, RunFlowCommit, CreateMappingCommit,
     PatchMappingCommit, DeleteMapping, ExecuteOrphan, ExecuteSucceeds, ExecuteFails

\* A test that begins has loaded the row as it is, and the others go on.
LEMMA TestsShownOpening ==
  ASSUME RegistryInv, TestsShown, Opening
  PROVE  TestsShown'
<1>1. UNCHANGED <<tables, latestTest>> /\ Tabled
  BY OpeningReads DEF RegistryInv
<1>2. /\ meanwhile' = [h \in Threads |-> meanwhile'[h]]
      /\ \A g \in Threads : meanwhile'[g] = meanwhile[g] \/ act'[g] = Idle
  <2>1. UNCHANGED meanwhile \/ \E h \in Threads : AbandonRequest(h)
    BY DEF Opening, Begins, PatchTenant, DeleteTenantCount, CreateConnection, TestConnection,
       CreateFlow, PatchFlow, DeleteFlowCount, RunFlow, CreateMapping, PatchMapping, Execute, tests
  <2>2. ASSUME NEW h \in Threads, AbandonRequest(h)
        PROVE  /\ act'[h] = Idle
               /\ meanwhile' = [meanwhile EXCEPT ![h] = {}]
    BY <1>1, <2>2 DEF AbandonRequest, Leave, Tabled, Actors
  <2> QED
    BY <2>1, <2>2 DEF TestsShown
<1>3. ASSUME NEW g \in Threads, act'[g].pc = "test_connection"
      PROVE  /\ act'[g].id \in Connections /\ connections[act'[g].id] # Absent
             /\ Present(connections[act'[g].id]) =>
                  \/ connections[act'[g].id] = act'[g].seen
                  \/ \E outcome \in meanwhile'[g] \cap Outcomes :
                       Shows(connections[act'[g].id], outcome)
  <2>1. CASE Begins(g)
    <3>1. PICK c \in Connections : TestConnection(g, c)
      BY <1>1, <1>3, <2>1, Begun DEF Begins
    <3> QED
      BY <1>1, <3>1, Begun DEF Present
  <2>2. CASE ~Begins(g)
    <3>1. act'[g] = act[g] /\ meanwhile'[g] = meanwhile[g]
      BY <1>1, <1>2, <1>3, <2>2, Began DEF Idle
    <3> QED
      BY <1>3, <3>1 DEF TestsShown
  <2> QED
    BY <2>1, <2>2
<1> QED
  BY <1>1, <1>2, <1>3 DEF TestsShown, tables, Present, Shows

\* A test that commits leaves its own outcome, or, where it changes nothing, the one
\* there: the row it loaded showed its own, and any other has been committed since.
LEMMA TestsShownTest ==
  ASSUME RegistryInv, Paired, TestsShown, NEW h \in Threads, TestConnectionCommit(h)
  PROVE  TestsShown'
<1> DEFINE c == act[h].id
<1>1. /\ act[h].pc = "test_connection" /\ c \in Connections /\ connections[c] # Absent
      /\ act'[h] = Idle /\ \A g \in Threads : g # h => act'[g] = act[g]
  BY DEF TestConnectionCommit, TestsShown, Leave, RegistryInv, Tabled, Actors
<1>2. CASE ~Present(connections[c])
  <2>1. UNCHANGED <<connections, latestTest>> /\ meanwhile' = [meanwhile EXCEPT ![h] = {}]
    BY <1>2 DEF TestConnectionCommit
  <2>2. /\ meanwhile' = [g \in Threads |-> meanwhile'[g]]
        /\ \A g \in Threads : g # h => meanwhile'[g] = meanwhile[g]
    BY <2>1 DEF TestsShown
  <2>3. \A g \in Threads : act'[g].pc = "test_connection" => g # h
    BY <1>1 DEF Idle
  <2> QED
    BY <1>1, <2>1, <2>2, <2>3 DEF TestsShown, Present, Shows
<1>3. CASE Present(connections[c])
  <2>1. PICK outcome \in Outcomes :
          /\ connections' = [connections EXCEPT ![c] = Merge(@, act[h].seen, Tested(outcome))]
          /\ latestTest' = [latestTest EXCEPT ![c] = {outcome} \cup meanwhile[h]]
          /\ meanwhile' = [g \in Threads |->
                             IF g = h THEN {}
                             ELSE IF g \in Rivals(h) THEN meanwhile[g] \cup {outcome}
                             ELSE meanwhile[g]]
    BY <1>3 DEF TestConnectionCommit, Outcomes
  <2>2. /\ connections'[c] = Merge(connections[c], act[h].seen, Tested(outcome))
        /\ \A d \in Connections : d # c => connections'[d] = connections[d]
        /\ latestTest'[c] = {outcome} \cup meanwhile[h]
        /\ \A d \in Connections : d # c => latestTest'[d] = latestTest[d]
        /\ latestTest' = [d \in Connections |-> latestTest'[d]]
        /\ meanwhile' = [g \in Threads |-> meanwhile'[g]]
    BY <1>1, <2>1 DEF RegistryInv, Tabled, TestsShown
  <2>3. /\ connections[c] \in ConnectionPairs /\ act[h].seen \in ConnectionPairs
        /\ Tested(outcome) \in TestedPairs
    BY <1>1, <1>3 DEF Paired, Tested, TestedPairs
  <2>4. connections'[c] = IF act[h].seen = Tested(outcome) THEN connections[c] ELSE Tested(outcome)
    BY <2>2, <2>3, MergedTest
  <2>5. \E left \in latestTest'[c] \cap Outcomes : Shows(connections'[c], left)
    <3>1. CASE act[h].seen # Tested(outcome) \/ connections[c] = act[h].seen
      BY <2>2, <2>4, <3>1 DEF Shows
    <3>2. CASE act[h].seen = Tested(outcome) /\ connections[c] # act[h].seen
      <4>1. \E other \in meanwhile[h] \cap Outcomes : Shows(connections[c], other)
        BY <1>1, <1>3, <3>2 DEF TestsShown
      <4> QED
        BY <2>2, <2>4, <3>2, <4>1
    <3> QED
      BY <3>1, <3>2
  <2>6. connections'[c] # Absent
    BY <2>5 DEF Shows, Tested, ConnectionRow, Absent
  <2>7. ASSUME NEW g \in Threads, act'[g].pc = "test_connection"
        PROVE  /\ act'[g].id \in Connections /\ connections'[act'[g].id] # Absent
               /\ Present(connections'[act'[g].id]) =>
                    \/ connections'[act'[g].id] = act'[g].seen
                    \/ \E other \in meanwhile'[g] \cap Outcomes :
                         Shows(connections'[act'[g].id], other)
    <3>1. g # h /\ act'[g] = act[g]
      BY <1>1, <2>7 DEF Idle
    <3>2. /\ act[g].pc = "test_connection"
          /\ act[g].id \in Connections /\ connections[act[g].id] # Absent
          /\ Present(connections[act[g].id]) =>
               \/ connections[act[g].id] = act[g].seen
               \/ \E other \in meanwhile[g] \cap Outcomes :
                    Shows(connections[act[g].id], other)
      BY <2>7, <3>1 DEF TestsShown
    <3>3. CASE act[g].id = c
      <4>1. meanwhile'[g] = meanwhile[g] \cup {outcome}
        BY <2>1, <3>1, <3>2, <3>3 DEF Rivals
      <4>2. connections'[c] = connections[c] \/ Shows(connections'[c], outcome)
        BY <2>4 DEF Shows
      <4> QED
        BY <1>1, <1>3, <2>6, <3>1, <3>2, <3>3, <4>1, <4>2
    <3>4. CASE act[g].id # c
      <4>1. meanwhile'[g] = meanwhile[g]
        BY <2>1, <3>1, <3>4 DEF Rivals
      <4> QED
        BY <2>2, <3>1, <3>2, <3>4, <4>1
    <3> QED
      BY <3>3, <3>4
  <2>8. ASSUME NEW d \in Connections
        PROVE  /\ connections'[d] = Absent => latestTest'[d] = {}
               /\ Present(connections'[d]) =>
                    \/ connections'[d] = ConnectionRow("inactive", "none") /\ latestTest'[d] = {}
                    \/ \E left \in latestTest'[d] \cap Outcomes : Shows(connections'[d], left)
    BY <2>2, <2>5, <2>6 DEF TestsShown
  <2> QED
    BY <2>2, <2>7, <2>8 DEF TestsShown, Present, Shows
<1> QED
  BY <1>2, <1>3

\* The other commits leave the connections that were tested, or delete them.
LEMMA TestsShownCommit ==
  ASSUME RegistryInv, Paired, TestsShown, Commit
  PROVE  TestsShown'
<1>1. CASE \E h \in Threads : TestConnectionCommit(h)
  BY <1>1, TestsShownTest
<1>2. CASE ~\E h \in Threads : TestConnectionCommit(h)
  <2>1. UNCHANGED <<latestTest, meanwhile>>
    BY <1>2 DEF Commit, CreateTenant, PatchTenantCommit, DeleteTenantCommit,
       CreateConnectionCommit, CreateFlowCommit, PatchFlowCommit, DeleteFlowCommit,
       RunFlowCommit, CreateMappingCommit, PatchMappingCommit, DeleteMapping, ExecuteOrphan,
       ExecuteSucceeds, ExecuteFails, tests
  <2>2. ASSUME NEW c \in Connections
        PROVE  \/ connections'[c] = connections[c]
               \/ connections'[c] = Gone
               \/ connections[c] = Absent /\ connections'[c] = ConnectionRow("inactive", "none")
    BY <1>2, ConnectionsChange
  <2>3. \A c \in Connections :
          /\ connections'[c] = Absent => connections[c] = Absent
          /\ connections[c] # Absent /\ Present(connections'[c]) => connections'[c] = connections[c]
    BY <2>2 DEF Present, Absent, Gone, ConnectionRow
  <2>4. ASSUME NEW c \in Connections
        PROVE  /\ connections'[c] = Absent => latestTest[c] = {}
               /\ Present(connections'[c]) =>
                    \/ connections'[c] = ConnectionRow("inactive", "none") /\ latestTest[c] = {}
                    \/ \E left \in latestTest[c] \cap Outcomes : Shows(connections'[c], left)
    BY <2>2, <2>3 DEF TestsShown, Present
  <2>5. \A g \in Threads : act'[g].pc = "test_connection" => act'[g] = act[g]
    BY CommitLeaves DEF RegistryInv, Idle
  <2>6. ASSUME NEW g \in Threads, act'[g].pc = "test_connection"
        PROVE  /\ act'[g].id \in Connections /\ connections'[act'[g].id] # Absent
               /\ Present(connections'[act'[g].id]) =>
                    \/ connections'[act'[g].id] = act'[g].seen
                    \/ \E other \in meanwhile[g] \cap Outcomes :
                         Shows(connections'[act'[g].id], other)
    BY <2>3, <2>5, <2>6 DEF TestsShown, Present
  <2> QED
    BY <2>1, <2>4, <2>6 DEF TestsShown, Present, Shows
<1> QED
  BY <1>1, <1>2

\* A connection shows the outcome of its newest test or of one that committed while that
\* test was under way, however many tests of it overlap.
THEOREM LatestTestShownHolds == Spec => []LatestTestShown
<1>1. Init => Paired /\ TestsShown
  BY PairedInit DEF Init, TestsShown, Idle, Actors, Present
<1>2. RegistryInv /\ Paired /\ TestsShown /\ [Next]_vars => Paired' /\ TestsShown'
  <2> SUFFICES ASSUME RegistryInv, Paired, TestsShown, [Next]_vars PROVE TestsShown'
    BY PairedStep DEF RegistryInv
  <2>1. CASE UNCHANGED vars
    BY <2>1 DEF vars, tables, tests, TestsShown, Present, Shows
  <2> QED
    BY <2>1, Steps, TestsShownOpening, TestsShownCommit
<1>3. TestsShown => LatestTestShown
  BY DEF TestsShown, LatestTestShown, Shows, Tested, ConnectionRow, Outcomes
<1> QED
  BY <1>1, <1>2, <1>3, RegistryHolds, PTL DEF Spec

=============================================================================
