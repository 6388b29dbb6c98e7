------------------------- MODULE AdministrationTypes -------------------------
(***************************************************************************)
(* The type invariant of Administration, for any ids, threads, workers,    *)
(* payloads and mixes of requests: the tables hold whole rows, however the *)
(* columns of overlapping requests are merged, and each actor carries what *)
(* its handler read.                                                       *)
(***************************************************************************)
EXTENDS AdministrationProofs

-----------------------------------------------------------------------------
(* What actors carry *)

WorkerStates == {Idle} \cup [pc : {"execute"}, id : Jobs, seen : FlowRows]

\* What a thread carries is told by the request it is in.
LEMMA Carried ==
  ASSUME NEW s \in ThreadStates
  PROVE  /\ s.pc = "patch_tenant" =>
              s.id \in Tenants /\ s.seen \in TenantRows /\ s.new \in TenantRows
         /\ s.pc = "delete_tenant" => s.id \in Tenants
         /\ s.pc = "create_connection" => s.id \in Connections /\ s.found \in BOOLEAN
         /\ s.pc = "test_connection" =>
              s.id \in Connections /\ s.seen \in ConnectionRows
         /\ s.pc = "create_flow" => s.id \in Flows /\ s.new \in FlowRows
         /\ s.pc = "patch_flow" =>
              /\ s.id \in Flows
              /\ \E f \in FlowRows, p \in Patches : s.changes = Changed(f, p)
         /\ s.pc = "delete_flow" => s.id \in Flows
         /\ s.pc = "create_mapping" => s.id \in Mappings /\ s.new \in MappingRows
         /\ s.pc = "patch_mapping" =>
              s.id \in Mappings /\ s.seen \in MappingRows /\ s.new \in MappingRows
         /\ s.pc = "run_flow" => s.id \in Jobs /\ s.new \in JobRows
<1>1. \/ s = Idle
      \/ s \in [pc : {"patch_tenant"}, id : Tenants, seen : TenantRows, new : TenantRows]
      \/ s \in [pc : {"delete_tenant"}, id : Tenants]
      \/ s \in [pc : {"create_connection"}, id : Connections, found : BOOLEAN]
      \/ s \in [pc : {"test_connection"}, id : Connections, seen : ConnectionRows]
      \/ s \in [pc : {"create_flow"}, id : Flows, new : FlowRows]
      \/ s \in [pc : {"patch_flow"}, id : Flows,
                changes : {Changed(f, p) : f \in FlowRows, p \in Patches}]
      \/ s \in [pc : {"delete_flow"}, id : Flows]
      \/ s \in [pc : {"create_mapping"}, id : Mappings, new : MappingRows]
      \/ s \in [pc : {"patch_mapping"}, id : Mappings, seen : MappingRows, new : MappingRows]
      \/ s \in [pc : {"run_flow"}, id : Jobs, new : JobRows]
  BY DEF ThreadStates
<1>2. CASE s = Idle
  BY <1>2 DEF Idle
<1> QED
  BY <1>1, <1>2

\* The rows that handlers make.
LEMMA MadeRows ==
  /\ \A status \in {"active", "inactive"} : TenantRow(status) \in TenantRows
  /\ ConnectionRow("inactive", "none") \in ConnectionRows
  /\ \A outcome : Tested(outcome) \in ConnectionRows
BY DEF TenantRow, TenantRows, ConnectionRow, ConnectionRows, Tested

\* What each kind of request begins with is typed.
LEMMA BeginsTyped ==
  ASSUME Tabled, TypeOK, NEW h \in Threads, Begins(h)
  PROVE  act'[h] \in ThreadStates
<1>0. h \in Actors
  BY DEF Actors
<1>1. ASSUME NEW t \in Tenants, PatchTenant(h, t) PROVE act'[h] \in ThreadStates
  <2>1. PICK status \in {"active", "inactive"} :
          act'[h] = [pc |-> "patch_tenant", id |-> t, seen |-> tenants[t],
                     new |-> TenantRow(status)]
    BY <1>0, <1>1, Beginning DEF PatchTenant
  <2>2. tenants[t] \in TenantRows
    BY <1>1 DEF PatchTenant, TenantThere, Present, TypeOK
  <2> QED
    BY <2>1, <2>2, MadeRows DEF ThreadStates
<1>2. ASSUME NEW t \in Tenants, DeleteTenantCount(h, t) PROVE act'[h] \in ThreadStates
  <2>1. act'[h] = [pc |-> "delete_tenant", id |-> t]
    BY <1>0, <1>2, Beginning DEF DeleteTenantCount
  <2> QED
    BY <2>1 DEF ThreadStates
<1>3. ASSUME NEW c \in Connections, CreateConnection(h, c) PROVE act'[h] \in ThreadStates
  <2>1. act'[h] = [pc |-> "create_connection", id |-> c, found |-> TenantThere(TenantOf[c])]
    BY <1>0, <1>3, Beginning DEF CreateConnection
  <2>2. TenantThere(TenantOf[c]) \in BOOLEAN
    BY DEF TenantThere, Present
  <2> HIDE DEF TenantThere
  <2> QED
    BY <2>1, <2>2 DEF ThreadStates
<1>4. ASSUME NEW c \in Connections, TestConnection(h, c) PROVE act'[h] \in ThreadStates
  <2>1. act'[h] = [pc |-> "test_connection", id |-> c, seen |-> connections[c]]
    BY <1>0, <1>4, Beginning DEF TestConnection
  <2>2. connections[c] \in ConnectionRows
    BY <1>4 DEF TestConnection, Present, TypeOK
  <2> QED
    BY <2>1, <2>2 DEF ThreadStates
<1>5. ASSUME NEW f \in Flows, CreateFlow(h, f) PROVE act'[h] \in ThreadStates
  <2>1. PICK new \in NewFlows : act'[h] = [pc |-> "create_flow", id |-> f, new |-> new]
    BY <1>0, <1>5, Beginning DEF CreateFlow
  <2> QED
    BY <2>1, FlowPayloadsAssumption DEF ThreadStates
<1>6. ASSUME NEW f \in Flows, PatchFlow(h, f) PROVE act'[h] \in ThreadStates
  <2>1. PICK patch \in Patches :
          act'[h] = [pc |-> "patch_flow", id |-> f, changes |-> Changed(flows[f], patch)]
    BY <1>0, <1>6, Beginning DEF PatchFlow
  <2>2. flows[f] \in FlowRows
    BY <1>6 DEF PatchFlow, Present, TypeOK
  <2>3. Changed(flows[f], patch) \in {Changed(g, p) : g \in FlowRows, p \in Patches}
    BY <2>2
  <2> QED
    BY <2>1, <2>3 DEF ThreadStates
<1>7. ASSUME NEW f \in Flows, DeleteFlowCount(h, f) PROVE act'[h] \in ThreadStates
  <2>1. act'[h] = [pc |-> "delete_flow", id |-> f]
    BY <1>0, <1>7, Beginning DEF DeleteFlowCount
  <2> QED
    BY <2>1 DEF ThreadStates
<1>8. ASSUME NEW m \in Mappings, CreateMapping(h, m) PROVE act'[h] \in ThreadStates
  <2>1. PICK f \in Flows, active \in BOOLEAN :
          act'[h] = [pc |-> "create_mapping", id |-> m,
                     new |-> [flow_id |-> f, active |-> active]]
    BY <1>0, <1>8, Beginning DEF CreateMapping
  <2> QED
    BY <2>1 DEF ThreadStates, MappingRows
<1>9. ASSUME NEW m \in Mappings, PatchMapping(h, m) PROVE act'[h] \in ThreadStates
  <2>1. PICK active \in BOOLEAN :
          act'[h] = [pc |-> "patch_mapping", id |-> m, seen |-> mappings[m],
                     new |-> [mappings[m] EXCEPT !.active = active]]
    BY <1>0, <1>9, Beginning DEF PatchMapping
  <2>2. mappings[m] \in MappingRows
    BY <1>9 DEF PatchMapping, Present, TypeOK
  <2>3. [mappings[m] EXCEPT !.active = active] \in MappingRows
    BY <2>2 DEF MappingRows
  <2> QED
    BY <2>1, <2>2, <2>3 DEF ThreadStates
<1>10. ASSUME NEW f \in Flows, NEW j \in Jobs, RunFlow(h, f, j) PROVE act'[h] \in ThreadStates
  <2>1. act'[h] = [pc |-> "run_flow", id |-> j,
                   new |-> [flow_id |-> f, tenant_id |-> flows[f].tenant_id,
                            status |-> "pending"]]
    BY <1>0, <1>10, Beginning DEF RunFlow
  <2>2. flows[f].tenant_id \in Tenants
    BY <1>10 DEF RunFlow, Present, TypeOK, FlowRows
  <2> QED
    BY <2>1, <2>2 DEF ThreadStates, JobRows
<1> QED
  BY <1>1, <1>2, <1>3, <1>4, <1>5, <1>6, <1>7, <1>8, <1>9, <1>10 DEF Begins

\* An opening leaves every actor with something typed.
LEMMA OpeningTyped ==
  ASSUME Tabled, TypeOK, Opening
  PROVE  /\ \A h \in Threads : act'[h] \in ThreadStates
         /\ \A w \in Workers : act'[w] \in WorkerStates
<1>1. /\ \A h \in Threads : act[h] \in ThreadStates
      /\ \A w \in Workers : act[w] \in WorkerStates
  BY DEF TypeOK, WorkerStates
<1>2. ASSUME NEW h \in Threads PROVE act'[h] \in ThreadStates
  <2>1. CASE act'[h] \in {act[h], Idle}
    BY <1>1, <2>1 DEF ThreadStates
  <2> QED
    BY <2>1, Began, BeginsTyped
<1>3. ASSUME NEW w \in Workers PROVE act'[w] \in WorkerStates
  <2>1. ASSUME NEW h \in Threads, NEW doing, Begin(h, doing) PROVE act'[w] = act[w]
    BY <2>1, Beginning, AdminActorsAssumption DEF Actors
  <2>2. ASSUME NEW h \in Threads, Begins(h)
        PROVE  \E doing : Begin(h, doing)
    <3>1. CASE \E t \in Tenants : PatchTenant(h, t) \/ DeleteTenantCount(h, t)
      BY <3>1 DEF PatchTenant, DeleteTenantCount
    <3>2. CASE \E c \in Connections : CreateConnection(h, c) \/ TestConnection(h, c)
      BY <3>2 DEF CreateConnection, TestConnection
    <3>3. CASE \E f \in Flows : CreateFlow(h, f) \/ DeleteFlowCount(h, f)
      BY <3>3 DEF CreateFlow, DeleteFlowCount
    <3>4. CASE \E f \in Flows : PatchFlow(h, f)
      BY <3>4 DEF PatchFlow
    <3>5. CASE \E f \in Flows, j \in Jobs : RunFlow(h, f, j)
      BY <3>5 DEF RunFlow
    <3>6. CASE \E m \in Mappings : CreateMapping(h, m) \/ PatchMapping(h, m)
      BY <3>6 DEF CreateMapping, PatchMapping
    <3> QED
      BY <2>2, <3>1, <3>2, <3>3, <3>4, <3>5, <3>6 DEF Begins
  <2>4. ASSUME NEW h \in Threads, AbandonRequest(h) PROVE act'[w] = act[w]
    BY <2>4, AdminActorsAssumption DEF AbandonRequest, Leave, Tabled, Actors
  <2>5. ASSUME NEW v \in Workers, NEW j \in Jobs, Execute(v, j) PROVE act'[w] \in WorkerStates
    <3>1. Begin(v, [pc |-> "execute", id |-> j, seen |-> flows[jobs[j].flow_id]])
      BY <2>5 DEF Execute
    <3>2. flows[jobs[j].flow_id] \in FlowRows
      <4>1. jobs[j] \in JobRows
        BY <2>5 DEF Execute, Present, TypeOK
      <4>2. jobs[j].flow_id \in Flows
        BY <4>1 DEF JobRows
      <4> QED
        BY <2>5, <4>2 DEF Execute, Present, TypeOK
    <3> QED
      BY <1>1, <3>1, <3>2, Beginning DEF WorkerStates, Actors
  <2> QED
    BY <1>1, <2>1, <2>2, <2>4, <2>5 DEF Opening
<1> QED
  BY <1>2, <1>3

-----------------------------------------------------------------------------
(* What commits write *)

\* The part of TypeOK that commits write.
TablesTyped ==
  /\ tenants \in [Tenants -> {Absent, Gone} \cup TenantRows]
  /\ connections \in [Connections -> {Absent, Gone} \cup ConnectionRows]
  /\ flows \in [Flows -> {Absent, Gone} \cup FlowRows]
  /\ mappings \in [Mappings -> {Absent, Gone} \cup MappingRows]
  /\ jobs \in [Jobs -> {Absent, Gone} \cup JobRows]
  /\ failed \subseteq Tenants \cup Flows
  /\ clients \in Clients
  /\ latestTest \in [Connections -> SUBSET {"success", "failed"}]
  /\ meanwhile \in [Threads -> SUBSET {"success", "failed"}]
  /\ erpReads \subseteq Connections

\* A column-wise merge of two rows of a table is a row of it, whatever was loaded.
LEMMA MergedTyped ==
  ASSUME NEW loaded
  PROVE  /\ \A current, new \in TenantRows : Merge(current, loaded, new) \in TenantRows
         /\ \A current, new \in ConnectionRows :
              Merge(current, loaded, new) \in ConnectionRows
         /\ \A current, new \in MappingRows : Merge(current, loaded, new) \in MappingRows
<1>1. ASSUME NEW current \in TenantRows, NEW new \in TenantRows
      PROVE  Merge(current, loaded, new) \in TenantRows
  <2> DEFINE Of(c) == IF new[c] # loaded[c] THEN new[c] ELSE current[c]
  <2>1. Merge(current, loaded, new) = [status |-> Of("status"), active |-> Of("active")]
    BY DEF Merge, TenantRows
  <2> QED
    BY <2>1 DEF TenantRows
<1>2. ASSUME NEW current \in ConnectionRows, NEW new \in ConnectionRows
      PROVE  Merge(current, loaded, new) \in ConnectionRows
  <2> DEFINE Of(c) == IF new[c] # loaded[c] THEN new[c] ELSE current[c]
  <2>1. Merge(current, loaded, new) =
          [status |-> Of("status"), last_test_status |-> Of("last_test_status")]
    BY DEF Merge, ConnectionRows
  <2> QED
    BY <2>1 DEF ConnectionRows
<1>3. ASSUME NEW current \in MappingRows, NEW new \in MappingRows
      PROVE  Merge(current, loaded, new) \in MappingRows
  <2> DEFINE Of(c) == IF new[c] # loaded[c] THEN new[c] ELSE current[c]
  <2>1. Merge(current, loaded, new) = [flow_id |-> Of("flow_id"), active |-> Of("active")]
    BY DEF Merge, MappingRows
  <2> QED
    BY <2>1 DEF MappingRows
<1> QED
  BY <1>1, <1>2, <1>3

\* A flow with the changes of any PATCH is a flow.
LEMMA PatchedTyped ==
  ASSUME NEW row \in FlowRows, NEW f \in FlowRows, NEW patch \in Patches
  PROVE  Patched(row, Changed(f, patch)) \in FlowRows
<1> DEFINE changes == Changed(f, patch)
<1>1. PICK other \in FlowRows :
        /\ DOMAIN patch \subseteq DOMAIN other \ {"tenant_id"}
        /\ \A column \in DOMAIN patch : patch[column] = other[column]
  BY FlowPayloadsAssumption
<1>2. /\ DOMAIN changes \subseteq DOMAIN patch
      /\ \A column \in DOMAIN changes : changes[column] = patch[column]
  BY DEF Changed
<1> DEFINE Of(column) == IF column \in DOMAIN changes THEN other[column] ELSE row[column]
<1> HIDE DEF changes
<1>3. Patched(row, changes) =
        [tenant_id |-> row.tenant_id, source |-> Of("source"), target |-> Of("target"),
         source_entity |-> Of("source_entity"), config |-> Of("config"),
         active |-> Of("active")]
  BY <1>1, <1>2 DEF Patched, FlowRows
<1>4. /\ Of("source") \in Connections /\ Of("target") \in Connections
      /\ Of("source_entity") \in Entities /\ Of("config") \in Configs
      /\ Of("active") \in BOOLEAN /\ row.tenant_id \in Tenants
  BY DEF FlowRows
<1> HIDE DEF Of
<1> QED
  BY <1>3, <1>4 DEF FlowRows, changes

\* The commits of requests for tenants and connections.
LEMMA RegistrationTyped ==
  ASSUME TypeOK, NEW h \in Threads,
         \/ CreateTenant(h) \/ PatchTenantCommit(h) \/ DeleteTenantCommit(h)
         \/ CreateConnectionCommit(h) \/ TestConnectionCommit(h)
  PROVE  TablesTyped'
<1> USE DEF tests
<1>0. TablesTyped /\ act[h] \in ThreadStates
  BY DEF TypeOK, TablesTyped
<1>1. CASE CreateTenant(h)
  BY <1>0, <1>1, MadeRows DEF CreateTenant, TablesTyped
<1>2. CASE PatchTenantCommit(h)
  <2>1. /\ act[h].id \in Tenants /\ act[h].new \in TenantRows
        /\ UNCHANGED <<connections, flows, mappings, jobs, failed, tests, erpReads, clients>>
    BY <1>0, <1>2, Carried DEF PatchTenantCommit
  <2>2. tenants' \in [Tenants -> {Absent, Gone} \cup TenantRows]
    <3>1. CASE ~TenantThere(act[h].id)
      BY <1>0, <1>2, <3>1 DEF PatchTenantCommit, TablesTyped
    <3>2. CASE TenantThere(act[h].id)
      <4>1. tenants[act[h].id] \in TenantRows
        BY <1>0, <2>1, <3>2 DEF TenantThere, Present, TablesTyped
      <4>2. Merge(tenants[act[h].id], act[h].seen, act[h].new) \in TenantRows
        BY <2>1, <4>1, MergedTyped
      <4> QED
        BY <1>0, <1>2, <3>2, <4>2 DEF PatchTenantCommit, TablesTyped
    <3> QED
      BY <3>1, <3>2
  <2> QED
    BY <1>0, <2>1, <2>2 DEF TablesTyped
<1>3. CASE DeleteTenantCommit(h)
  BY <1>0, <1>3 DEF DeleteTenantCommit, TablesTyped
<1>4. CASE CreateConnectionCommit(h)
  <2>1. act[h].id \in Connections /\ TenantOf[act[h].id] \in Tenants
    BY <1>0, <1>4, Carried, PayloadAssumption DEF CreateConnectionCommit
  <2>2. TenantRow("active") \in TenantRows
    BY MadeRows
  <2> QED
    BY <1>0, <1>4, <2>1, <2>2, MadeRows DEF CreateConnectionCommit, TablesTyped
<1>5. CASE TestConnectionCommit(h)
  <2>1. PICK outcome \in {"success", "failed"} :
          LET c == act[h].id IN
            IF Present(connections[c])
              THEN /\ connections' =
                        [connections EXCEPT ![c] = Merge(@, act[h].seen, Tested(outcome))]
                   /\ failed' = IF outcome = "failed" THEN failed \cup {TenantOf[c]} ELSE failed
                   /\ latestTest' = [latestTest EXCEPT ![c] = {outcome} \cup meanwhile[h]]
                   /\ meanwhile' = [g \in Threads |->
                                       IF g = h THEN {}
                                       ELSE IF g \in Rivals(h) THEN meanwhile[g] \cup {outcome}
                                       ELSE meanwhile[g]]
              ELSE /\ meanwhile' = [meanwhile EXCEPT ![h] = {}]
                   /\ UNCHANGED <<connections, failed, latestTest>>
    BY <1>5 DEF TestConnectionCommit
  <2>2. act[h].id \in Connections /\ TenantOf[act[h].id] \in Tenants
    BY <1>0, <1>5, Carried, PayloadAssumption DEF TestConnectionCommit
  <2>3. CASE Present(connections[act[h].id])
    <3>1. connections[act[h].id] \in ConnectionRows
      BY <1>0, <2>2, <2>3 DEF Present, TablesTyped
    <3>2. Merge(connections[act[h].id], act[h].seen, Tested(outcome)) \in ConnectionRows
      BY <3>1, MergedTyped, MadeRows
    <3>3. connections' \in [Connections -> {Absent, Gone} \cup ConnectionRows]
      BY <1>0, <2>1, <2>3, <3>2 DEF TablesTyped
    <3>4. /\ failed' \subseteq Tenants \cup Flows
          /\ latestTest' \in [Connections -> SUBSET {"success", "failed"}]
          /\ meanwhile' \in [Threads -> SUBSET {"success", "failed"}]
      BY <1>0, <2>1, <2>2, <2>3 DEF TablesTyped
    <3> QED
      BY <1>0, <1>5, <3>3, <3>4 DEF TestConnectionCommit, TablesTyped
  <2>4. CASE ~Present(connections[act[h].id])
    BY <1>0, <1>5, <2>1, <2>4 DEF TestConnectionCommit, TablesTyped
  <2> QED
    BY <2>3, <2>4
<1> QED
  BY <1>1, <1>2, <1>3, <1>4, <1>5

\* The commits of requests for flows and mappings.
LEMMA ConfigurationTyped ==
  ASSUME TypeOK, NEW h \in Threads,
         \/ CreateFlowCommit(h) \/ PatchFlowCommit(h) \/ DeleteFlowCommit(h) \/ RunFlowCommit(h)
         \/ CreateMappingCommit(h) \/ PatchMappingCommit(h)
         \/ \E m \in Mappings : DeleteMapping(h, m)
  PROVE  TablesTyped'
<1> USE DEF tests
<1>0. TablesTyped /\ act[h] \in ThreadStates
  BY DEF TypeOK, TablesTyped
<1>1. CASE CreateFlowCommit(h)
  <2>1. act[h].id \in Flows /\ act[h].new \in FlowRows
    BY <1>0, <1>1, Carried DEF CreateFlowCommit
  <2> QED
    BY <1>0, <1>1, <2>1 DEF CreateFlowCommit, TablesTyped
<1>2. CASE PatchFlowCommit(h)
  <2> DEFINE merged == Patched(flows[act[h].id], act[h].changes)
  <2>1. /\ act[h].id \in Flows
        /\ \E f \in FlowRows, p \in Patches : act[h].changes = Changed(f, p)
    BY <1>0, <1>2, Carried DEF PatchFlowCommit
  <2>2. Present(flows[act[h].id]) => merged \in FlowRows
    <3>1. Present(flows[act[h].id]) => flows[act[h].id] \in FlowRows
      BY <1>0, <2>1 DEF Present, TablesTyped
    <3> QED
      BY <2>1, <3>1, PatchedTyped
  <2>3. flows' \in {flows, [flows EXCEPT ![act[h].id] = merged]}
        /\ (~Present(flows[act[h].id]) => flows' = flows)
    BY <1>2 DEF PatchFlowCommit
  <2>4. flows' \in [Flows -> {Absent, Gone} \cup FlowRows]
    <3> HIDE DEF merged
    <3> QED
      BY <1>0, <2>2, <2>3 DEF TablesTyped
  <2> QED
    BY <1>0, <1>2, <2>4 DEF PatchFlowCommit, TablesTyped
<1>3. CASE DeleteFlowCommit(h)
  BY <1>0, <1>3 DEF DeleteFlowCommit, TablesTyped
<1>4. CASE RunFlowCommit(h)
  <2>1. act[h].id \in Jobs /\ act[h].new \in JobRows
    BY <1>0, <1>4, Carried DEF RunFlowCommit
  <2> QED
    BY <1>0, <1>4, <2>1 DEF RunFlowCommit, TablesTyped
<1>5. CASE CreateMappingCommit(h)
  <2>1. act[h].id \in Mappings /\ act[h].new \in MappingRows
    BY <1>0, <1>5, Carried DEF CreateMappingCommit
  <2> QED
    BY <1>0, <1>5, <2>1 DEF CreateMappingCommit, TablesTyped
<1>6. CASE PatchMappingCommit(h)
  <2>1. act[h].id \in Mappings /\ act[h].new \in MappingRows
    BY <1>0, <1>6, Carried DEF PatchMappingCommit
  <2>2. CASE Present(mappings[act[h].id])
    <3>1. mappings[act[h].id] \in MappingRows
      BY <1>0, <2>1, <2>2 DEF Present, TablesTyped
    <3>2. Merge(mappings[act[h].id], act[h].seen, act[h].new) \in MappingRows
      BY <2>1, <3>1, MergedTyped
    <3> QED
      BY <1>0, <1>6, <2>2, <3>2 DEF PatchMappingCommit, TablesTyped
  <2>3. CASE ~Present(mappings[act[h].id])
    BY <1>0, <1>6, <2>3 DEF PatchMappingCommit, TablesTyped
  <2> QED
    BY <2>2, <2>3
<1>7. CASE \E m \in Mappings : DeleteMapping(h, m)
  BY <1>0, <1>7 DEF DeleteMapping, TablesTyped
<1> QED
  BY <1>1, <1>2, <1>3, <1>4, <1>5, <1>6, <1>7

\* The ends of attempts.
LEMMA ExecutionTyped ==
  ASSUME TypeOK, NEW w \in Workers,
         ExecuteSucceeds(w) \/ ExecuteFails(w) \/ \E j \in Jobs : ExecuteOrphan(w, j)
  PROVE  TablesTyped'
<1> USE DEF tests
<1>0. TablesTyped /\ act[w] \in WorkerStates
  BY DEF TypeOK, TablesTyped, WorkerStates
<1>1. act[w].pc = "execute" => act[w].id \in Jobs /\ act[w].seen \in FlowRows
  BY <1>0 DEF WorkerStates, Idle
<1>2. ASSUME NEW j, NEW status \in {"stranded", "done"}, Present(jobs[j]), Conclude(j, status),
             j \in Jobs
      PROVE  jobs' \in [Jobs -> {Absent, Gone} \cup JobRows]
  <2>1. jobs[j] \in JobRows
    BY <1>0, <1>2 DEF Present, TablesTyped
  <2>2. [jobs[j] EXCEPT !.status = status] \in JobRows
    BY <1>2, <2>1 DEF JobRows
  <2>3. jobs' = [jobs EXCEPT ![j] = [jobs[j] EXCEPT !.status = status]]
    BY <1>2 DEF Conclude
  <2> QED
    BY <1>0, <2>2, <2>3 DEF TablesTyped
<1>3. \A f \in FlowRows : Read(f) \subseteq Connections
  BY DEF Read, FlowRows
<1>4. CASE ExecuteSucceeds(w)
  <2>1. /\ act[w].pc = "execute" /\ erpReads' = erpReads \cup Read(act[w].seen)
        /\ IF Present(jobs[act[w].id]) THEN Conclude(act[w].id, "done") ELSE UNCHANGED jobs
        /\ UNCHANGED <<tenants, connections, flows, mappings, failed, tests, clients>>
    BY <1>4 DEF ExecuteSucceeds
  <2>2. jobs' \in [Jobs -> {Absent, Gone} \cup JobRows]
    BY <1>0, <1>1, <1>2, <2>1 DEF TablesTyped
  <2>3. erpReads' \subseteq Connections
    BY <1>0, <1>1, <1>3, <2>1 DEF TablesTyped
  <2> QED
    BY <1>0, <2>1, <2>2, <2>3 DEF TablesTyped
<1>5. CASE ExecuteFails(w)
  <2> DEFINE j == act[w].id
  <2>1. /\ act[w].pc = "execute" /\ erpReads' = erpReads \cup Read(act[w].seen)
        /\ UNCHANGED <<tenants, connections, flows, mappings, tests, clients>>
        /\ \/ UNCHANGED <<jobs, failed>>
           \/ /\ Present(jobs[j]) /\ Conclude(j, "done")
              /\ failed' = failed \cup {jobs[j].tenant_id, jobs[j].flow_id}
           \/ Present(jobs[j]) /\ Conclude(j, "stranded") /\ UNCHANGED failed
    BY <1>5 DEF ExecuteFails
  <2>2. j \in Jobs /\ act[w].seen \in FlowRows
    BY <1>1, <2>1
  <2> HIDE DEF j
  <2>3. jobs' \in [Jobs -> {Absent, Gone} \cup JobRows]
    BY <1>0, <1>2, <2>1, <2>2 DEF TablesTyped
  <2>4. Present(jobs[j]) => jobs[j].tenant_id \in Tenants /\ jobs[j].flow_id \in Flows
    BY <1>0, <2>2 DEF Present, TablesTyped, JobRows
  <2>5. failed' \subseteq Tenants \cup Flows
    BY <1>0, <2>1, <2>4 DEF TablesTyped
  <2>6. erpReads' \subseteq Connections
    BY <1>0, <1>3, <2>1, <2>2 DEF TablesTyped
  <2> QED
    BY <1>0, <2>1, <2>3, <2>5, <2>6 DEF TablesTyped
<1>6. CASE \E j \in Jobs : ExecuteOrphan(w, j)
  <2>1. PICK j \in Jobs : ExecuteOrphan(w, j)
    BY <1>6
  <2>2. jobs' \in [Jobs -> {Absent, Gone} \cup JobRows]
    BY <1>2, <2>1 DEF ExecuteOrphan
  <2> QED
    BY <1>0, <2>1, <2>2 DEF ExecuteOrphan, TablesTyped
<1> QED
  BY <1>4, <1>5, <1>6

\* A commit begins nothing, for threads and for workers.
LEMMA CommitEnds ==
  ASSUME Tabled, Commit
  PROVE  \A a \in Actors : act'[a] \in {act[a], Idle}
<1>1. UNCHANGED act \/ \E a \in Actors : Leave(a)
  BY DEF Commit, CreateTenant, PatchTenantCommit, DeleteTenantCommit, CreateConnectionCommit,
         TestConnectionCommit, CreateFlowCommit, PatchFlowCommit, DeleteFlowCommit,
         RunFlowCommit, CreateMappingCommit, PatchMappingCommit, DeleteMapping, ExecuteOrphan,
         ExecuteSucceeds, ExecuteFails, Actors
<1> QED
  BY <1>1 DEF Leave, Actors, Tabled

-----------------------------------------------------------------------------

\* The tables hold whole rows of their types, and each actor what its handler read and
\* means to write, for any ids, payloads and mixes of overlapping requests.
THEOREM RegistryTypesHold == Spec => []TypeOK
<1>1. Init => TypeOK
  BY DEF Init, TypeOK, ThreadStates, Actors
<1>2. ASSUME Tabled, TypeOK, [Next]_vars PROVE TypeOK'
  <2> USE <1>2
  <2>1. CASE Opening
    <3>1. /\ UNCHANGED <<tables, latestTest, erpReads, clients>>
          /\ meanwhile' \in [Threads -> SUBSET {"success", "failed"}]
      <4>1. UNCHANGED meanwhile \/ \E h \in Threads : AbandonRequest(h)
        BY <2>1 DEF Opening, Begins, PatchTenant, DeleteTenantCount, CreateConnection,
           TestConnection, CreateFlow, PatchFlow, DeleteFlowCount, RunFlow, CreateMapping,
           PatchMapping, Execute, tests
      <4> QED
        BY <2>1, <4>1, OpeningReads DEF AbandonRequest, TypeOK
    <3>2. /\ \A h \in Threads : act'[h] \in ThreadStates
          /\ \A w \in Workers : act'[w] \in WorkerStates
      BY <2>1, OpeningTyped
    <3> QED
      BY <3>1, <3>2 DEF tables, TypeOK, WorkerStates, ThreadStates
  <2>2. CASE Commit
    <3>1. TablesTyped'
      BY <2>2, RegistrationTyped, ConfigurationTyped, ExecutionTyped DEF Commit
    <3>2. /\ \A h \in Threads : act'[h] \in ThreadStates
          /\ \A w \in Workers : act'[w] \in WorkerStates
      BY <2>2, CommitEnds DEF Actors, TypeOK, WorkerStates, ThreadStates
    <3> QED
      BY <3>1, <3>2 DEF TypeOK, TablesTyped, WorkerStates, ThreadStates
  <2>3. CASE UNCHANGED vars
    BY <2>3 DEF vars, tables, tests, TypeOK, ThreadStates
  <2> QED
    BY <2>1, <2>2, <2>3, Steps
<1> QED
  BY <1>1, <1>2, TabledInit, TabledStep, PTL DEF Spec

=============================================================================
