-------------------------- MODULE MCAdministration --------------------------
(* The instance of Administration for TLC. *)
EXTENDS Administration, TLC

CONSTANTS h1, h2, h3, w1, tA, tB, cSandbox, cProduction, cOther, f1, m1, j1, partner, product

\* One tenant with a sandbox and a production connection, one with another.
PayloadTenants == [c \in Connections |-> IF c = cOther THEN tB ELSE tA]
PayloadEnvironments ==
  [c \in Connections |-> IF c = cProduction THEN "production" ELSE "sandbox"]

\* A mock and a real read of one entity.
PartnerReads == {NoConfig} \cup [mode : {"mock", "real"}, entity : {partner}]

\* Flows of the first tenant that read the sandbox, and one of the other.
FlowPayloads ==
  {[tenant_id |-> tA, source |-> cSandbox, target |-> cSandbox,
    source_entity |-> partner, config |-> [mode |-> "mock", entity |-> partner], active |-> TRUE]}
  \cup {[tenant_id |-> tB, source |-> cOther, target |-> cOther,
         source_entity |-> partner, config |-> NoConfig, active |-> TRUE]}

\* One column each, and both connections at once.
FlowPatches ==
  {[source |-> c] : c \in Connections} \cup {[target |-> c] : c \in {cProduction, cOther}}
  \cup {[source |-> cOther, target |-> cOther], [source_entity |-> product], [active |-> FALSE]}
  \cup {[config |-> config] : config \in {c \in Configs : c.mode # "mock"}}

\* Tenants and connections that come and go under flows; flows that are
\* repointed and run; flows, mappings and jobs that come and go; and the same
\* with their tenant, three requests at once.
Mixes ==
  {[requests |-> {"create_tenant", "patch_tenant", "delete_tenant", "create_connection",
                  "test_connection", "create_flow", "delete_flow"},
    connections |-> {cSandbox, cOther}, atOnce |-> 2],
   [requests |-> {"create_connection", "create_flow", "patch_flow", "run_flow"},
    connections |-> Connections, atOnce |-> 2],
   [requests |-> {"create_connection", "create_flow", "delete_flow", "create_mapping",
                  "patch_mapping", "delete_mapping", "run_flow"},
    connections |-> {cSandbox}, atOnce |-> 2],
   [requests |-> {"create_tenant", "delete_tenant", "create_connection", "create_flow",
                  "delete_flow", "run_flow"},
    connections |-> {cSandbox}, atOnce |-> 3]}

ThreadSymmetry == Permutations(Threads)

=============================================================================
