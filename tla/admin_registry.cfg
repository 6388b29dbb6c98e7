SPECIFICATION Spec
CONSTANTS
  h1 = h1
  h2 = h2
  h3 = h3
  w1 = w1
  tA = tA
  tB = tB
  cSandbox = cSandbox
  cProduction = cProduction
  cOther = cOther
  f1 = f1
  m1 = m1
  j1 = j1
  partner = partner
  product = product
  Tenants = {tA, tB}
  Connections = {cSandbox, cProduction, cOther}
  Flows = {f1}
  Mappings = {m1}
  Jobs = {j1}
  Threads = {h1, h2, h3}
  Workers = {w1}
  TenantOf <- PayloadTenants
  EnvironmentOf <- PayloadEnvironments
  Entities = {partner, product}
  Configs <- PartnerReads
  NewFlows <- FlowPayloads
  Patches <- FlowPatches
  Clients <- Mixes
SYMMETRY ThreadSymmetry
INVARIANT TypeOK
INVARIANT ReferencesHold
INVARIANT FlowsWithinTenant
INVARIANT PairsAgree
INVARIANT LatestTestShown
INVARIANT ReadsStayInSandbox
PROPERTY NoResurrection
CHECK_DEADLOCK FALSE
