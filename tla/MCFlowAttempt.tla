---------------------------- MODULE MCFlowAttempt ----------------------------
(***************************************************************************)
(* A small catalog, the flows that tell the branches of an attempt apart,  *)
(* and the answers of an ERP that keeps to nothing.                        *)
(***************************************************************************)
EXTENDS FlowAttempt

SourceFields == {"code", "name", "doc"}
TargetFields == {"t1", "t2"}

Entry(entity, allowed, defaults, maxLimit) ==
  [entity |-> entity, allowed |-> allowed, defaults |-> defaults,
   defaultLimit |-> 1, maxLimit |-> maxLimit]
SmallCatalog ==
  [sankhya_read_partner |-> Entry("Parceiro", {"code", "name"}, {"code"}, 2),
   sankhya_read_company |-> Entry("Empresa", {"code", "doc"}, {"code", "doc"}, 1)]

Config(operation, entity, fields, limit, mode) ==
  [operation |-> operation, entity |-> entity, fields |-> fields,
   limit |-> limit, mode |-> mode]
NoConfig == Config(None, None, {}, None, None)

Flow(config, mappings, payload, credentials) ==
  [active |-> TRUE, platform |-> "sankhya", environment |-> "sandbox",
   sourceEntity |-> "Parceiro", config |-> config, mappings |-> mappings,
   payload |-> payload, credentials |-> credentials]

NoPayload == [f \in SourceFields |-> None]

\* Mappings that share sources and targets, with and without defaults.
Pool ==
  {Mapping("code", "t1", "none", None, TRUE),
   Mapping("code", "t1", "digits", "decimal", TRUE),
   Mapping("code", "t2", "decimal", "digits", FALSE),
   Mapping("name", "t1", "trim", None, TRUE),
   Mapping("name", "t2", "date", "empty", TRUE),
   Mapping("name", "t2", "default", "word", FALSE),
   Mapping("name", "t2", "case", None, TRUE)}
Payloads ==
  {[code |-> c, name |-> n, doc |-> None] :
     c \in {"word", "empty", "decimal", None}, n \in {"blank", "date", "number", None}}

WriteFlows ==
  {Flow(NoConfig, {m, n}, payload, "oauth") : m, n \in Pool, payload \in Payloads}

Partner(fields, limit, mode) ==
  Config("sankhya_read_partner", None, fields, limit, mode)
ValidReads ==
  {Partner({}, None, None), Partner({"code", "name"}, 2, "real"),
   Config("sankhya_load_records", None, {"doc"}, 3, "real"),
   Config("sankhya_read_company", None, {}, None, "real")}
InvalidReads ==
  {Partner({"doc"}, 1, "real"), Partner({"code"}, 3, "real"),
   Config("sankhya_read_partner", "Empresa", {"code"}, 1, "real"),
   Config("sankhya_read_invoice", None, {"code"}, 1, "real")}

Numeric == {Mapping("code", "t1", "decimal", None, TRUE)}
ReadFlows ==
  {Flow(config, mappings, NoPayload, credentials) :
     config \in ValidReads \cup InvalidReads, mappings \in {{}, Numeric},
     credentials \in {"oauth", "oauth_missing", "legacy", "legacy_missing", "undecodable"}}

Base == Flow(Partner({"code", "name"}, 2, "real"), {}, NoPayload, "oauth")
\* What a read becomes: inactive, of another connection, invalid, or a flow that
\* writes and gets as far as its mapping; and what a write becomes.
Edited ==
  {[Base EXCEPT !.active = FALSE], [Base EXCEPT !.environment = "production"],
   [Base EXCEPT !.platform = "other"], [Base EXCEPT !.config = NoConfig],
   Flow(NoConfig, {Mapping("code", "t1", "decimal", "word", TRUE)}, NoPayload, "oauth"),
   Flow(NoConfig, {Mapping("code", "t1", "decimal", "digits", TRUE)}, NoPayload, "oauth")}
    \cup {[Base EXCEPT !.config = config] : config \in InvalidReads}
FewEdits ==
  {<<Base, f>> : f \in Edited}
    \cup {<<f, Base>> : f \in {g \in Edited : Resolution(g).kind = "none"}}

AllFlows == WriteFlows \cup ReadFlows \cup Edited

TokenLifetimes == {0, 1, None}

Record(code) == [code |-> code, name |-> "word", doc |-> "digits"]
Body(candidates) == [kind |-> "object", candidates |-> candidates]
NoCandidate == [kind |-> "none"]
List(items) == [kind |-> "list", items |-> items]
Dict(total, items) == [kind |-> "dict", total |-> total, items |-> items]
Bodies ==
  {List(<<Record("digits"), None, Record("word"), Record("digits")>>),
   Body(<<NoCandidate, Dict(7, None), List(<<Record("digits")>>)>>),
   Body(<<Dict(None, <<Record("decimal"), [code |-> "digits"]>>)>>),
   Body(<<>>), NoBody}

=============================================================================
