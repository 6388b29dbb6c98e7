---------------------------- MODULE ReadCatalog ----------------------------
(***************************************************************************)
(* The catalog of Sankhya read operations: how the configuration stored in *)
(* a flow is resolved into the read it asks for, and when that read may    *)
(* run.  A configuration may leave every part out but its operation; None  *)
(* stands for a part that is left out, {} for no fields.                   *)
(***************************************************************************)
EXTENDS Naturals, Null

CONSTANTS
  Catalog    \* operation name -> its definition

HardLimit == 50    \* what no configuration may exceed

\* What the program refuses to start without, of each definition.
WellDefined(d) ==
  /\ d.allowed # {} /\ d.defaults \subseteq d.allowed
  /\ {d.defaultLimit, d.maxLimit} \subseteq 1..HardLimit /\ d.defaultLimit <= d.maxLimit

\* No definition has the name of the operation that is resolved without one.
ASSUME CatalogAssumption ==
  /\ "sankhya_load_records" \notin DOMAIN Catalog
  /\ \A name \in DOMAIN Catalog : WellDefined(Catalog[name])

NotARead == [kind |-> "none"]
Invalid == [kind |-> "invalid"]

OrElse(given, default) == IF given = None THEN default ELSE given

\* SankhyaReadOperationConfig, and the ValueError of its validation.
ReadConfig(operation, entity, fields, limit, mode) ==
  IF fields # {} /\ limit \in 1..HardLimit /\ mode \in {"mock", "real"}
    THEN [kind |-> "read", operation |-> operation, entity |-> entity,
          fields |-> fields, limit |-> limit, mode |-> mode]
    ELSE Invalid

\* An operation outside the catalog: entity, fields and limit are the flow's own.
LoadRecords(config, sourceEntity) ==
  ReadConfig(config.operation, OrElse(config.entity, sourceEntity), config.fields,
             OrElse(config.limit, 10), OrElse(config.mode, "mock"))

WithinDefinition(read, d) ==
  read.fields \subseteq d.allowed /\ read.limit <= d.maxLimit /\ read.entity = d.entity

\* Mutant of CatalogRead: a configuration that names no mode is a real read.
CatalogReadRealByDefault(config, d) ==
  LET read == ReadConfig(config.operation, OrElse(config.entity, d.entity),
                IF config.fields = {} THEN d.defaults ELSE config.fields,
                OrElse(config.limit, d.defaultLimit), OrElse(config.mode, "real"))
  IN  IF read # Invalid /\ WithinDefinition(read, d) THEN read ELSE Invalid

\* An operation of the catalog: its definition fills in and bounds the rest.
CatalogRead(config, d) ==
  LET read == ReadConfig(config.operation, OrElse(config.entity, d.entity),
                IF config.fields = {} THEN d.defaults ELSE config.fields,
                OrElse(config.limit, d.defaultLimit), OrElse(config.mode, "mock"))
  IN  IF read # Invalid /\ WithinDefinition(read, d) THEN read ELSE Invalid

Resolve(config, sourceEntity) ==
  IF config.operation = None THEN NotARead
  ELSE IF config.operation = "sankhya_load_records" THEN LoadRecords(config, sourceEntity)
  ELSE IF \/ config.operation \notin DOMAIN Catalog
          \/ config.entity \notin {None, sourceEntity}
         THEN Invalid
  ELSE CatalogRead(config, Catalog[config.operation])

\* No definition is allowed in production, and neither is a read without one.
Permitted(read, environment) == read.mode = "real" => environment = "sandbox"

\* What the runner makes of a flow: not a read, an invalid one, or this read.
Resolution(flow) ==
  LET read == Resolve(flow.config, flow.sourceEntity)
  IN  IF flow.platform # "sankhya" THEN NotARead
      ELSE IF read.kind = "read" /\ ~Permitted(read, flow.environment) THEN Invalid
      ELSE read

=============================================================================
