---------------------------- MODULE FieldMapping ----------------------------
(***************************************************************************)
(* How the mappings of a flow turn a payload or a record into the target.  *)
(* A value is one of the classes the rules tell apart: "empty" is the      *)
(* empty string, "blank" has spaces only, "word" has no digit, "digits"    *)
(* and "decimal" are texts float() accepts, "date" a text fromisoformat()  *)
(* accepts, "number" a JSON number, None a null or a field that is absent. *)
(***************************************************************************)
EXTENDS Naturals, Sequences, SequencesExt, Null

CONSTANTS
  Fields,    \* names of source fields
  Targets    \* names of target fields

Texts == {"empty", "blank", "word", "digits", "decimal", "date"}
Values == Texts \cup {"number", None}
ASSUME NoneAssumption == None \notin Texts \cup {"number"}
Rules == {"none", "trim", "case", "digits", "decimal", "date", "default"}
Missing == {None, "empty"}

Mapping(source, target, rule, default, required) ==
  [source |-> source, target |-> target, rule |-> rule,
   default |-> default, required |-> required]

Raises == "raises"

Digits(text) == IF text \in {"empty", "blank", "word"} THEN "empty" ELSE "digits"

\* apply_transformation_rule; Raises is its ValueError.
Transform(rule, v) ==
  CASE rule = "trim" /\ v = "blank" -> "empty"
    [] rule = "digits" /\ v \in Texts -> Digits(v)
    [] rule = "decimal" /\ v \in Missing -> None
    [] rule = "decimal" /\ v \notin Missing ->
         IF v \in {"digits", "decimal", "number"} THEN "number" ELSE Raises
    [] rule = "date" /\ v \in Texts \ {"date"} -> Raises
    [] OTHER -> v

\* The value a mapping transforms: its default, where the field has none.
Input(m, payload) ==
  IF payload[m.source] \in Missing /\ (m.default # None \/ m.rule = "default")
    THEN m.default
    ELSE payload[m.source]

Mapped(m, payload) == Transform(m.rule, Input(m, payload))

LastOf(order, t) ==
  CHOOSE i \in DOMAIN order :
    order[i].target = t /\ \A k \in DOMAIN order : order[k].target = t => k <= i

\* Mutant of MapFields: a field that is missing keeps the value of the mapping before.
MapFieldsCarried(payload, order) ==
  LET value(i) == Mapped(order[i], payload)
      kept(i) == IF i > 1 /\ Input(order[i], payload) = None THEN value(i - 1) ELSE value(i)
  IN  [raised |-> \E i \in DOMAIN order : value(i) = Raises,
       target |-> [t \in {order[i].target : i \in DOMAIN order} |-> kept(LastOf(order, t))]]

\* map_fields: the mappings apply in the order they were loaded, a later one
\* overwrites the target of an earlier one, and any of them may raise.
MapFields(payload, order) ==
  [raised |-> \E i \in DOMAIN order : Mapped(order[i], payload) = Raises,
   target |-> [t \in {order[i].target : i \in DOMAIN order} |->
                 Mapped(order[LastOf(order, t)], payload)]]

\* Mutant of HasDefault: defaults are not looked at.
HasDefaultNever(mappings, field) == FALSE

\* A default of any mapping of the source field counts.
HasDefault(mappings, field) ==
  \E m \in mappings : m.source = field /\ m.default \notin Missing

\* What the runner refuses before it maps ...
MissingSources(payload, mappings) ==
  {m.source : m \in {n \in mappings : /\ n.required
                                      /\ payload[n.source] \in Missing
                                      /\ ~HasDefault(mappings, n.source)}}

\* ... and after it has mapped.
MissingTargets(target, mappings) ==
  {m.target : m \in {n \in mappings : n.required /\ target[n.target] \in Missing}}

DistinctTargets(mappings) ==
  \A m, n \in mappings : m.target = n.target => m = n

\* No query orders the mappings of a flow: any order may be loaded.
Orders(mappings) == SetToSeqs(mappings)

=============================================================================
