---------------------------- MODULE SankhyaClient ----------------------------
(***************************************************************************)
(* One Sankhya connector: SankhyaClient, made for an attempt of a job or   *)
(* for a connection test and closed after it.  It serves one operation at  *)
(* a time, and an operation is a list of steps: authenticate, which is     *)
(* answered from the cached token when there is one, and load, the POST of *)
(* CRUDServiceProvider.loadRecords.  The ERP answers whatever it likes,    *)
(* and time passes between any two steps.                                  *)
(***************************************************************************)
EXTENDS Integers, Sequences, SequencesExt, Null

CONSTANTS
  Responses,   \* bodies the ERP answers a loadRecords request with
  Lifetimes,   \* what expires_in says of a token; None when it is no integer
  MaxClock,    \* bound: the clock stops there
  MaxCalls     \* bound: calls of a kind are counted up to there

ASSUME LifetimesAssumption == Lifetimes \subseteq Int \cup {None}

VARIABLES
  clock,
  client   \* the connector: its token, the steps left and how it has fared

NoToken == [taken |-> None, expires |-> None]
NoBody == [kind |-> "other"]

Connector(credentials, todo) ==
  [pc |-> "next", credentials |-> credentials, todo |-> todo, token |-> NoToken,
   checked |-> 0, auths |-> 0, loads |-> 0, answer |-> None, body |-> NoBody]
Closed == [Connector(None, <<>>) EXCEPT !.pc = "closed"]

Read == <<"authenticate", "load">>
\* test_connection authenticates, and with a read check it executes a read.
Test(readCheck) == <<"authenticate">> \o (IF readCheck THEN Read ELSE <<>>)

Count(calls) == IF calls < MaxCalls THEN calls + 1 ELSE calls

ClientInit == clock = 0 /\ client = Closed

-----------------------------------------------------------------------------
(* Errors: what each answer is raised as *)

Refusals == {"timeout", "unreachable", "400", "401", "403", "404", "429", "500", "not_json"}
AuthRefusals == Refusals \cup {"not_an_object", "no_token"}

\* Mutants of ErrorOf: an answer nobody thought of keeps its own name, and every
\* 4xx is the caller's fault, 429 included.
ErrorOfVerbatim(answer) ==
  CASE answer = "timeout" -> "timeout_error"
    [] answer \in {"401", "no_token"} -> "authentication_error"
    [] answer \in {"500", "not_json", "not_an_object"} -> "external_api_error"
    [] OTHER -> answer
ErrorOfClientFault(answer) ==
  CASE answer = "timeout" -> "timeout_error"
    [] answer \in {"401", "no_token"} -> "authentication_error"
    [] answer = "403" -> "authorization_error"
    [] answer \in {"400", "404", "429", "no_credentials"} -> "validation_error"
    [] answer \in {"500", "not_json", "not_an_object"} -> "external_api_error"
    [] answer = "unreachable" -> "unknown_error"

ErrorOf(answer) ==
  CASE answer = "timeout" -> "timeout_error"
    [] answer \in {"401", "no_token"} -> "authentication_error"
    [] answer = "403" -> "authorization_error"
    [] answer = "429" -> "rate_limit_error"
    [] answer \in {"400", "no_credentials"} -> "validation_error"
    [] answer \in {"500", "not_json", "not_an_object"} -> "external_api_error"
    [] answer \in {"unreachable", "404"} -> "unknown_error"

Failed(c, answer) == [c EXCEPT !.pc = "failed", !.answer = answer]

\* The next step, or the end of the operation.
Advanced(c) ==
  [c EXCEPT !.pc = IF Len(c.todo) = 1 THEN "done" ELSE "next", !.todo = Tail(@)]

-----------------------------------------------------------------------------
(* authenticate *)

NextStep(step) == client.pc = "next" /\ Head(client.todo) = step
Oauth == client.credentials \in {"oauth", "oauth_missing"}

\* Mutant of TokenExpired: a token lives through the instant it expires at.
TokenExpiredLate(token) == token.expires # None /\ token.expires < clock

TokenExpired(token) == token.expires # None /\ token.expires <= clock

Cached == client.token # NoToken /\ ~TokenExpired(client.token)

AuthenticateFromCache ==
  /\ NextStep("authenticate") /\ Cached
  /\ client' = Advanced([client EXCEPT !.checked = clock])
  /\ UNCHANGED clock

\* A legacy token is configured, not fetched, and never expires.
AuthenticateLegacy ==
  /\ NextStep("authenticate") /\ ~Cached /\ client.credentials = "legacy"
  /\ client' = Advanced([client EXCEPT !.checked = clock,
                                       !.token = [taken |-> clock, expires |-> None]])
  /\ UNCHANGED clock

CredentialsMissing ==
  /\ NextStep("authenticate") /\ ~Cached
  /\ client.credentials \in {"oauth_missing", "legacy_missing"}
  /\ client' = Failed(client, "no_credentials")
  /\ UNCHANGED clock

RequestToken ==
  /\ NextStep("authenticate") /\ ~Cached /\ client.credentials = "oauth"
  /\ client' = [client EXCEPT !.pc = "authenticating", !.auths = Count(@)]
  /\ UNCHANGED clock

TokenRefused(answer) ==
  /\ client.pc = "authenticating"
  /\ client' = Failed(client, answer)
  /\ UNCHANGED clock

\* A token that was just issued is used whatever its lifetime.
TokenIssued(lifetime) ==
  /\ client.pc = "authenticating"
  /\ client' = Advanced(
       [client EXCEPT !.checked = clock,
          !.token = [taken |-> clock,
                     expires |-> IF lifetime = None THEN None ELSE clock + lifetime]])
  /\ UNCHANGED clock

-----------------------------------------------------------------------------
(* _load_records_raw *)

RequestRecords ==
  /\ NextStep("load")
  /\ client' = [client EXCEPT !.pc = "loading", !.loads = Count(@)]
  /\ UNCHANGED clock

\* Mutant of RecordsRefused: a rejected token is thrown away and the request repeated.
RecordsRefusedRepeat(answer) ==
  /\ client.pc = "loading"
  /\ client' = IF answer = "401" THEN [client EXCEPT !.pc = "next", !.todo = Read, !.token = NoToken]
               ELSE Failed(client, answer)
  /\ UNCHANGED clock

RecordsRefused(answer) ==
  /\ client.pc = "loading"
  /\ client' = Failed(client, answer)
  /\ UNCHANGED clock

RecordsReceived(body) ==
  /\ client.pc = "loading"
  /\ client' = Advanced([client EXCEPT !.body = body])
  /\ UNCHANGED clock

Tick ==
  /\ client.pc \notin {"closed", "done", "failed"} /\ clock < MaxClock
  /\ clock' = clock + 1
  /\ UNCHANGED client

ClientStep ==
  \/ AuthenticateFromCache \/ AuthenticateLegacy \/ CredentialsMissing
  \/ RequestToken \/ RequestRecords
  \/ \E answer \in AuthRefusals : TokenRefused(answer)
  \/ \E lifetime \in Lifetimes : TokenIssued(lifetime)
  \/ \E answer \in Refusals : RecordsRefused(answer)
  \/ \E body \in Responses : RecordsReceived(body)

-----------------------------------------------------------------------------
(* What is made of a body: extract_records, normalize_read_records_response
   and count_records.  A body is a list, an object with candidates for the
   list (responseBody.entities, .records, .data, then the same of the top
   level), or something else; an item that is no object is None. *)

IsObject(item) == item # None

\* A nested object holds what its records or else its data hold (an empty records
\* list gives way to data); None if that is no list.
HoldsList(candidate) ==
  candidate.kind = "list" \/ (candidate.kind = "dict" /\ candidate.items # None)

ExtractRecords(body) ==
  LET items == CASE body.kind = "list" -> body.items
                 [] body.kind = "object" ->
                      LET i == SelectInSeq(body.candidates, HoldsList)
                      IN  IF i = 0 THEN <<>> ELSE body.candidates[i].items
                 [] OTHER -> <<>>
  IN  SelectSeq(items, IsObject)

Counts(candidate) ==
  HoldsList(candidate) \/ (candidate.kind = "dict" /\ candidate.total # None)

CountRecords(body) ==
  CASE body.kind = "list" -> Len(body.items)
    [] body.kind = "object" ->
         LET i == SelectInSeq(body.candidates, Counts)
             c == body.candidates[i]
         IN  IF i = 0 THEN 0
             ELSE IF c.kind = "dict" /\ c.total # None THEN c.total ELSE Len(c.items)
    [] OTHER -> 0

\* Mutant of Normalized: the ERP is trusted to keep to the limit.
NormalizedAll(body, fields, limit) ==
  LET records == ExtractRecords(body)
  IN  [i \in DOMAIN records |-> [f \in fields \cap DOMAIN records[i] |-> records[i][f]]]

\* The first records up to the limit, and of each the fields that were asked for,
\* if it has them.
Normalized(body, fields, limit) ==
  LET records == ExtractRecords(body)
  IN  [i \in DOMAIN records \cap 1..limit |->
         [f \in fields \cap DOMAIN records[i] |-> records[i][f]]]

=============================================================================
