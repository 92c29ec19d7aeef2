--------------------------- MODULE ResolveVerdict ---------------------------
(***************************************************************************)
(* What the Then steps of "src/features/04.2 Trusted Content Resolver        *)
(* Client.feature" conclude from a resolve response: the assertions of        *)
(* src/src/eu/xfsc/bdd/train/models/resolve_response.py as the steps of      *)
(* src/steps/resolver_on_client.py call them.                               *)
(*                                                                         *)
(* The resolver itself is external: it may answer anything.  Of an endpoint *)
(* only matters whether it carries a trust list, so a DID document is the    *)
(* set of the answers of its endpoints.  The lists of the response keep     *)
(* their order, which the loops over resolved_results depend on.            *)
(***************************************************************************)
EXTENDS Naturals, Sequences

CONSTANTS Pointer,      \* trust framework pointers
          Did,          \* decentralised identifiers
          MaxEntries    \* bound on each list of a response

ASSUME MaxEntriesAssumption == MaxEntries \in Nat

VARIABLES scenario,   \* which of the feature's three kinds of scenario
          asked,      \* context.trust_framework_pointers
          response,   \* context.resolve_response
          at,         \* the Then step that is next
          verdict     \* "idle", "resolving", "checking", "passed" or "failed"

vars == <<scenario, asked, response, at, verdict>>

UpTo(S) == UNION {[1 .. n -> S] : n \in 0 .. MaxEntries}

Document == [present : BOOLEAN, endpoints : SUBSET BOOLEAN]
Response == [trust_scheme_pointers : UpTo([pointer : Pointer, dids : SUBSET Did]),
             resolved_results      : UpTo([did : Did, resolved_doc : Document])]
NoResponse == [trust_scheme_pointers |-> <<>>, resolved_results |-> <<>>]

Scenarios == {"succeed", "partial success", "fail"}
Then == [s \in Scenarios |->
  CASE s = "succeed"         -> <<"resolved with a DID", "has a TL">>
    [] s = "partial success" -> <<"resolved with a DID", "has no TL">>
    [] s = "fail"            -> <<"no DID">>]

Entries(r) == {r.trust_scheme_pointers[i] : i \in DOMAIN r.trust_scheme_pointers}
Results(r) == {r.resolved_results[i] : i \in DOMAIN r.resolved_results}

TypeOK ==
  /\ scenario \in Scenarios
  /\ asked \in SUBSET Pointer
  /\ at \in 1 .. Len(Then[scenario]) + 1
  /\ verdict \in {"idle", "resolving", "checking", "passed", "failed"}

-----------------------------------------------------------------------------
(* The assertions.                                                         *)

(* A generator: consumed, it raises on an empty list and on the first entry *)
(* without a DID; what it yields is compared with nothing.                 *)
PointersResolved(r) == Entries(r) # {} /\ \A e \in Entries(r) : e.dids # {}

NoDidResolve_EmptyIsFine(r) ==   \* mutant: without the test for an empty list
  \A e \in Entries(r) : e.dids = {}
NoDidResolve(r) == Entries(r) # {} /\ \A e \in Entries(r) : e.dids = {}

ResolvedDids(r) == UNION {e.dids : e \in Entries(r)}

(* The for ... break ... else loop: the first result for the DID decides,   *)
(* having none at all is an error.                                         *)
FirstFor(r, d) ==
  LET i == CHOOSE n \in DOMAIN r.resolved_results :
             /\ r.resolved_results[n].did = d
             /\ \A m \in 1 .. n - 1 : r.resolved_results[m].did # d
  IN  r.resolved_results[i].resolved_doc
Matches(r, d) == \E e \in Results(r) : e.did = d

HaveATl_Skips(r) ==   \* mutant: the else branch is lost
  PointersResolved(r) /\ \A d \in ResolvedDids(r) : Matches(r, d) =>
    FirstFor(r, d).present /\ FirstFor(r, d).endpoints = {TRUE}
HaveATl(r) ==
  /\ PointersResolved(r)
  /\ \A d \in ResolvedDids(r) :
       /\ Matches(r, d)
       /\ FirstFor(r, d).present
       /\ FirstFor(r, d).endpoints # {}
       /\ FALSE \notin FirstFor(r, d).endpoints

(* Its assertion on an endpoint is "assert endpoint.trust_list".           *)
DoNotHaveATl(r) ==
  /\ PointersResolved(r)
  /\ \A d \in ResolvedDids(r) :
       /\ Matches(r, d)
       /\ FirstFor(r, d).present => FALSE \notin FirstFor(r, d).endpoints

(* The step "all input pointers are resolved with at least one DID" calls   *)
(* the generator and does not iterate over it, so none of its body runs.   *)
Holds(step, r) ==
  \/ step = "resolved with a DID"
  \/ step = "no DID"    /\ NoDidResolve(r)
  \/ step = "has a TL"  /\ HaveATl(r)
  \/ step = "has no TL" /\ DoNotHaveATl(r)

-----------------------------------------------------------------------------
Begin_KeepsAt(s, P) ==   \* mutant: the place in the scenario is not reset
  /\ scenario' = s /\ asked' = P
  /\ response' = NoResponse /\ at' = at /\ verdict' = "resolving"

Begin(s, P) ==
  /\ scenario' = s /\ asked' = P
  /\ response' = NoResponse /\ at' = 1 /\ verdict' = "resolving"

Init == /\ scenario \in Scenarios /\ asked = {}
        /\ response = NoResponse /\ at = 1 /\ verdict = "idle"

(* When resolve with the client, Then resolved response is valid.          *)
Resolve ==
  /\ verdict = "resolving"
  /\ \/ response' \in Response /\ verdict' = "checking"
     \/ response' = response /\ verdict' = "failed"
  /\ UNCHANGED <<scenario, asked, at>>

Check ==
  /\ verdict = "checking"
  /\ IF Holds(Then[scenario][at], response)
     THEN /\ at' = at + 1
          /\ verdict' = IF at = Len(Then[scenario]) THEN "passed" ELSE "checking"
     ELSE verdict' = "failed" /\ UNCHANGED at
  /\ UNCHANGED <<scenario, asked, response>>

NextScenario ==
  /\ verdict \in {"idle", "passed", "failed"}
  /\ \E s \in Scenarios, P \in (SUBSET Pointer) \ {{}} : Begin(s, P)

Next == Resolve \/ Check \/ NextScenario

Spec == Init /\ [][Next]_vars

-----------------------------------------------------------------------------
Passed(s) == scenario = s /\ verdict = "passed"
Held(step) == /\ verdict \notin {"idle", "resolving"}
              /\ \E i \in 1 .. at - 1 : Then[scenario][i] = step

(* A passing "succeeds" scenario did see a DID for every pointer of the      *)
(* response and a trust list for each of these DIDs, although its step      *)
(* about DIDs checks nothing: the step about trust lists runs the generator. *)
SuccessIsReal ==
  Passed("succeed") =>
    /\ response.trust_scheme_pointers # <<>>
    /\ \A e \in Entries(response) : e.dids # {}
    /\ \A d \in ResolvedDids(response) : \E res \in Results(response) :
         res.did = d /\ res.resolved_doc.present /\ res.resolved_doc.endpoints = {TRUE}

(* A response that passes the "fail" scenario can pass neither of the       *)
(* others: the three outcomes are told apart.                              *)
OutcomesExclude ==
  Passed("fail") => ~HaveATl(response) /\ ~DoNotHaveATl(response) /\ Entries(response) # {}

(* resolve_response.py:36: "Assert that all input pointers are resolved with *)
(* at least one DID."                                                      *)
InputPointersAreResolved ==
  Held("resolved with a DID") =>
    \A p \in asked : \E e \in Entries(response) : e.pointer = p /\ e.dids # {}

(* resolve_response.py:106: "All Resolved DID don't have a TL".            *)
ResolvedDidsHaveNoTl ==
  Held("has no TL") =>
    \A d \in ResolvedDids(response), res \in Results(response) :
      res.did = d /\ res.resolved_doc.present => TRUE \notin res.resolved_doc.endpoints
=============================================================================
