------------------------ MODULE ResolveVerdictProofs ------------------------
(***************************************************************************)
(* What the verdicts of feature 04.2 are worth, for any pointers and DIDs    *)
(* and responses of any length.                                            *)
(***************************************************************************)
EXTENDS ResolveVerdict, WellFoundedInduction, TLAPS

(* A non-empty set of numbers has a least one.                             *)
LEMMA LeastNumber ==
  ASSUME NEW S \in SUBSET Nat, S # {}
  PROVE  \E n \in S : \A m \in S : n <= m
<1> DEFINE R == {ss \in Nat \X Nat : ss[1] < ss[2]}
<1>1. R = OpToRel(<, Nat)
  BY DEF OpToRel
<1>2. IsWellFoundedOn(R, Nat)
  BY <1>1, NatLessThanWellFounded
<1>3. \A m, n \in Nat : <<m, n>> \in R <=> m < n
  OBVIOUS
<1> HIDE DEF R
<1>4. PICK n \in S : \A m \in S : ~ (<<m, n>> \in R)
  BY <1>2, WFMin
<1>5. ASSUME NEW m \in S
      PROVE  n <= m
  <2>1. m \in Nat /\ n \in Nat
    OBVIOUS
  <2>2. ~ (m < n)
    BY <1>3, <1>4, <2>1
  <2> QED BY <2>1, <2>2
<1> QED BY <1>5

-----------------------------------------------------------------------------
(* Responses.                                                              *)

LEMMA ListType ==
  ASSUME NEW S, NEW s \in UpTo(S)
  PROVE  /\ DOMAIN s \in SUBSET Nat
         /\ \A i \in DOMAIN s : s[i] \in S
<1>1. PICK n \in 0 .. MaxEntries : s \in [1 .. n -> S]
  BY DEF UpTo
<1> QED BY <1>1, MaxEntriesAssumption

(* The first result for a DID is one of the results, and one for this DID.   *)
LEMMA FirstForIsAResult ==
  ASSUME NEW r \in Response, NEW d, Matches(r, d)
  PROVE  \E res \in Results(r) :
           res.did = d /\ res.resolved_doc = FirstFor(r, d) /\ FirstFor(r, d) \in Document
<1> DEFINE L == r.resolved_results
           S == {n \in DOMAIN L : L[n].did = d}
<1>1. /\ DOMAIN L \in SUBSET Nat
      /\ \A i \in DOMAIN L : L[i] \in [did : Did, resolved_doc : Document]
  BY ListType DEF Response
<1>2. S \in SUBSET Nat /\ S # {}
  BY <1>1 DEF Matches, Results
<1>3. PICK n \in S : \A m \in S : n <= m
  BY <1>2, LeastNumber
<1>4. \A m \in 1 .. n - 1 : L[m].did # d
  <2>1. n \in Nat
    BY <1>2
  <2>2. DOMAIN L = 1 .. Len(L)
    BY DEF Response, UpTo
  <2> QED BY <1>3, <2>1, <2>2
<1> DEFINE First(i) == L[i].did = d /\ \A m \in 1 .. i - 1 : L[m].did # d
<1>5. \E i \in DOMAIN L : First(i)
  BY <1>3, <1>4
<1>6. LET i == CHOOSE k \in DOMAIN L : First(k)
      IN  i \in DOMAIN L /\ L[i].did = d /\ FirstFor(r, d) = L[i].resolved_doc
  BY <1>5 DEF FirstFor
<1> QED BY <1>1, <1>6 DEF Results

(* What has a trust list for each DID has a real one for each of them.       *)
LEMMA HaveATlIsReal ==
  ASSUME NEW r \in Response, HaveATl(r)
  PROVE  /\ r.trust_scheme_pointers # <<>>
         /\ \A e \in Entries(r) : e.dids # {}
         /\ \A d \in ResolvedDids(r) : \E res \in Results(r) :
              res.did = d /\ res.resolved_doc.present /\ res.resolved_doc.endpoints = {TRUE}
<1>1. Entries(r) # {} /\ \A e \in Entries(r) : e.dids # {}
  BY DEF HaveATl, PointersResolved
<1>2. r.trust_scheme_pointers # <<>>
  BY <1>1 DEF Entries
<1>3. ASSUME NEW d \in ResolvedDids(r)
      PROVE  \E res \in Results(r) :
               res.did = d /\ res.resolved_doc.present /\ res.resolved_doc.endpoints = {TRUE}
  <2>1. /\ Matches(r, d) /\ FirstFor(r, d).present
        /\ FirstFor(r, d).endpoints # {} /\ FALSE \notin FirstFor(r, d).endpoints
    BY DEF HaveATl
  <2>2. PICK res \in Results(r) : /\ res.did = d /\ res.resolved_doc = FirstFor(r, d)
                                  /\ FirstFor(r, d) \in Document
    BY <2>1, FirstForIsAResult
  <2>3. FirstFor(r, d).endpoints \in SUBSET BOOLEAN
    BY <2>2 DEF Document
  <2>4. FirstFor(r, d).endpoints = {TRUE}
    BY <2>1, <2>3
  <2> QED BY <2>1, <2>2, <2>4
<1> QED BY <1>1, <1>2, <1>3

-----------------------------------------------------------------------------
(* The invariant: at is where the Then steps have come to, and what is behind *)
(* held of the response.                                                   *)

Judging == verdict \in {"checking", "passed"}
Inv ==
  /\ TypeOK
  /\ Judging => /\ response \in Response
                /\ \A i \in 1 .. at - 1 : Holds(Then[scenario][i], response)
  /\ verdict \in {"resolving", "checking"} => at \in 1 .. Len(Then[scenario])
  /\ verdict = "resolving" => at = 1
  /\ verdict = "passed" => at = Len(Then[scenario]) + 1

LEMMA ThenSteps ==
  /\ Then["succeed"] = <<"resolved with a DID", "has a TL">>
  /\ Then["partial success"] = <<"resolved with a DID", "has no TL">>
  /\ Then["fail"] = <<"no DID">>
BY DEF Then, Scenarios

LEMMA ThenLengths ==
  Len(Then["succeed"]) = 2 /\ Len(Then["partial success"]) = 2 /\ Len(Then["fail"]) = 1
<1>1. \A x, y : Len(<<x, y>>) = 2
  OBVIOUS
<1>2. \A x : Len(<<x>>) = 1
  OBVIOUS
<1> QED BY <1>1, <1>2, ThenSteps, Zenon

LEMMA ThenType ==
  ASSUME NEW s \in Scenarios
  PROVE  Len(Then[s]) \in Nat \ {0}
<1>1. Len(Then[s]) = 1 \/ Len(Then[s]) = 2
  BY ThenLengths, Zenon DEF Scenarios
<1>2. \A n : n = 1 \/ n = 2 => n \in Nat \ {0}
  OBVIOUS
<1> QED BY <1>1, <1>2, Zenon

(* The step that decides a passing scenario.                               *)
LEMMA DecidingSteps ==
  Then["succeed"][2] = "has a TL" /\ Then["fail"][1] = "no DID"
<1>1. \A x, y : <<x, y>>[2] = y
  OBVIOUS
<1>2. \A x : <<x>>[1] = x
  OBVIOUS
<1> QED BY <1>1, <1>2, ThenSteps, Zenon

(* A scenario that passed has been through all its steps.                  *)
LEMMA PassedIsThrough ==
  ASSUME Inv, NEW s, Passed(s), NEW n, Len(Then[s]) = n
  PROVE  /\ at = n + 1 /\ response \in Response
         /\ \A i \in 1 .. at - 1 : Holds(Then[s][i], response)
<1>1. scenario = s /\ verdict = "passed"
  BY DEF Passed
<1>2. at = n + 1
  BY <1>1, Zenon DEF Inv
<1>3. /\ response \in Response
      /\ \A i \in 1 .. at - 1 : Holds(Then[s][i], response)
  BY <1>1, Zenon DEF Inv, Judging
<1> QED BY <1>2, <1>3, Zenon

LEMMA InitInv == Init => Inv
<1> SUFFICES ASSUME Init
             PROVE  Inv
  OBVIOUS
<1>1. Len(Then[scenario]) \in Nat \ {0}
  BY ThenType DEF Init
<1> QED BY <1>1 DEF Init, Inv, TypeOK, Judging

LEMMA NextInv == Inv /\ [Next]_vars => Inv'
<1> SUFFICES ASSUME Inv, [Next]_vars
             PROVE  Inv'
  OBVIOUS
<1>t. scenario \in Scenarios /\ Len(Then[scenario]) \in Nat \ {0}
  BY ThenType DEF Inv, TypeOK
<1>1. CASE Resolve
  BY <1>1, <1>t DEF Resolve, Inv, TypeOK, Judging
<1>2. CASE Check
  <2>1. /\ verdict = "checking" /\ at \in 1 .. Len(Then[scenario])
        /\ UNCHANGED <<scenario, asked, response>>
    BY <1>2 DEF Check, Inv
  <2>2. CASE Holds(Then[scenario][at], response)
    <3>1. at' = at + 1 /\ verdict' \in {"checking", "passed"}
      BY <1>2, <2>2 DEF Check
    <3>2. \A i \in 1 .. at' - 1 : Holds(Then[scenario][i], response)
      BY <2>1, <2>2, <3>1 DEF Inv, Judging
    <3>3. verdict' = IF at = Len(Then[scenario]) THEN "passed" ELSE "checking"
      BY <1>2, <2>2 DEF Check
    <3>4. TypeOK'
      BY <1>t, <2>1, <3>1 DEF Inv, TypeOK
    <3> QED BY <1>t, <2>1, <3>1, <3>2, <3>3, <3>4 DEF Inv, Judging
  <2>3. CASE ~ Holds(Then[scenario][at], response)
    BY <1>2, <2>1, <2>3 DEF Check, Inv, TypeOK, Judging
  <2> QED BY <2>2, <2>3
<1>3. CASE NextScenario
  <2>1. PICK s \in Scenarios, P \in (SUBSET Pointer) \ {{}} : Begin(s, P)
    BY <1>3 DEF NextScenario
  <2>2. Len(Then[s]) \in Nat \ {0}
    BY ThenType
  <2> QED BY <2>1, <2>2 DEF Begin, Inv, TypeOK, Judging
<1>4. CASE UNCHANGED vars
  BY <1>4 DEF vars, Inv, TypeOK, Judging
<1> QED BY <1>1, <1>2, <1>3, <1>4 DEF Next

LEMMA InvSuccess == Inv => SuccessIsReal
<1> SUFFICES ASSUME Inv, Passed("succeed")
             PROVE  HaveATl(response) /\ response \in Response
  BY HaveATlIsReal DEF SuccessIsReal
<1>1. /\ at = 2 + 1 /\ response \in Response
      /\ \A i \in 1 .. at - 1 : Holds(Then["succeed"][i], response)
  BY PassedIsThrough, ThenLengths, Zenon
<1>2. 2 \in 1 .. at - 1
  BY <1>1
<1>3. Holds("has a TL", response)
  BY <1>1, <1>2, DecidingSteps, Zenon
<1> QED BY <1>1, <1>3 DEF Holds

LEMMA InvExclude == Inv => OutcomesExclude
<1> SUFFICES ASSUME Inv, Passed("fail")
             PROVE  ~HaveATl(response) /\ ~DoNotHaveATl(response) /\ Entries(response) # {}
  BY DEF OutcomesExclude
<1>1. /\ at = 1 + 1
      /\ \A i \in 1 .. at - 1 : Holds(Then["fail"][i], response)
  BY PassedIsThrough, ThenLengths, Zenon
<1>2. 1 \in 1 .. at - 1
  BY <1>1
<1>3. NoDidResolve(response)
  <2>1. Holds("no DID", response)
    BY <1>1, <1>2, DecidingSteps, Zenon
  <2> QED BY <2>1 DEF Holds
<1> QED BY <1>3 DEF NoDidResolve, HaveATl, DoNotHaveATl, PointersResolved

LEMMA InvAlways == Spec => []Inv
BY InitInv, NextInv, PTL DEF Spec

(* The state of a run's judging is well typed, whatever the resolver answers. *)
THEOREM VerdictTypes == Spec => []TypeOK
<1>1. Inv => TypeOK
  BY DEF Inv
<1> QED BY <1>1, InvAlways, PTL

(* A passing "succeeds" scenario saw a DID for every entry and a trust list   *)
(* for each DID, in responses of any length and order: the loop that breaks   *)
(* at the first match of resolve_response.py:77-102 misses none.            *)
THEOREM SuccessAlwaysReal == Spec => []SuccessIsReal
BY InvSuccess, InvAlways, PTL

(* No response that passes as "no DID resolved" could pass as one of the      *)
(* other outcomes.                                                         *)
THEOREM OutcomesAlwaysExclude == Spec => []OutcomesExclude
BY InvExclude, InvAlways, PTL
=============================================================================
