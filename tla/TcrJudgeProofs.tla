--------------------------- MODULE TcrJudgeProofs ---------------------------
(***************************************************************************)
(* The resolve scenarios of the runs, in whatever order the features have    *)
(* them and whatever fails, are judged as ResolveVerdict says.              *)
(***************************************************************************)
EXTENDS TcrFeatureProofs

Columns  == {"scenario", "asked", "response", "at", "verdict"}
Verdicts == {"idle", "resolving", "checking", "passed", "failed"}

InDiscovery(r) == ~Finished(r) /\ IsDiscovery(Current(r))
HasPointers(r) == \E i \in Passed(r) : Current(r).steps[i].name = "pointers"
Valid(r)       == ValidAt(r, Current(r))

(* A discovery that has its pointers and is not over.                       *)
UnderJudgement(r) ==
  InDiscovery(r) /\ HasPointers(r) /\ pc[r].step \in 1 .. Len(Current(r).steps)

(* Up to "resolved response is valid" it is resolving, then it is checking,   *)
(* and has come as far with its Then steps as ResolveVerdict has.            *)
Together(r) ==
  /\ judged[r].scenario = Current(r).kind
  /\ IF pc[r].step <= Valid(r)
     THEN judged[r].verdict = "resolving" /\ judged[r].at = 1
     ELSE /\ judged[r].verdict = "checking" /\ pc[r].step = Valid(r) + judged[r].at
          /\ context[r].valid
          /\ judged[r].response = context[r].response_str.response

Answered(r, text) == text.kind = "resolved" => text.response \in Verdict(r)!Response

JudgeRun(r) ==
  /\ DOMAIN judged[r] = Columns
  /\ judged[r].at \in Nat /\ judged[r].verdict \in Verdicts
  /\ Resolving(r) => UnderJudgement(r)
  /\ UnderJudgement(r) => Together(r)
  /\ InDiscovery(r) => Answered(r, context[r].response_str)

JudgeInv ==
  /\ ContextInv
  /\ DOMAIN judged = Run
  /\ \A r \in Run : JudgeRun(r)

Judges(r) == [Verdict(r)!Next]_(Verdict(r)!vars)

-----------------------------------------------------------------------------
LEMMA TwoSteps ==
  ASSUME NEW x, NEW y
  PROVE  /\ Len(<<x, y>>) = 2 /\ <<x, y>>[1] = x /\ <<x, y>>[2] = y
         /\ DOMAIN <<x, y>> = 1 .. 2
OBVIOUS

LEMMA OneStep ==
  ASSUME NEW x
  PROVE  Len(<<x>>) = 1 /\ <<x>>[1] = x /\ DOMAIN <<x>> = 1 .. 1
OBVIOUS

ThenTexts == {"resolved with a DID", "has a TL", "has no TL", "no DID"}

LEMMA ThenSteps ==
  ASSUME NEW r, NEW s \in Verdict(r)!Scenarios
  PROVE  /\ Len(Verdict(r)!Then[s]) \in Nat /\ Len(Verdict(r)!Then[s]) # 0
         /\ DOMAIN Verdict(r)!Then[s] = 1 .. Len(Verdict(r)!Then[s])
         /\ \A k \in DOMAIN Verdict(r)!Then[s] : Verdict(r)!Then[s][k] \in ThenTexts
         /\ s # "direct"
<1> DEFINE t == Verdict(r)!Then[s]
<1>1. \/ s = "succeed"         /\ t = <<"resolved with a DID", "has a TL">>
      \/ s = "partial success" /\ t = <<"resolved with a DID", "has no TL">>
      \/ s = "fail"            /\ t = <<"no DID">>
  BY DEF Verdict!Then, Verdict!Scenarios
<1>2. s # "direct"
  BY DEF Verdict!Scenarios
<1> HIDE DEF t
<1>3. ASSUME NEW x \in ThenTexts, NEW y \in ThenTexts, t = <<x, y>>
      PROVE  /\ Len(t) \in Nat /\ Len(t) # 0 /\ DOMAIN t = 1 .. Len(t)
             /\ \A k \in DOMAIN t : t[k] \in ThenTexts
  <2>1. Len(t) = 2 /\ DOMAIN t = 1 .. 2 /\ t[1] \in ThenTexts /\ t[2] \in ThenTexts
    BY <1>3, TwoSteps, Zenon
  <2> QED BY <2>1
<1>4. ASSUME t = <<"no DID">>
      PROVE  /\ Len(t) \in Nat /\ Len(t) # 0 /\ DOMAIN t = 1 .. Len(t)
             /\ \A k \in DOMAIN t : t[k] \in ThenTexts
  <2>1. Len(t) = 1 /\ DOMAIN t = 1 .. 1 /\ t[1] = "no DID"
    BY <1>4, OneStep, Zenon
  <2>2. t[1] \in ThenTexts
    BY <2>1 DEF ThenTexts
  <2>3. \A k \in 1 .. 1 : k = 1
    OBVIOUS
  <2>4. \A k \in DOMAIN t : t[k] \in ThenTexts
    BY <2>1, <2>2, <2>3, Zenon
  <2>5. 1 \in Nat /\ 1 # 0
    OBVIOUS
  <2> QED BY <2>1, <2>4, <2>5, Zenon
<1>5. /\ Len(t) \in Nat /\ Len(t) # 0 /\ DOMAIN t = 1 .. Len(t)
      /\ \A k \in DOMAIN t : t[k] \in ThenTexts
  <2>1. {"resolved with a DID", "has a TL", "has no TL"} \subseteq ThenTexts
    BY DEF ThenTexts
  <2> QED BY <1>1, <1>3, <1>4, <2>1, Zenon
<1> QED BY <1>2, <1>5 DEF t

LEMMA Order ==
  ASSUME NEW n \in Nat, NEW l \in Nat, NEW i \in 1 .. n + l
  PROVE  /\ i < n => i \in 1 .. n - 1
         /\ i > n => i \in n + 1 .. n + l
         /\ i < n \/ i = n \/ i > n
OBVIOUS

LEMMA Difference ==
  ASSUME NEW a \in Nat, NEW b \in Nat, NEW n \in 1 .. a, n = a - b
  PROVE  n \in Nat /\ n # 0 /\ a = n + b
OBVIOUS

(* A discovery, its steps numbered.                                         *)
Numbering(s, n, thens) ==
  /\ n \in Nat /\ n # 0 /\ Len(thens) \in Nat /\ Len(s.steps) = n + Len(thens)
  /\ s.steps[n].do = "then" /\ s.steps[n].what = "response is valid"
  /\ \A i \in 1 .. n - 1 :
       /\ s.steps[i].do \in {"installed", "unchecked", "input", "ask client"}
       /\ s.steps[i].do = "input" /\ s.steps[i].name = "pointers" =>
            s.steps[i].value \in (SUBSET DiscoveryPointers) \ {{}}
  /\ \A i \in n + 1 .. n + Len(thens) :
       /\ i - n \in 1 .. Len(thens)
       /\ s.steps[i].do = "then" /\ s.steps[i].what = thens[i - n]
       /\ thens[i - n] \in ThenTexts

LEMMA Shape ==
  ASSUME ContextInv, NEW r \in Run, InDiscovery(r)
  PROVE  /\ Current(r).kind \in Verdict(r)!Scenarios
         /\ Numbering(Current(r), Valid(r), Verdict(r)!Then[Current(r).kind])
<1> DEFINE s == Current(r)
           n == Valid(r)
           thens == Verdict(r)!Then[s.kind]
<1>1. WellFormed(s) /\ DiscoveryFormed(r, s)
  <2>1. pc[r].scenario \in 1 .. Len(Feature)
    BY UnderWay DEF ContextInv, InDiscovery
  <2>2. JudgesInOrder(r, s) /\ WellFormed(s)
    BY <2>1, ScriptAssumption DEF Current
  <2> QED BY <2>2 DEF JudgesInOrder, InDiscovery
<1>2. s.kind \in Verdict(r)!Scenarios
  BY <1>1 DEF DiscoveryFormed
<1>3. /\ Len(thens) \in Nat /\ DOMAIN thens = 1 .. Len(thens)
      /\ \A k \in DOMAIN thens : thens[k] \in ThenTexts
  BY <1>2, ThenSteps
<1>4. Len(s.steps) \in Nat /\ DOMAIN s.steps = 1 .. Len(s.steps)
  BY <1>1 DEF WellFormed
<1>5. n = ValidAt(r, s) /\ n = Len(s.steps) - Len(thens)
  BY DEF Valid, ValidAt
<1>6. /\ n \in DOMAIN s.steps
      /\ s.steps[n].do = "then" /\ s.steps[n].what = "response is valid"
      /\ \A i \in 1 .. n - 1 :
           /\ s.steps[i].do \in {"installed", "unchecked", "input", "ask client"}
           /\ s.steps[i].do = "input" /\ s.steps[i].name = "pointers" =>
                s.steps[i].value \in (SUBSET DiscoveryPointers) \ {{}}
      /\ \A k \in DOMAIN thens : s.steps[n + k].do = "then" /\ s.steps[n + k].what = thens[k]
  BY <1>1, <1>5 DEF DiscoveryFormed
<1> HIDE DEF s, n, thens
<1>7. n \in Nat /\ n # 0 /\ Len(s.steps) = n + Len(thens)
  <2>1. n \in 1 .. Len(s.steps)
    BY <1>4, <1>6
  <2> QED BY <1>3, <1>4, <1>5, <2>1, Difference
<1>8. ASSUME NEW i \in n + 1 .. n + Len(thens)
      PROVE  /\ i - n \in 1 .. Len(thens)
             /\ s.steps[i].do = "then" /\ s.steps[i].what = thens[i - n]
             /\ thens[i - n] \in ThenTexts
  <2>1. i - n \in 1 .. Len(thens) /\ n + (i - n) = i
    BY <1>3, <1>7
  <2> DEFINE k == i - n
  <2>2. s.steps[n + k].do = "then" /\ s.steps[n + k].what = thens[k] /\ thens[k] \in ThenTexts
    BY <1>3, <1>6, <2>1
  <2> QED BY <2>1, <2>2
<1>9. Numbering(s, n, thens)
  BY <1>3, <1>6, <1>7, <1>8 DEF Numbering
<1> QED BY <1>2, <1>9 DEF s, n, thens

(* Where a step of a discovery is.                                          *)
Early(r) ==
  /\ pc[r].step < Valid(r)
  /\ Step(r).do \in {"installed", "unchecked", "input", "ask client"}
  /\ Step(r).do = "input" /\ Step(r).name = "pointers" =>
       Step(r).value \in (SUBSET DiscoveryPointers) \ {{}}
AtValid(r) ==
  pc[r].step = Valid(r) /\ Step(r).do = "then" /\ Step(r).what = "response is valid"
Late(r) ==
  LET thens == Verdict(r)!Then[Current(r).kind]
      k == pc[r].step - Valid(r)
  IN  /\ pc[r].step > Valid(r) /\ k \in 1 .. Len(thens)
      /\ Step(r).do = "then" /\ Step(r).what = thens[k] /\ Step(r).what \in ThenTexts

LEMMA Position ==
  ASSUME ContextInv, NEW r \in Run, InDiscovery(r), InStep(r)
  PROVE  Early(r) \/ AtValid(r) \/ Late(r)
<1> DEFINE s == Current(r)
           i == pc[r].step
           n == Valid(r)
           thens == Verdict(r)!Then[s.kind]
<1>1. i \in 1 .. Len(s.steps) /\ i \in Nat /\ Step(r) = s.steps[i]
  BY PlaceType DEF InStep, ContextInv, Step
<1>2. Numbering(s, n, thens)
  BY Shape
<1> HIDE DEF s, n, thens, i
<1>3. /\ i < n => i \in 1 .. n - 1
      /\ i > n => i \in n + 1 .. n + Len(thens)
      /\ i < n \/ i = n \/ i > n
  <2>1. n \in Nat /\ Len(thens) \in Nat /\ Len(s.steps) = n + Len(thens)
    BY <1>2 DEF Numbering
  <2>2. i \in 1 .. n + Len(thens)
    BY <1>1, <2>1
  <2> QED BY <2>1, <2>2, Order
<1>4. CASE i < n
  <2>1. /\ s.steps[i].do \in {"installed", "unchecked", "input", "ask client"}
        /\ s.steps[i].do = "input" /\ s.steps[i].name = "pointers" =>
             s.steps[i].value \in (SUBSET DiscoveryPointers) \ {{}}
    BY <1>2, <1>3, <1>4 DEF Numbering
  <2>2. Early(r)
    BY <1>1, <1>4, <2>1 DEF Early, s, n, i
  <2> QED BY <2>2
<1>5. CASE i = n
  <2>1. s.steps[i].do = "then" /\ s.steps[i].what = "response is valid"
    BY <1>2, <1>5 DEF Numbering
  <2>2. AtValid(r)
    BY <1>1, <1>5, <2>1 DEF AtValid, s, n, i
  <2> QED BY <2>2
<1>6. CASE i > n
  <2>1. /\ i - n \in 1 .. Len(thens) /\ s.steps[i].do = "then"
        /\ s.steps[i].what = thens[i - n] /\ s.steps[i].what \in ThenTexts
    BY <1>2, <1>3, <1>6, Zenon DEF Numbering
  <2>2. Late(r)
    BY <1>1, <1>6, <2>1 DEF Late, s, n, thens, i
  <2> QED BY <2>2
<1> QED BY <1>3, <1>4, <1>5, <1>6

(* From "resolved response is valid" on, a discovery has its pointers.       *)
LEMMA PointersFirst ==
  ASSUME ContextInv, NEW r \in Run, InDiscovery(r), InStep(r), ~(pc[r].step < Valid(r))
  PROVE  UnderJudgement(r)
<1> DEFINE s == Current(r)
           n == Valid(r)
           thens == Verdict(r)!Then[s.kind]
<1>1. PICK i \in GivenSteps(s) : s.steps[i].name = "pointers"
  BY DEF InDiscovery, IsDiscovery
<1>2. s.steps[i].do = "input" /\ i \in 1 .. Len(s.steps) /\ i \in Nat /\ pc[r].step \in Nat
  BY <1>1, UnderWay, PlaceType DEF GivenSteps, ContextInv, WellFormed, InDiscovery
<1>3. Numbering(s, n, thens)
  BY Shape
<1>4. i < n /\ n \in Nat
  <2> HIDE DEF s, n, thens
  <2>1. n \in Nat /\ Len(thens) \in Nat /\ Len(s.steps) = n + Len(thens)
    BY <1>3 DEF Numbering
  <2>2. i \in 1 .. n + Len(thens)
    BY <1>2, <2>1
  <2>3. (i > n => i \in n + 1 .. n + Len(thens)) /\ (i < n \/ i = n \/ i > n)
    BY <2>1, <2>2, Order
  <2>4. i # n
    BY <1>2, <1>3 DEF Numbering
  <2>5. i \notin n + 1 .. n + Len(thens)
    BY <1>2, <1>3, Zenon DEF Numbering
  <2> QED BY <2>1, <2>3, <2>4, <2>5
<1>5. i < pc[r].step
  BY <1>2, <1>4
<1>6. HasPointers(r)
  BY <1>1, <1>5 DEF HasPointers, Passed
<1> QED BY <1>6 DEF UnderJudgement, InStep

(* Outside of a discovery no step judges a resolve response.                *)
LEMMA NotJudging ==
  ASSUME ContextInv, NEW r \in Run, ~InDiscovery(r), InStep(r), Step(r).do = "then"
  PROVE  Step(r).what \notin Judging
<1>1. pc[r].scenario \in 1 .. Len(Feature) /\ ~IsDiscovery(Current(r)) /\ WellFormed(Current(r))
  BY UnderWay DEF ContextInv, InDiscovery, InStep
<1>2. JudgesInOrder(r, Current(r))
  BY <1>1, ScriptAssumption DEF Current
<1>3. pc[r].step \in DOMAIN Current(r).steps
  BY <1>1 DEF InStep, WellFormed
<1> QED BY <1>1, <1>2, <1>3 DEF JudgesInOrder, Step

-----------------------------------------------------------------------------
(* A resolve response that a client prints and returns from with success is   *)
(* one that ResolveVerdict knows.                                          *)
LEMMA ShortLists ==
  ASSUME NEW r, NEW S
  PROVE  /\ <<>> \in Verdict(r)!UpTo(S)
         /\ \A x \in S : <<x>> \in Verdict(r)!UpTo(S)
         /\ \A x, y \in S : <<x, y>> \in Verdict(r)!UpTo(S)
<1>1. <<>> \in [1 .. 0 -> S] /\ 0 \in 0 .. 2
  OBVIOUS
<1>2. ASSUME NEW x \in S PROVE <<x>> \in [1 .. 1 -> S] /\ 1 \in 0 .. 2
  OBVIOUS
<1>3. ASSUME NEW x \in S, NEW y \in S PROVE <<x, y>> \in [1 .. 2 -> S] /\ 2 \in 0 .. 2
  OBVIOUS
<1>4. Verdict(r)!UpTo(S) = UNION {[1 .. n -> S] : n \in 0 .. 2}
  BY Zenon DEF Verdict!UpTo
<1> QED BY <1>1, <1>2, <1>3, <1>4, Zenon

LEMMA Responses ==
  ASSUME NEW r, NEW p \in DiscoveryPointers, NEW dids \in SUBSET {"did:web"},
         NEW endpoints \in SUBSET BOOLEAN
  PROVE  Resolved(p, dids, endpoints) \in Verdict(r)!Response
<1> DEFINE e == [pointer |-> p, dids |-> dids]
           d == [did |-> "did:web", resolved_doc |-> [present |-> TRUE, endpoints |-> endpoints]]
           E == [pointer : DiscoveryPointers, dids : SUBSET {"did:web"}]
           D == [did : {"did:web"}, resolved_doc : [present : BOOLEAN, endpoints : SUBSET BOOLEAN]]
<1>1. e \in E /\ d \in D
  OBVIOUS
<1>2. Verdict(r)!Response = [trust_scheme_pointers : Verdict(r)!UpTo(E),
                             resolved_results : Verdict(r)!UpTo(D)]
  BY Zenon DEF Verdict!Response, Verdict!Document
<1>3. Resolved(p, dids, endpoints) =
        [trust_scheme_pointers |-> <<e>>, resolved_results |-> IF dids = {} THEN <<>> ELSE <<d>>]
  BY Zenon DEF Resolved
<1> HIDE DEF e, d, E, D
<1>4. <<e>> \in Verdict(r)!UpTo(E) /\ <<>> \in Verdict(r)!UpTo(D) /\ <<d>> \in Verdict(r)!UpTo(D)
  BY <1>1, ShortLists, Zenon
<1> QED BY <1>2, <1>3, <1>4

LEMMA PointersOnly ==
  ASSUME NEW r, NEW list,
         list \in Verdict(r)!UpTo([pointer : DiscoveryPointers, dids : SUBSET {"did:web"}])
  PROVE  [NoDoc EXCEPT !.trust_scheme_pointers = list] \in Verdict(r)!Response
<1> DEFINE E == [pointer : DiscoveryPointers, dids : SUBSET {"did:web"}]
           D == [did : {"did:web"}, resolved_doc : [present : BOOLEAN, endpoints : SUBSET BOOLEAN]]
<1>1. Verdict(r)!Response = [trust_scheme_pointers : Verdict(r)!UpTo(E),
                             resolved_results : Verdict(r)!UpTo(D)]
  BY Zenon DEF Verdict!Response, Verdict!Document
<1>2. [NoDoc EXCEPT !.trust_scheme_pointers = list] =
        [trust_scheme_pointers |-> list, resolved_results |-> <<>>]
  BY DEF NoDoc
<1> HIDE DEF E, D
<1>3. <<>> \in Verdict(r)!UpTo(D) /\ list \in Verdict(r)!UpTo(E)
  BY ShortLists DEF E
<1> QED BY <1>1, <1>2, <1>3

LEMMA OutcomesAnswered ==
  ASSUME NEW r, NEW c, NEW q, NEW faulty, NEW o \in Outcomes(c, q, faulty)
  PROVE  Answered(r, o.stdout)
<1>1. ASSUME NEW kind, kind # "resolved" PROVE Answered(r, Text(kind))
  BY <1>1 DEF Answered, Text
<1>2. ASSUME NEW json \in Verdict(r)!Response
      PROVE  Answered(r, Json(json))
  BY DEF Answered, Json
<1>3. ASSUME NEW t, Answered(r, t)
      PROVE  Success(t).stdout = t /\ Answered(r, Success(t).stdout)
  BY <1>3 DEF Success, Outcome
<1>4. ASSUME NEW code, NEW t, NEW e, Answered(r, t)
      PROVE  Answered(r, Outcome(code, t, e).stdout)
  BY <1>4 DEF Outcome
<1>5. "alice" \in DiscoveryPointers /\ "gxfs" \in DiscoveryPointers
  BY DEF DiscoveryPointers
<1>6. ASSUME NEW p \in DiscoveryPointers, NEW dids \in SUBSET {"did:web"},
             NEW endpoints \in SUBSET BOOLEAN
      PROVE  Answered(r, Json(Resolved(p, dids, endpoints)))
  BY <1>2, Responses
<1>7. ASSUME o \in AnyOutcome PROVE Answered(r, o.stdout)
  <2>1. ASSUME NEW t \in AnyText PROVE Answered(r, t)
    <3>1. \/ \E k : k # "resolved" /\ t = Text(k)
          \/ t = Json(NoDoc) \/ t = Json(Resolved("alice", {}, {}))
          \/ t = Json(Resolved("alice", {"did:web"}, {FALSE}))
          \/ t = Json(Resolved("alice", {"did:web"}, {TRUE}))
      <4>1. t \in Complaints => \E k : k # "resolved" /\ t = Text(k)
        <5>1. /\ Complaint["Python"] = Text("did_error")
              /\ Complaint["Java"] = Text("510 Not Extended")
              /\ Complaint["JavaScript"] = Text("nothing")
              /\ Complaint["Golang"] = Text("510 line")
          BY Zenon DEF Complaint, Clients
        <5> QED BY <5>1 DEF Complaints, Clients
      <4> QED BY <2>1, <4>1, Zenon DEF AnyText
    <3>2. NoDoc \in Verdict(r)!Response
      <4>1. <<>> \in Verdict(r)!UpTo([pointer : DiscoveryPointers, dids : SUBSET {"did:web"}])
        BY ShortLists
      <4>2. [NoDoc EXCEPT !.trust_scheme_pointers = <<>>] = NoDoc
        BY DEF NoDoc
      <4> QED BY <4>1, <4>2, PointersOnly
    <3>3. {} \in SUBSET {"did:web"} /\ {"did:web"} \in SUBSET {"did:web"}
          /\ {} \in SUBSET BOOLEAN /\ {TRUE} \in SUBSET BOOLEAN /\ {FALSE} \in SUBSET BOOLEAN
      OBVIOUS
    <3> QED BY <1>1, <1>2, <1>5, <1>6, <3>1, <3>2, <3>3, Zenon
  <2>2. \E t \in AnyText :
          \/ o = Success(t)
          \/ \E e : o = Outcome(1, t, e)
    BY <1>7 DEF AnyOutcome
  <2> QED BY <1>3, <1>4, <2>1, <2>2, Zenon
<1>8. ASSUME o \in Expected(c, q), o \notin AnyOutcome PROVE Answered(r, o.stdout)
  <2> DEFINE two == <<[pointer |-> "sausweis3", dids |-> {}], [pointer |-> "sausweis4", dids |-> {}]>>
  <2>1. \/ o = Success(Text("verified")) \/ o = Success(Text("nothing"))
        \/ o = Outcome(1, Text("nothing"), Complaint[c])
        \/ o = Success(Json(Resolved("alice", {"did:web"}, {TRUE})))
        \/ o = Success(Json(Resolved("gxfs", {"did:web"}, IF q.types = {} THEN {TRUE} ELSE {})))
        \/ o = Success(Json([NoDoc EXCEPT !.trust_scheme_pointers = two]))
    BY <1>8, Zenon DEF Expected
  <2>2. [NoDoc EXCEPT !.trust_scheme_pointers = two] \in Verdict(r)!Response
    <3>1. /\ [pointer |-> "sausweis3", dids |-> {}] \in [pointer : DiscoveryPointers, dids : SUBSET {"did:web"}]
          /\ [pointer |-> "sausweis4", dids |-> {}] \in [pointer : DiscoveryPointers, dids : SUBSET {"did:web"}]
      BY DEF DiscoveryPointers
    <3>2. two \in Verdict(r)!UpTo([pointer : DiscoveryPointers, dids : SUBSET {"did:web"}])
      BY <3>1, ShortLists, Zenon
    <3> QED BY <3>2, PointersOnly
  <2>3. (IF q.types = {} THEN {TRUE} ELSE {}) \in SUBSET BOOLEAN
        /\ {TRUE} \in SUBSET BOOLEAN /\ {"did:web"} \in SUBSET {"did:web"}
    OBVIOUS
  <2> HIDE DEF two
  <2> QED BY <1>1, <1>2, <1>3, <1>4, <1>5, <1>6, <2>1, <2>2, <2>3, Zenon
<1> QED BY <1>7, <1>8 DEF Outcomes

-----------------------------------------------------------------------------
(* The moves of a run, as steps of its ResolveVerdict.                      *)

LEMMA Constants ==
  ASSUME NEW r
  PROVE  Verdict(r)!Then' = Verdict(r)!Then /\ Verdict(r)!Response' = Verdict(r)!Response
BY DEF Verdict!Then, Verdict!Scenarios, Verdict!Response, Verdict!Document, Verdict!UpTo

LEMMA UntouchedJudging ==
  ASSUME NEW r \in Run, JudgeRun(r), UNCHANGED <<pc[r], context[r], judged[r]>>
  PROVE  JudgeRun(r)' /\ Judges(r)
<1>1. /\ Finished(r)' = Finished(r) /\ Current(r)' = Current(r) /\ Passed(r)' = Passed(r)
      /\ Resolving(r)' = Resolving(r)
  BY DEF Finished, Current, Passed, Resolving
<1>2. Valid(r)' = Valid(r)
  BY <1>1, Constants DEF Valid, ValidAt
<1>3. /\ InDiscovery(r)' = InDiscovery(r) /\ UnderJudgement(r)' = UnderJudgement(r)
  BY <1>1 DEF InDiscovery, UnderJudgement, HasPointers
<1>4. Together(r)' = Together(r)
  BY <1>1, <1>2 DEF Together
<1>5. Answered(r, context[r].response_str)' = Answered(r, context[r].response_str)
  BY Constants DEF Answered
<1>6. JudgeRun(r)'
  BY <1>1, <1>3, <1>4, <1>5 DEF JudgeRun
<1>7. Judges(r)
  BY DEF Judges, Verdict!vars
<1> QED BY <1>6, <1>7

(* Going on before a discovery judges, or in another scenario.              *)
LEMMA GoesOnJudging ==
  ASSUME JudgeInv, NEW r \in Run, ~Finished(r), NEW c, Goes(r, c), judged' = judged,
         InDiscovery(r) =>
           /\ pc[r].step < Valid(r) /\ Answered(r, c.response_str)
           /\ ~(pc[r].step \in GivenSteps(Current(r))
                  /\ Current(r).steps[pc[r].step].name = "pointers")
  PROVE  JudgeRun(r)' /\ Judges(r)
<1>1. /\ pc'[r].step = pc[r].step + 1 /\ context'[r] = c
      /\ Current(r)' = Current(r) /\ Finished(r)' = Finished(r)
  BY GoesOn DEF JudgeInv
<1>2. Judges(r)
  BY DEF Judges, Verdict!vars
<1>3. JudgeRun(r) /\ ContextInv
  BY DEF JudgeInv
<1>4. InDiscovery(r)' = InDiscovery(r) /\ Resolving(r)' = Resolving(r)
  BY <1>1 DEF InDiscovery, Resolving
<1>5. CASE ~InDiscovery(r)
  <2>1. ~UnderJudgement(r)' /\ ~Resolving(r)'
    BY <1>3, <1>4, <1>5 DEF UnderJudgement, JudgeRun
  <2> QED BY <1>2, <1>3, <1>4, <1>5, <2>1 DEF JudgeRun
<1>6. CASE InDiscovery(r)
  <2>1. pc[r].step \in Nat /\ Numbering(Current(r), Valid(r), Verdict(r)!Then[Current(r).kind])
    BY <1>3, <1>6, PlaceType, Shape DEF ContextInv
  <2>2. Valid(r) \in Nat /\ Valid(r) <= Len(Current(r).steps) /\ Len(Current(r).steps) \in Nat
    <3>1. /\ Valid(r) \in Nat /\ Len(Verdict(r)!Then[Current(r).kind]) \in Nat
          /\ Len(Current(r).steps) = Valid(r) + Len(Verdict(r)!Then[Current(r).kind])
      BY <2>1 DEF Numbering
    <3> QED BY <3>1
  <2>3. \A i \in GivenSteps(Current(r)) : i \in Nat /\ i # 0
    BY <1>3, Numbered DEF ContextInv
  <2>4. HasPointers(r)' = HasPointers(r)
    <3>1. Passed(r)' = {i \in GivenSteps(Current(r)) : i < pc[r].step + 1}
      BY <1>1 DEF Passed
    <3>2. \A i \in GivenSteps(Current(r)) : i < pc[r].step + 1 <=> i < pc[r].step \/ i = pc[r].step
      BY <2>1, <2>3
    <3> QED BY <1>1, <1>6, <3>1, <3>2 DEF HasPointers, Passed
  <2>5. HasPointers(r) => pc[r].step # 0
    BY <2>1, <2>3 DEF HasPointers, Passed
  <2>6. HasPointers(r) => /\ pc[r].step \in 1 .. Len(Current(r).steps)
                          /\ pc[r].step + 1 \in 1 .. Len(Current(r).steps)
                          /\ pc[r].step <= Valid(r) /\ pc[r].step + 1 <= Valid(r)
    BY <1>6, <2>1, <2>2, <2>5
  <2>7. UnderJudgement(r)' => HasPointers(r)
    BY <2>4 DEF UnderJudgement
  <2>8. HasPointers(r) => UnderJudgement(r) /\ UnderJudgement(r)'
    BY <1>1, <1>4, <1>6, <2>4, <2>6 DEF UnderJudgement
  <2>9. Valid(r)' = Valid(r)
    BY <1>1, Constants DEF Valid, ValidAt
  <2>10. UnderJudgement(r)' => Together(r)'
    BY <1>1, <1>3, <2>6, <2>7, <2>8, <2>9 DEF Together, JudgeRun
  <2>11. Resolving(r)' => UnderJudgement(r)'
    BY <1>3, <1>4, <2>8 DEF JudgeRun, UnderJudgement
  <2>12. Answered(r, context[r].response_str)'
    BY <1>1, <1>6, Constants DEF Answered
  <2> QED BY <1>2, <1>3, <2>10, <2>11, <2>12 DEF JudgeRun
<1> QED BY <1>5, <1>6

(* Leaving a scenario: what is being judged has failed.                      *)
LEMMA LeavesJudging ==
  ASSUME JudgeInv, NEW r \in Run, ~Finished(r),
         pc'[r].step = 0, context'[r] = NoContext,
         judged'[r] = IF Resolving(r) THEN [judged[r] EXCEPT !.verdict = "failed"] ELSE judged[r],
         UnderJudgement(r) /\ pc[r].step > Valid(r) =>
           ~Verdict(r)!Holds(Verdict(r)!Then[judged[r].scenario][judged[r].at], judged[r].response)
  PROVE  JudgeRun(r)' /\ Judges(r)
<1>1. JudgeRun(r)
  BY DEF JudgeInv
<1>2. ~UnderJudgement(r)' /\ Answered(r, context[r].response_str)'
  BY DEF UnderJudgement, NoContext, Text, Answered
<1>3. CASE ~Resolving(r)
  <2>1. judged'[r] = judged[r] /\ ~Resolving(r)'
    BY <1>3 DEF Resolving
  <2>2. Judges(r)
    BY <2>1 DEF Judges, Verdict!vars
  <2> QED BY <1>1, <1>2, <2>1, <2>2 DEF JudgeRun
<1>4. CASE Resolving(r)
  <2>1. /\ judged'[r].scenario = judged[r].scenario /\ judged'[r].asked = judged[r].asked
        /\ judged'[r].response = judged[r].response /\ judged'[r].at = judged[r].at
        /\ judged'[r].verdict = "failed" /\ DOMAIN judged'[r] = Columns
    BY <1>1, <1>4 DEF JudgeRun, Columns
  <2>2. JudgeRun(r)'
    BY <1>1, <1>2, <2>1 DEF JudgeRun, Resolving, Verdicts
  <2>3. UnderJudgement(r) /\ Together(r)
    BY <1>1, <1>4 DEF JudgeRun
  <2>4. CASE pc[r].step <= Valid(r)
    <3>1. judged[r].verdict = "resolving"
      BY <2>3, <2>4 DEF Together
    <3>2. Verdict(r)!Resolve
      BY <2>1, <3>1 DEF Verdict!Resolve
    <3> QED BY <2>2, <3>2 DEF Judges, Verdict!Next
  <2>5. CASE ~(pc[r].step <= Valid(r))
    <3>1. judged[r].verdict = "checking"
      BY <2>3, <2>5 DEF Together
    <3>2. pc[r].step > Valid(r)
      <4>1. pc[r].step \in Nat /\ InDiscovery(r)
        BY <2>3, PlaceType DEF UnderJudgement, JudgeInv, ContextInv
      <4>2. Valid(r) \in Nat
        BY <4>1, Shape DEF JudgeInv, Numbering
      <4> QED BY <2>5, <4>1, <4>2
    <3>3. Verdict(r)!Check
      BY <2>1, <2>3, <3>1, <3>2 DEF Verdict!Check
    <3> QED BY <2>2, <3>3 DEF Judges, Verdict!Next
  <2> QED BY <2>4, <2>5
<1> QED BY <1>3, <1>4

(* The pointers of a discovery: ResolveVerdict begins a scenario.            *)
LEMMA BeginsJudging ==
  ASSUME JudgeInv, NEW r \in Run, InDiscovery(r), InStep(r), Early(r),
         Step(r).do = "input", Step(r).name = "pointers",
         NEW c, Goes(r, c), Answered(r, c.response_str),
         judged'[r] = [scenario |-> Current(r).kind, asked |-> Step(r).value,
                       response |-> NoDoc, at |-> 1, verdict |-> "resolving"]
  PROVE  JudgeRun(r)' /\ Judges(r)
<1>1. /\ pc'[r].step = pc[r].step + 1 /\ context'[r] = c
      /\ Current(r)' = Current(r) /\ Finished(r)' = Finished(r)
  BY GoesOn DEF JudgeInv, InDiscovery
<1>2. JudgeRun(r) /\ ContextInv /\ ~Finished(r)
  BY DEF JudgeInv, InDiscovery
<1>3. /\ pc[r].step \in Nat /\ pc[r].step \in GivenSteps(Current(r))
      /\ \A i \in GivenSteps(Current(r)) : i \in Nat
  <2>1. WellFormed(Current(r))
    BY <1>2, UnderWay DEF ContextInv
  <2>2. pc[r].step \in DOMAIN Current(r).steps
    BY <2>1 DEF InStep, WellFormed
  <2> QED BY <1>2, <2>2, PlaceType, Numbered DEF ContextInv, GivenSteps, Step
<1>4. ~HasPointers(r)
  <2>1. ASSUME NEW i \in GivenSteps(Current(r)), Current(r).steps[i].name = "pointers"
        PROVE  i = pc[r].step
    BY <1>2, <1>3, <2>1, UnderWay DEF ContextInv, WellFormed, Step
  <2>2. ~(pc[r].step < pc[r].step)
    BY <1>3
  <2> QED BY <2>1, <2>2 DEF HasPointers, Passed
<1>5. ~Resolving(r)
  BY <1>2, <1>4 DEF JudgeRun, UnderJudgement
<1>6. Current(r).kind \in Verdict(r)!Scenarios /\ Step(r).value \in (SUBSET DiscoveryPointers) \ {{}}
  BY <1>2, Shape DEF Early
<1>7. Judges(r)
  <2>1. judged[r].verdict \in {"idle", "passed", "failed"}
    BY <1>2, <1>5 DEF JudgeRun, Verdicts, Resolving
  <2>2. Verdict(r)!Begin(Current(r).kind, Step(r).value)
    BY DEF Verdict!Begin, Verdict!NoResponse, NoDoc
  <2>3. Verdict(r)!NextScenario
    BY <1>6, <2>1, <2>2 DEF Verdict!NextScenario
  <2> QED BY <2>3 DEF Judges, Verdict!Next
<1>8. pc[r].step + 1 <= Valid(r) /\ pc[r].step + 1 \in 1 .. Len(Current(r).steps)
  <2>1. /\ Valid(r) \in Nat /\ Len(Verdict(r)!Then[Current(r).kind]) \in Nat
        /\ Len(Current(r).steps) = Valid(r) + Len(Verdict(r)!Then[Current(r).kind])
    BY <1>2, Shape DEF Numbering
  <2>2. pc[r].step < Valid(r)
    BY DEF Early
  <2> QED BY <1>3, <2>1, <2>2
<1>9. Valid(r)' = Valid(r) /\ InDiscovery(r)' = InDiscovery(r)
  BY <1>1, Constants DEF Valid, ValidAt, InDiscovery
<1>10. HasPointers(r)'
  <2>1. pc[r].step \in Passed(r)'
    BY <1>1, <1>2, <1>3, PlaceType DEF Passed, ContextInv
  <2>2. Current(r).steps[pc[r].step].name = "pointers"
    BY DEF Step
  <2> QED BY <1>1, <2>1, <2>2 DEF HasPointers
<1>11. UnderJudgement(r)' /\ Together(r)'
  BY <1>1, <1>8, <1>9, <1>10 DEF UnderJudgement, Together
<1>12. Answered(r, context[r].response_str)'
  BY <1>1, Constants DEF Answered
<1>13. DOMAIN judged'[r] = Columns /\ judged'[r].at \in Nat /\ judged'[r].verdict \in Verdicts
  BY DEF Columns, Verdicts
<1> QED BY <1>7, <1>11, <1>12, <1>13 DEF JudgeRun

(* What going on from "resolved response is valid", or later, comes to.      *)
LEMMA GoesOnLate ==
  ASSUME JudgeInv, NEW r \in Run, InDiscovery(r), InStep(r), ~(pc[r].step < Valid(r)),
         NEW c, Goes(r, c), c.response_str = context[r].response_str
  PROVE  /\ pc[r].step \in Nat /\ Valid(r) \in Nat
         /\ pc'[r].step = pc[r].step + 1 /\ context'[r] = c
         /\ Current(r)' = Current(r) /\ Valid(r)' = Valid(r)
         /\ UnderJudgement(r) /\ Together(r)
         /\ UnderJudgement(r)' <=> pc[r].step # Len(Current(r).steps)
         /\ InDiscovery(r)' => Answered(r, context[r].response_str)'
         /\ Len(Current(r).steps) = Valid(r) + Len(Verdict(r)!Then[Current(r).kind])
         /\ Len(Verdict(r)!Then[Current(r).kind]) \in Nat
         /\ Len(Verdict(r)!Then[Current(r).kind]) # 0
<1>1. /\ pc'[r].step = pc[r].step + 1 /\ context'[r] = c
      /\ Current(r)' = Current(r) /\ Finished(r)' = Finished(r)
  BY GoesOn DEF JudgeInv, InDiscovery
<1>2. JudgeRun(r) /\ ContextInv /\ ~Finished(r)
  BY DEF JudgeInv, InDiscovery
<1>3. UnderJudgement(r) /\ Together(r)
  BY <1>2, PointersFirst DEF JudgeRun
<1>4. Valid(r)' = Valid(r) /\ InDiscovery(r)' = InDiscovery(r)
  BY <1>1, Constants DEF Valid, ValidAt, InDiscovery
<1>5. Answered(r, context[r].response_str)'
  BY <1>1, <1>2, Constants DEF Answered, JudgeRun
<1>6. /\ Valid(r) \in Nat /\ Len(Verdict(r)!Then[Current(r).kind]) \in Nat
      /\ Len(Current(r).steps) = Valid(r) + Len(Verdict(r)!Then[Current(r).kind])
      /\ Len(Verdict(r)!Then[Current(r).kind]) # 0
  <2>1. Numbering(Current(r), Valid(r), Verdict(r)!Then[Current(r).kind])
    BY <1>2, Shape
  <2>2. Len(Verdict(r)!Then[Current(r).kind]) \in Nat \ {0}
    BY <1>2, Shape, ThenSteps DEF Numbering
  <2> QED BY <2>1, <2>2 DEF Numbering
<1>7. pc[r].step \in Nat /\ pc[r].step \in 1 .. Len(Current(r).steps)
  BY <1>2, PlaceType DEF ContextInv, InStep
<1>8. HasPointers(r)'
  <2>1. \A i \in GivenSteps(Current(r)) : i \in Nat
    BY <1>2, Numbered DEF ContextInv
  <2>2. \A i \in Passed(r) : i < pc[r].step + 1
    BY <1>7, <2>1 DEF Passed
  <2>3. Passed(r) \subseteq Passed(r)'
    BY <1>1, <2>2 DEF Passed
  <2> QED BY <1>1, <1>3, <2>3 DEF HasPointers, UnderJudgement
<1>9. pc[r].step + 1 \in 1 .. Len(Current(r).steps) <=> pc[r].step # Len(Current(r).steps)
  BY <1>6, <1>7
<1>10. UnderJudgement(r)' <=> pc[r].step # Len(Current(r).steps)
  BY <1>1, <1>4, <1>8, <1>9 DEF UnderJudgement
<1> QED BY <1>1, <1>3, <1>4, <1>5, <1>6, <1>7, <1>10

(* "resolved response is valid": ResolveVerdict resolves.                   *)
LEMMA ValidJudging ==
  ASSUME JudgeInv, NEW r \in Run, InDiscovery(r), InStep(r), AtValid(r),
         context[r].response_str.kind = "resolved",
         NEW c, Goes(r, c), c.response_str = context[r].response_str, c.valid,
         judged'[r] = [judged[r] EXCEPT !.response = context[r].response_str.response,
                                        !.verdict = "checking"]
  PROVE  JudgeRun(r)' /\ Judges(r)
<1>1. pc[r].step = Valid(r) /\ JudgeRun(r)
  BY DEF AtValid, JudgeInv
<1>2. ~(pc[r].step < Valid(r))
  <2>1. Valid(r) \in Nat
    BY Shape DEF Numbering, JudgeInv
  <2> QED BY <1>1, <2>1
<1>3. judged[r].verdict = "resolving" /\ judged[r].at = 1 /\ judged[r].scenario = Current(r).kind
  <2>1. Together(r) /\ Valid(r) \in Nat
    BY <1>2, GoesOnLate
  <2>2. pc[r].step <= Valid(r)
    BY <1>1, <2>1
  <2> QED BY <2>1, <2>2 DEF Together
<1>4. /\ judged'[r].scenario = judged[r].scenario /\ judged'[r].asked = judged[r].asked
      /\ judged'[r].response = context[r].response_str.response /\ judged'[r].at = judged[r].at
      /\ judged'[r].verdict = "checking" /\ DOMAIN judged'[r] = Columns
  BY <1>1 DEF JudgeRun, Columns
<1>5. context[r].response_str.response \in Verdict(r)!Response
  BY <1>1 DEF JudgeRun, Answered
<1>6. Judges(r)
  <2>1. Verdict(r)!Resolve
    BY <1>3, <1>4, <1>5, Constants DEF Verdict!Resolve
  <2> QED BY <2>1 DEF Judges, Verdict!Next
<1>7. UnderJudgement(r)'
  <2>1. pc[r].step # Len(Current(r).steps)
    BY <1>1, <1>2, GoesOnLate
  <2> QED BY <1>2, <2>1, GoesOnLate
<1>8. ~(pc'[r].step <= Valid(r)') /\ pc'[r].step = Valid(r)' + 1
  BY <1>1, <1>2, GoesOnLate
<1>9. Together(r)'
  BY <1>2, <1>3, <1>4, <1>8, GoesOnLate DEF Together
<1>10. InDiscovery(r)' => Answered(r, context[r].response_str)'
  BY <1>2, GoesOnLate
<1> QED BY <1>1, <1>4, <1>6, <1>7, <1>9, <1>10 DEF JudgeRun, Verdicts

(* A Then step that passes: ResolveVerdict checks.                          *)
LEMMA ThenJudging ==
  ASSUME JudgeInv, NEW r \in Run, InDiscovery(r), InStep(r), Late(r),
         Verdict(r)!Holds(Step(r).what, context[r].response_str.response),
         Goes(r, context[r]),
         judged'[r] = [judged[r] EXCEPT !.at = @ + 1,
                         !.verdict = IF pc[r].step = Len(Current(r).steps)
                                     THEN "passed" ELSE @]
  PROVE  JudgeRun(r)' /\ Judges(r)
<1> DEFINE thens == Verdict(r)!Then[Current(r).kind]
<1>1. JudgeRun(r) /\ pc[r].step > Valid(r) /\ Step(r).what = thens[pc[r].step - Valid(r)]
  BY DEF Late, JudgeInv
<1>2. ~(pc[r].step < Valid(r)) /\ ~(pc[r].step <= Valid(r))
  <2>1. pc[r].step \in Nat /\ Valid(r) \in Nat
    BY Shape, PlaceType DEF Numbering, JudgeInv, ContextInv
  <2> QED BY <1>1, <2>1
<1>3. /\ judged[r].scenario = Current(r).kind /\ judged[r].verdict = "checking"
      /\ pc[r].step = Valid(r) + judged[r].at /\ context[r].valid
      /\ judged[r].response = context[r].response_str.response /\ judged[r].at \in Nat
  BY <1>1, <1>2, GoesOnLate DEF Together, JudgeRun
<1>4. /\ judged'[r].scenario = judged[r].scenario /\ judged'[r].asked = judged[r].asked
      /\ judged'[r].response = judged[r].response /\ judged'[r].at = judged[r].at + 1
      /\ judged'[r].verdict = IF pc[r].step = Len(Current(r).steps) THEN "passed" ELSE "checking"
      /\ DOMAIN judged'[r] = Columns
  BY <1>1, <1>3 DEF JudgeRun, Columns
<1>5. pc[r].step - Valid(r) = judged[r].at
  BY <1>2, <1>3, GoesOnLate
<1>6. pc[r].step = Len(Current(r).steps) <=> judged[r].at = Len(thens)
  <2>1. /\ Valid(r) \in Nat /\ Len(thens) \in Nat /\ Len(Current(r).steps) = Valid(r) + Len(thens)
    BY <1>2, GoesOnLate
  <2> QED BY <1>3, <2>1
<1>7. Judges(r)
  <2>1. Verdict(r)!Holds(Verdict(r)!Then[judged[r].scenario][judged[r].at], judged[r].response)
    BY <1>1, <1>3, <1>5
  <2>2. Verdict(r)!Check
    BY <1>3, <1>4, <1>6, <2>1, Zenon DEF Verdict!Check
  <2> QED BY <2>2 DEF Judges, Verdict!Next
<1>8. /\ UnderJudgement(r)' <=> pc[r].step # Len(Current(r).steps)
      /\ InDiscovery(r)' => Answered(r, context[r].response_str)'
  BY <1>2, GoesOnLate
<1>9. Resolving(r)' => UnderJudgement(r)'
  BY <1>4, <1>8 DEF Resolving
<1>10. UnderJudgement(r)' => Together(r)'
  <2>1. /\ ~(pc'[r].step <= Valid(r)') /\ pc'[r].step = Valid(r)' + (judged[r].at + 1)
        /\ Current(r)' = Current(r) /\ context'[r] = context[r]
    <3>1. /\ pc'[r].step = pc[r].step + 1 /\ Valid(r)' = Valid(r)
          /\ Current(r)' = Current(r) /\ context'[r] = context[r] /\ Valid(r) \in Nat
      BY <1>2, GoesOnLate
    <3>2. /\ ~(pc[r].step + 1 <= Valid(r))
          /\ pc[r].step + 1 = Valid(r) + (judged[r].at + 1)
      BY <1>2, <1>3, <3>1
    <3> QED BY <3>1, <3>2
  <2> QED BY <1>3, <1>4, <1>8, <2>1 DEF Together
<1> QED BY <1>3, <1>4, <1>7, <1>8, <1>9, <1>10 DEF JudgeRun, Verdicts

-----------------------------------------------------------------------------
(* The steps of a run.                                                     *)

Keeps(r) == JudgeRun(r)' /\ Judges(r)
Alone(r) ==
  /\ DOMAIN judged' = Run
  /\ \A q \in Run \ {r} : UNCHANGED <<pc[q], context[q], judged[q]>>

LEMMA AloneKeeps ==
  ASSUME JudgeInv, ContextInv', NEW r \in Run, Keeps(r), Alone(r)
  PROVE  JudgeInv' /\ \A q \in Run : Judges(q)
<1>1. ASSUME NEW q \in Run \ {r} PROVE JudgeRun(q)' /\ Judges(q)
  BY UntouchedJudging DEF JudgeInv, Alone
<1> QED BY <1>1 DEF Keeps, Alone, JudgeInv

LEMMA GoesAlone ==
  ASSUME JudgeInv, NEW r \in Run, NEW c, Goes(r, c),
         DOMAIN judged' = Run, \A q \in Run \ {r} : judged'[q] = judged[q]
  PROVE  Alone(r)
BY DEF Alone, Goes, JudgeInv, ContextInv

(* A failure, wherever it is.                                              *)
LEMMA FailsJudging ==
  ASSUME JudgeInv, NEW r \in Run, ~Finished(r), Leave(r), Layer(r),
         IF Resolving(r) THEN Note(r, "failed") ELSE judged' = judged,
         UnderJudgement(r) /\ pc[r].step > Valid(r) =>
           ~Verdict(r)!Holds(Verdict(r)!Then[judged[r].scenario][judged[r].at], judged[r].response)
  PROVE  Keeps(r) /\ Alone(r)
<1>1. pc' = [pc EXCEPT ![r] = [scenario |-> pc[r].scenario + 1, step |-> 0]]
  BY DEF Leave
<1>2. pc'[r].step = 0 /\ \A q \in Run \ {r} : pc'[q] = pc[q]
  BY <1>1 DEF JudgeInv, ContextInv
<1>3. context'[r] = NoContext /\ \A q \in Run \ {r} : context'[q] = context[q]
  BY <1>2 DEF Layer, JudgeInv, ContextInv
<1>4. /\ judged'[r] = IF Resolving(r) THEN [judged[r] EXCEPT !.verdict = "failed"] ELSE judged[r]
      /\ DOMAIN judged' = Run /\ \A q \in Run \ {r} : judged'[q] = judged[q]
  BY DEF Note, JudgeInv
<1>5. Keeps(r)
  BY <1>2, <1>3, <1>4, LeavesJudging DEF Keeps
<1> QED BY <1>2, <1>3, <1>4, <1>5 DEF Alone

(* A step before a discovery judges, or in another scenario, that passes.    *)
LEMMA PassesJudging ==
  ASSUME JudgeInv, NEW r \in Run, InStep(r), NEW c, Goes(r, c), judged' = judged,
         InDiscovery(r) => /\ Step(r).do # "then" /\ Answered(r, c.response_str)
                           /\ ~(Step(r).do = "input" /\ Step(r).name = "pointers")
  PROVE  Keeps(r) /\ Alone(r)
<1>1. ~Finished(r) /\ ContextInv
  BY DEF InStep, JudgeInv
<1>2. ASSUME InDiscovery(r)
      PROVE  /\ pc[r].step < Valid(r) /\ Answered(r, c.response_str)
             /\ ~(pc[r].step \in GivenSteps(Current(r))
                    /\ Current(r).steps[pc[r].step].name = "pointers")
  <2>1. Early(r)
    BY <1>1, <1>2, Position DEF AtValid, Late
  <2> QED BY <1>2, <2>1 DEF Early, GivenSteps, Step
<1>3. JudgeRun(r)' /\ Judges(r)
  BY <1>1, <1>2, GoesOnJudging
<1> QED BY <1>3, GoesAlone DEF Keeps, JudgeInv

(* A step that is not a Then step, and fails.                               *)
LEMMA EarlyFails ==
  ASSUME JudgeInv, NEW r \in Run, InStep(r), FailsTcr(r),
         Step(r).do # "then" \/ ~InDiscovery(r) \/ AtValid(r)
  PROVE  Keeps(r) /\ Alone(r)
<1>1. ~(UnderJudgement(r) /\ pc[r].step > Valid(r))
  <2> SUFFICES ASSUME UnderJudgement(r), pc[r].step > Valid(r) PROVE FALSE
    OBVIOUS
  <2>1. InDiscovery(r) /\ pc[r].step \in Nat
    BY PlaceType DEF UnderJudgement, JudgeInv, ContextInv
  <2>2. Valid(r) \in Nat
    BY <2>1, Shape DEF Numbering, JudgeInv
  <2>3. ~(pc[r].step < Valid(r)) /\ pc[r].step # Valid(r)
    BY <2>1, <2>2
  <2>4. ~Early(r) /\ ~AtValid(r)
    BY <2>3, Zenon DEF Early, AtValid
  <2>5. Late(r)
    BY <2>1, <2>4, Position DEF JudgeInv
  <2> QED BY <2>1, <2>4, <2>5 DEF Late
<1> QED BY <1>1, FailsJudging DEF FailsTcr, Fails, InStep

LEMMA AnsweredSo == ASSUME JudgeInv, NEW r \in Run
  PROVE  InDiscovery(r) => Answered(r, context[r].response_str)
BY DEF JudgeInv, JudgeRun

LEMMA InContext ==
  ASSUME JudgeInv, NEW r \in Run
  PROVE  DOMAIN context[r] = Fields
BY DEF JudgeInv, ContextInv, GivenInv

LEMMA InputJudging ==
  ASSUME JudgeInv, NEW r \in Run, InStep(r), AddInput(r)
  PROVE  Keeps(r) /\ Alone(r)
<1> DEFINE c == [context[r] EXCEPT !.given = With(context[r].given, Step(r).name, Step(r).value)]
<1>1. Step(r).do = "input" /\ Goes(r, c)
  BY DEF AddInput, Passes, Proceed, Goes
<1>2. c.response_str = context[r].response_str
  BY InContext DEF Fields
<1>3. InDiscovery(r) => Answered(r, c.response_str)
  BY <1>2, AnsweredSo
<1>4. pc[r].step \in GivenSteps(Current(r)) /\ Step(r) = Current(r).steps[pc[r].step]
  <2>1. WellFormed(Current(r))
    BY UnderWay DEF InStep, JudgeInv, ContextInv
  <2> QED BY <1>1, <2>1 DEF InStep, WellFormed, GivenSteps, Step
<1> HIDE DEF c
<1>5. CASE Step(r).name = "pointers" /\ Current(r).kind # "direct"
  <2>1. InDiscovery(r)
    BY <1>4, <1>5 DEF InDiscovery, IsDiscovery, InStep
  <2>2. Early(r)
    BY <1>1, <2>1, Position DEF AtValid, Late, JudgeInv
  <2>3. judged' = [judged EXCEPT ![r] =
          [scenario |-> Current(r).kind, asked |-> Step(r).value,
           response |-> NoDoc, at |-> 1, verdict |-> "resolving"]]
    BY <1>5, Zenon DEF AddInput
  <2>4. /\ judged'[r] = [scenario |-> Current(r).kind, asked |-> Step(r).value,
                          response |-> NoDoc, at |-> 1, verdict |-> "resolving"]
        /\ DOMAIN judged' = Run /\ \A q \in Run \ {r} : judged'[q] = judged[q]
    BY <2>3 DEF JudgeInv
  <2>5. JudgeRun(r)' /\ Judges(r)
    BY <1>1, <1>3, <1>5, <2>1, <2>2, <2>4, BeginsJudging
  <2> QED BY <1>1, <2>4, <2>5, GoesAlone DEF Keeps
<1>6. CASE ~(Step(r).name = "pointers" /\ Current(r).kind # "direct")
  <2>1. judged' = judged
    BY <1>6, Zenon DEF AddInput
  <2>2. InDiscovery(r) => Current(r).kind # "direct"
    BY Shape, ThenSteps DEF JudgeInv
  <2> QED BY <1>1, <1>3, <1>6, <2>1, <2>2, PassesJudging
<1> QED BY <1>5, <1>6

LEMMA AskJudging ==
  ASSUME JudgeInv, NEW r \in Run, InStep(r), NEW faulty, AskTcr(r, faulty)
  PROVE  Keeps(r) /\ Alone(r)
<1>1. Step(r).do \in {"ask server", "ask client", "may fail"}
  BY Zenon DEF AskTcr, AskTheServer, AskTheClient, MayFailValidate
<1>2. InDiscovery(r) => Step(r).do = "ask client"
  BY <1>1, Position DEF Early, AtValid, Late, JudgeInv
<1>3. CASE FailsTcr(r)
  BY <1>1, <1>3, EarlyFails
<1>4. CASE AskTheServer(r, faulty) /\ ~FailsTcr(r)
  <2> DEFINE c == [context[r] EXCEPT !.asked = ServerAsks(Step(r).op, context[r].given)]
  <2>1. Goes(r, c) /\ judged' = judged /\ Step(r).do = "ask server"
    BY <1>4 DEF AskTheServer, Proceed, Goes
  <2> HIDE DEF c
  <2> QED BY <1>2, <2>1, PassesJudging
<1>5. CASE (AskTheClient(r, faulty) \/ MayFailValidate(r, faulty)) /\ ~FailsTcr(r)
  <2>1. \E o, text : /\ Takes(r, o, text)
                     /\ Step(r).do = "ask client" =>
                          /\ text = o.stdout
                          /\ o \in Outcomes(context[r].client, Command(r), faulty)
    BY <1>5, Zenon DEF AskTheClient, MayFailValidate
  <2>2. PICK o, text : /\ Takes(r, o, text)
                       /\ Step(r).do = "ask client" =>
                            /\ text = o.stdout
                            /\ o \in Outcomes(context[r].client, Command(r), faulty)
    BY <2>1
  <2> DEFINE c == [context[r] EXCEPT !.asked = Command(r), !.outcome = o, !.response_str = text]
  <2>3. Goes(r, c) /\ judged' = judged
    BY <2>2 DEF Takes, Passes, Proceed, Goes
  <2>4. c.response_str = text
    BY InContext DEF Fields
  <2>5. InDiscovery(r) => Answered(r, text)
    BY <1>2, <2>2, OutcomesAnswered
  <2> HIDE DEF c
  <2> QED BY <1>1, <2>3, <2>4, <2>5, PassesJudging
<1> QED BY <1>3, <1>4, <1>5 DEF AskTcr

LEMMA ValidStepJudging ==
  ASSUME JudgeInv, NEW r \in Run, InStep(r), ResponseIsValid(r)
  PROVE  Keeps(r) /\ Alone(r)
<1>1. Step(r).do = "then" /\ Step(r).what = "response is valid"
  BY DEF ResponseIsValid
<1>2. InDiscovery(r)
  BY <1>1, NotJudging DEF Judging, JudgeInv
<1>3. AtValid(r)
  BY <1>1, <1>2, Position DEF Early, Late, ThenTexts, JudgeInv
<1>4. CASE context[r].response_str.kind = "resolved"
  <2> DEFINE c == [context[r] EXCEPT !.valid = TRUE]
  <2>1. Goes(r, c)
    BY <1>4 DEF ResponseIsValid, Passes, Proceed, Goes
  <2>2. judged' = [judged EXCEPT ![r].response = context[r].response_str.response,
                                 ![r].verdict = "checking"]
    BY <1>4 DEF ResponseIsValid
  <2>3. /\ judged'[r] = [judged[r] EXCEPT !.response = context[r].response_str.response,
                                          !.verdict = "checking"]
        /\ DOMAIN judged' = Run /\ \A q \in Run \ {r} : judged'[q] = judged[q]
    BY <2>2 DEF JudgeInv
  <2>4. c.response_str = context[r].response_str /\ c.valid
    BY InContext DEF Fields
  <2> HIDE DEF c
  <2> QED BY <1>2, <1>3, <1>4, <2>1, <2>3, <2>4, ValidJudging, GoesAlone DEF Keeps
<1>5. CASE context[r].response_str.kind # "resolved"
  BY <1>3, <1>5, EarlyFails DEF ResponseIsValid
<1> QED BY <1>4, <1>5

LEMMA ThenStepJudging ==
  ASSUME JudgeInv, NEW r \in Run, InStep(r), ResolveThen(r)
  PROVE  Keeps(r) /\ Alone(r)
<1>1. Step(r).do = "then" /\ Step(r).what \in ThenTexts
  BY DEF ResolveThen, ThenTexts
<1>2. InDiscovery(r)
  BY <1>1, NotJudging DEF Judging, ThenTexts, JudgeInv
<1>3. Late(r)
  BY <1>1, <1>2, Position DEF Early, AtValid, ThenTexts, JudgeInv
<1>4. CASE context[r].valid /\ Verdict(r)!Holds(Step(r).what, context[r].response_str.response)
  <2>1. Goes(r, context[r])
    BY <1>4 DEF ResolveThen, Passes, Proceed, Goes
  <2>2. judged' = [judged EXCEPT ![r].at = @ + 1,
                     ![r].verdict = IF pc[r].step = Len(Current(r).steps) THEN "passed" ELSE @]
    BY <1>4 DEF ResolveThen
  <2>3. /\ judged'[r] = [judged[r] EXCEPT !.at = @ + 1,
                     !.verdict = IF pc[r].step = Len(Current(r).steps) THEN "passed" ELSE @]
        /\ DOMAIN judged' = Run /\ \A q \in Run \ {r} : judged'[q] = judged[q]
    BY <2>2 DEF JudgeInv
  <2> QED BY <1>2, <1>3, <1>4, <2>1, <2>3, ThenJudging, GoesAlone DEF Keeps
<1>5. CASE ~(context[r].valid /\ Verdict(r)!Holds(Step(r).what, context[r].response_str.response))
  <2>1. FailsTcr(r)
    BY <1>5 DEF ResolveThen
  <2>2. ASSUME UnderJudgement(r)
        PROVE  ~Verdict(r)!Holds(Verdict(r)!Then[judged[r].scenario][judged[r].at], judged[r].response)
    <3>1. Together(r) /\ judged[r].at \in Nat
      BY <2>2 DEF JudgeInv, JudgeRun
    <3>2. pc[r].step > Valid(r) /\ pc[r].step \in Nat /\ Valid(r) \in Nat
      BY <1>2, <1>3, Shape, PlaceType DEF Late, Numbering, JudgeInv, ContextInv
    <3>3. ~(pc[r].step <= Valid(r))
      BY <3>2
    <3>4. /\ judged[r].scenario = Current(r).kind /\ context[r].valid
          /\ judged[r].response = context[r].response_str.response
          /\ pc[r].step = Valid(r) + judged[r].at
      BY <3>1, <3>3 DEF Together
    <3>5. pc[r].step - Valid(r) = judged[r].at
      BY <3>1, <3>2, <3>4
    <3>6. Step(r).what = Verdict(r)!Then[Current(r).kind][pc[r].step - Valid(r)]
      BY <1>3 DEF Late
    <3> QED BY <1>5, <3>4, <3>5, <3>6
  <2> QED BY <2>1, <2>2, FailsJudging DEF FailsTcr, Fails, InStep
<1> QED BY <1>4, <1>5

LEMMA TcrStepJudging ==
  ASSUME JudgeInv, NEW r \in Run, TcrStep(r)
  PROVE  Keeps(r) /\ Alone(r)
<1>1. InStep(r)
  BY DEF TcrStep
<1>2. ASSUME NEW c, Passes(r, c), UNCHANGED judged,
             c.response_str = context[r].response_str,
             InDiscovery(r) => Step(r).do \notin {"then", "input"}
      PROVE  Keeps(r) /\ Alone(r)
  <2>1. Goes(r, c)
    BY <1>2 DEF Passes, Proceed, Goes
  <2> QED BY <1>1, <1>2, <2>1, AnsweredSo, PassesJudging
<1>3. CASE AddClient(r)
  <2> DEFINE c == [context[r] EXCEPT !.client = Step(r).client]
  <2>1. Passes(r, c) /\ UNCHANGED judged /\ Step(r).do = "installed"
    BY <1>3 DEF AddClient
  <2>2. c.response_str = context[r].response_str
    BY InContext DEF Fields
  <2> HIDE DEF c
  <2> QED BY <1>2, <2>1, <2>2
<1>4. CASE ChecksNothing(r)
  BY <1>2, <1>4 DEF ChecksNothing
<1>5. CASE ValidationIsValid(r) \/ DidIsVerified(r) \/ ContentMatches(r)
  <2>1. \/ Step(r).do = "then" /\ Step(r).what \in {"validation is valid", "did is verified"}
        \/ Step(r).do = "matches"
    BY <1>5, Zenon DEF ValidationIsValid, DidIsVerified, ContentMatches
  <2>2. ~InDiscovery(r)
    BY <1>1, <2>1, Position DEF Early, AtValid, Late, ThenTexts, JudgeInv
  <2>3. \/ FailsTcr(r)
        \/ Passes(r, context[r]) /\ UNCHANGED judged
        \/ Passes(r, [context[r] EXCEPT !.valid = TRUE]) /\ UNCHANGED judged
    BY <1>5, Zenon DEF ValidationIsValid, DidIsVerified, ContentMatches, Asserts
  <2>4. [context[r] EXCEPT !.valid = TRUE].response_str = context[r].response_str
    BY InContext DEF Fields
  <2> QED BY <1>1, <1>2, <2>2, <2>3, <2>4, EarlyFails
<1> QED BY <1>1, <1>3, <1>4, <1>5, InputJudging, AskJudging, ValidStepJudging, ThenStepJudging
        DEF TcrStep

LEMMA TspaStepJudging ==
  ASSUME JudgeInv, NEW r \in Run, TspaStep(r)
  PROVE  Keeps(r) /\ Alone(r)
<1>1. Layer(r) /\ RunStep(r) /\ judged' = judged /\ ContextInv /\ JudgeRun(r)
  BY DEF TspaStep, JudgeInv
<1>2. ~Finished(r) /\ pc[r].step \in Nat
  BY <1>1, PlaceType DEF RunStep, Background, InStep, EndScenario, ContextInv
<1>3. ASSUME Leave(r), ~UnderJudgement(r) PROVE Keeps(r) /\ Alone(r)
  <2>1. ~Resolving(r)
    BY <1>1, <1>3 DEF JudgeRun
  <2> QED BY <1>1, <1>2, <1>3, <2>1, FailsJudging
<1>4. ASSUME Proceed(r) PROVE \E c : Goes(r, c) /\ (pc[r].step = 0 => c \in {NoContext, Defaults})
  <2> DEFINE c == IF pc[r].step = 0 /\ IsTcr(r) THEN Defaults ELSE context[r]
  <2>1. pc'[r].step # 0
    BY <1>1, <1>4, PlaceType DEF Proceed, ContextInv, Places
  <2>2. Goes(r, c)
    BY <1>1, <1>4, <2>1 DEF Layer, Proceed, Goes
  <2>3. pc[r].step = 0 => c \in {NoContext, Defaults}
    BY <1>1 DEF ContextInv, GivenInv
  <2> QED BY <2>2, <2>3
<1>5. CASE Background(r)
  <2>1. pc[r].step = 0
    BY <1>5 DEF Background
  <2>2. PICK c : Goes(r, c) /\ c \in {NoContext, Defaults}
    BY <1>4, <1>5, <2>1 DEF Background
  <2>3. Answered(r, c.response_str)
    BY <2>2 DEF Answered, NoContext, Defaults, Text
  <2>4. InDiscovery(r) => pc[r].step < Valid(r)
    <3>1. InDiscovery(r) => Valid(r) \in Nat /\ Valid(r) # 0
      BY <1>1, Shape DEF Numbering
    <3> QED BY <2>1, <3>1
  <2>5. pc[r].step \notin GivenSteps(Current(r))
    BY <1>1, <1>2, <2>1, Numbered DEF ContextInv
  <2>6. JudgeRun(r)' /\ Judges(r)
    BY <1>1, <1>2, <2>2, <2>3, <2>4, <2>5, GoesOnJudging
  <2> QED BY <1>1, <2>2, <2>6, GoesAlone DEF Keeps, JudgeInv
<1>6. CASE EndScenario(r)
  <2>1. ~UnderJudgement(r)
    <3>1. ~InStep(r)
      <4>1. WellFormed(Current(r)) /\ pc[r].step > Len(Current(r).steps) /\ Leave(r)
        BY <1>1, <1>2, <1>6, UnderWay DEF EndScenario, ContextInv
      <4>2. Len(Current(r).steps) \in Nat
        BY <4>1 DEF WellFormed
      <4> QED BY <1>2, <4>1, <4>2 DEF InStep
    <3> QED BY <1>2, <3>1 DEF UnderJudgement, InStep
  <2> QED BY <1>3, <1>6, <2>1 DEF EndScenario
<1>7. CASE InStep(r) /\ (FetchToken(r) \/ SaveToken(r) \/ LoadToken(r) \/ SendRequest(r)
                           \/ Judge(r))
  <2>1. Step(r).do \in {"fetch token", "save token", "load token", "send", "status", "content"}
    BY <1>7, Zenon DEF FetchToken, SaveToken, LoadToken, SendRequest, Judge
  <2>2. ~InDiscovery(r)
    BY <1>1, <1>7, <2>1, Position DEF Early, AtValid, Late
  <2>3. Proceed(r) \/ Leave(r)
    BY <1>7 DEF FetchToken, SaveToken, LoadToken, SendRequest, Judge, Fails
  <2>4. ~UnderJudgement(r)
    BY <2>2 DEF UnderJudgement
  <2>5. ASSUME Proceed(r) PROVE Keeps(r) /\ Alone(r)
    <3>1. PICK c : Goes(r, c)
      BY <1>4, <2>5
    <3> QED BY <1>1, <1>7, <2>2, <3>1, PassesJudging
  <2> QED BY <1>3, <2>3, <2>4, <2>5
<1> QED BY <1>1, <1>5, <1>6, <1>7 DEF RunStep

LEMMA TspaFaultJudging ==
  ASSUME JudgeInv, NEW r \in Run, TspaFault(r)
  PROVE  Keeps(r) /\ Alone(r)
<1>1. Layer(r) /\ ~Finished(r) /\ judged' = judged /\ ContextInv /\ JudgeRun(r)
  BY DEF TspaFault, NotUp, TimesOut, TokenLost, Fault, JudgeInv
<1>2. CASE NotUp(r) \/ TimesOut(r)
  <2>1. Leave(r)
    BY <1>2 DEF NotUp, TimesOut, Fails
  <2>2. ~UnderJudgement(r)
    <3>1. CASE pc[r].step = 0
      <4>1. ~(0 \in 1 .. Len(Current(r).steps))
        OBVIOUS
      <4> QED BY <3>1, <4>1 DEF UnderJudgement
    <3>2. CASE InStep(r) /\ Step(r).do \in {"fetch token", "send"}
      BY <1>1, <3>2, Position DEF Early, AtValid, Late, UnderJudgement
    <3> QED BY <1>2, <3>1, <3>2 DEF NotUp, TimesOut
  <2>3. ~Resolving(r)
    BY <1>1, <2>2 DEF JudgeRun
  <2> QED BY <1>1, <2>1, <2>2, <2>3, FailsJudging
<1>3. CASE TokenLost(r)
  <2>1. pc' = pc
    BY <1>3 DEF TokenLost
  <2>2. context'[r] = context[r] /\ \A q \in Run \ {r} : context'[q] = context[q]
    BY <1>1, <2>1 DEF Layer, ContextInv, GivenInv
  <2>3. Keeps(r)
    BY <1>1, <2>1, <2>2, UntouchedJudging DEF Keeps
  <2> QED BY <1>1, <2>1, <2>2, <2>3 DEF Alone, JudgeInv
<1> QED BY <1>2, <1>3 DEF TspaFault

LEMMA FrameJudging ==
  ASSUME JudgeInv, UNCHANGED <<pc, context, judged>>
  PROVE  JudgeInv' /\ \A q \in Run : Judges(q)
<1>1. ASSUME NEW q \in Run PROVE JudgeRun(q)' /\ Judges(q)
  BY UntouchedJudging DEF JudgeInv
<1> QED BY <1>1, FrameInv DEF JudgeInv

LEMMA NextJudges ==
  ASSUME JudgeInv, [TcrNext]_tcrVars
  PROVE  JudgeInv' /\ \A q \in Run : Judges(q)
<1>1. ContextInv'
  BY NextContextInv DEF JudgeInv
<1>2. ASSUME NEW r \in Run, TspaStep(r) PROVE Keeps(r) /\ Alone(r)
  BY <1>2, TspaStepJudging
<1>3. ASSUME NEW r \in Run, TcrStep(r) PROVE Keeps(r) /\ Alone(r)
  BY <1>3, TcrStepJudging
<1>4. ASSUME NEW r \in Run, TspaFault(r) PROVE Keeps(r) /\ Alone(r)
  BY <1>4, TspaFaultJudging
<1>5. ASSUME NEW r \in Run, TcrFault(r) PROVE Keeps(r) /\ Alone(r)
  <2>1. InStep(r)
    BY <1>5 DEF TcrFault
  <2>2. CASE Step(r).do \in {"installed", "ask server"} /\ FailsTcr(r)
    BY <2>1, <2>2, EarlyFails
  <2>3. CASE AskTcr(r, TRUE)
    BY <2>1, <2>3, AskJudging
  <2> QED BY <1>5, <2>2, <2>3 DEF TcrFault
<1>6. CASE Elsewhere
  BY <1>6, FrameJudging DEF Elsewhere, LateLands, CleanAllElsewhere, runVars
<1>7. CASE UNCHANGED tcrVars
  BY <1>7, FrameJudging DEF tcrVars, vars, runVars
<1>8. CASE TcrStop
  BY <1>7, <1>8 DEF TcrStop
<1>9. ASSUME NEW r \in Run, TspaStep(r) \/ TcrStep(r) \/ TspaFault(r) \/ TcrFault(r)
      PROVE  JudgeInv' /\ \A q \in Run : Judges(q)
  BY <1>1, <1>2, <1>3, <1>4, <1>5, <1>9, AloneKeeps
<1> QED BY <1>6, <1>7, <1>8, <1>9 DEF TcrNext

LEMMA InitJudges ==
  ASSUME TcrInit
  PROVE  JudgeInv /\ \A r \in Run : Verdict(r)!Init
<1>1. judged = [r \in Run |-> NothingJudged] /\ pc = [r \in Run |-> Start]
      /\ context = [r \in Run |-> NoContext]
  BY DEF TcrInit, Init
<1>2. ASSUME NEW r \in Run PROVE JudgeRun(r) /\ Verdict(r)!Init
  <2>1. judged[r] = NothingJudged /\ pc[r].step = 0 /\ context[r] = NoContext
    BY <1>1 DEF Start
  <2>2. ~Resolving(r) /\ ~UnderJudgement(r)
    BY <2>1 DEF Resolving, NothingJudged, UnderJudgement
  <2>3. Answered(r, context[r].response_str)
    BY <2>1 DEF Answered, NoContext, Text
  <2>4. JudgeRun(r)
    BY <2>1, <2>2, <2>3 DEF JudgeRun, NothingJudged, Columns, Verdicts
  <2>5. Verdict(r)!Init
    BY <2>1 DEF Verdict!Init, Verdict!Scenarios, Verdict!NoResponse, NothingJudged, NoDoc
  <2> QED BY <2>4, <2>5
<1> QED BY <1>1, <1>2, InitContextInv DEF JudgeInv

(* Over all steps, faults and failures of the runs, their resolve scenarios   *)
(* are a behaviour of ResolveVerdict, one for each run.                      *)
THEOREM RunsJudgeAsSpecified == TcrSpec => JudgesAsSpecified
<1>1. TcrInit => JudgeInv /\ \A r \in Run : Verdict(r)!Init
  BY InitJudges
<1>2. JudgeInv /\ [TcrNext]_tcrVars =>
        JudgeInv' /\ [\A r \in Run : [Verdict(r)!Next]_(Verdict(r)!vars)]_tcrVars
  BY NextJudges DEF Judges
<1> QED BY <1>1, <1>2, PTL DEF TcrSpec, JudgesAsSpecified

-----------------------------------------------------------------------------
(* The types of the runs that ask the TCR.                                   *)

(* Checking, a run has a Then step that is next.                            *)
VerdictTyped(r) ==
  /\ Verdict(r)!TypeOK
  /\ judged[r].verdict \in {"resolving", "checking"} =>
       judged[r].at \in 1 .. Len(Verdict(r)!Then[judged[r].scenario])

LEMMA OneMore ==
  ASSUME NEW last \in Nat, NEW at \in 1 .. last
  PROVE  at + 1 \in 1 .. last + 1 /\ (at # last => at + 1 \in 1 .. last)
OBVIOUS

LEMMA FirstStep ==
  ASSUME NEW last \in Nat, last # 0
  PROVE  1 \in 1 .. last /\ 1 \in 1 .. last + 1
OBVIOUS

LEMMA VerdictKept ==
  ASSUME NEW r \in Run, VerdictTyped(r), Judges(r)
  PROVE  VerdictTyped(r)'
<1> DEFINE s == judged[r].scenario
           last == Len(Verdict(r)!Then[judged[r].scenario])
<1>1. /\ s \in Verdict(r)!Scenarios /\ judged[r].asked \in SUBSET DiscoveryPointers
      /\ judged[r].at \in 1 .. last + 1 /\ judged[r].verdict \in Verdicts
  BY DEF VerdictTyped, Verdict!TypeOK, Verdicts
<1>2. last \in Nat /\ last # 0
  BY <1>1, ThenSteps
<1>3. ASSUME judged'[r].scenario \in Verdict(r)!Scenarios,
             judged'[r].asked \in SUBSET DiscoveryPointers,
             judged'[r].at \in 1 .. Len(Verdict(r)!Then[judged'[r].scenario]) + 1,
             judged'[r].verdict \in Verdicts,
             judged'[r].verdict \in {"resolving", "checking"} =>
               judged'[r].at \in 1 .. Len(Verdict(r)!Then[judged'[r].scenario])
      PROVE  VerdictTyped(r)'
  BY <1>3, Constants DEF VerdictTyped, Verdict!TypeOK, Verdict!Scenarios, Verdicts
<1>4. CASE UNCHANGED Verdict(r)!vars
  <2>1. /\ judged'[r].scenario = judged[r].scenario /\ judged'[r].asked = judged[r].asked
        /\ judged'[r].at = judged[r].at /\ judged'[r].verdict = judged[r].verdict
    BY <1>4 DEF Verdict!vars
  <2> QED BY <1>1, <1>3, <2>1 DEF VerdictTyped
<1>5. CASE Verdict(r)!Resolve
  <2>1. /\ judged'[r].scenario = judged[r].scenario /\ judged'[r].asked = judged[r].asked
        /\ judged'[r].at = judged[r].at /\ judged'[r].verdict \in {"checking", "failed"}
        /\ judged[r].verdict = "resolving"
    BY <1>5 DEF Verdict!Resolve
  <2>2. judged[r].at \in 1 .. last /\ judged'[r].verdict \in Verdicts
    BY <2>1 DEF VerdictTyped, Verdicts
  <2> QED BY <1>1, <1>3, <2>1, <2>2
<1>6. CASE Verdict(r)!Check
  <2>1. /\ judged'[r].scenario = judged[r].scenario /\ judged'[r].asked = judged[r].asked
        /\ judged[r].verdict = "checking"
        /\ \/ /\ judged'[r].at = judged[r].at + 1
              /\ judged'[r].verdict = IF judged[r].at = last THEN "passed" ELSE "checking"
           \/ judged'[r].at = judged[r].at /\ judged'[r].verdict = "failed"
    BY <1>6 DEF Verdict!Check
  <2>2. judged[r].at \in 1 .. last
    BY <2>1 DEF VerdictTyped
  <2>3. judged'[r].verdict \in Verdicts
    BY <2>1, Zenon DEF Verdicts
  <2>4. /\ judged'[r].at \in 1 .. last + 1
        /\ judged'[r].verdict \in {"resolving", "checking"} => judged'[r].at \in 1 .. last
    <3> HIDE DEF last
    <3>1. judged[r].at + 1 \in 1 .. last + 1
          /\ (judged[r].at # last => judged[r].at + 1 \in 1 .. last)
      BY <1>2, <2>2, OneMore
    <3> QED BY <1>1, <2>1, <3>1
  <2> QED BY <1>1, <1>3, <2>1, <2>3, <2>4
<1>7. CASE Verdict(r)!NextScenario
  <2>1. PICK z \in Verdict(r)!Scenarios, P \in (SUBSET DiscoveryPointers) \ {{}} :
          Verdict(r)!Begin(z, P)
    BY <1>7 DEF Verdict!NextScenario
  <2>2. /\ judged'[r].scenario = z /\ judged'[r].asked = P
        /\ judged'[r].at = 1 /\ judged'[r].verdict = "resolving"
    BY <2>1 DEF Verdict!Begin
  <2>3. /\ 1 \in 1 .. Len(Verdict(r)!Then[z])
        /\ 1 \in 1 .. Len(Verdict(r)!Then[z]) + 1
    BY ThenSteps, FirstStep
  <2>4. "resolving" \in Verdicts
    BY DEF Verdicts
  <2> QED BY <1>3, <2>2, <2>3, <2>4
<1> QED BY <1>4, <1>5, <1>6, <1>7 DEF Judges, Verdict!Next

TcrTypeInv == JudgeInv /\ EarnInv /\ \A r \in Run : VerdictTyped(r)

LEMMA InitTcrTypeInv == TcrInit => TcrTypeInv
<1> SUFFICES ASSUME TcrInit PROVE TcrTypeInv
  OBVIOUS
<1>1. ASSUME NEW r \in Run PROVE VerdictTyped(r)
  <2>1. judged[r] = NothingJudged
    BY DEF TcrInit
  <2>2. /\ "succeed" \in Verdict(r)!Scenarios
        /\ 1 \in 1 .. Len(Verdict(r)!Then["succeed"]) + 1
    <3>1. "succeed" \in Verdict(r)!Scenarios
      BY DEF Verdict!Scenarios
    <3> QED BY <3>1, ThenSteps, FirstStep
  <2> QED BY <2>1, <2>2 DEF VerdictTyped, Verdict!TypeOK, NothingJudged
<1> QED BY <1>1, InitJudges, InitEarn DEF TcrTypeInv

LEMMA IsTcrTypeOK ==
  ASSUME TcrTypeInv
  PROVE  TcrTypeOK
<1>1. TypeOK /\ environment \in Environments
  BY TypedIsTypeOK DEF TcrTypeInv, EarnInv, TcrTyped
<1>2. ASSUME NEW r \in Run
      PROVE  DOMAIN context[r].given \subseteq ResolveInputs \cup ValidateInputs
  <2>1. CASE Finished(r)
    <3>1. context[r] = NoContext
      BY <2>1 DEF TcrTypeInv, EarnInv, ContextInv, GivenInv
    <3> QED BY <3>1 DEF NoContext
  <2>2. CASE ~Finished(r)
    <3>1. ASSUME NEW n \in DOMAIN context[r].given PROVE n \in ResolveInputs \cup ValidateInputs
      <4>1. OfScenario(r, n)
        BY <2>2 DEF TcrTypeInv, EarnInv, ContextInv, GivenInv
      <4>2. ASSUME NEW i \in GivenSteps(Current(r))
            PROVE  Current(r).steps[i].name \in ResolveInputs \cup ValidateInputs
        BY <2>2, UnderWay DEF TcrTypeInv, EarnInv, ContextInv, WellFormed
      <4>3. "endpointTypes" \in ResolveInputs
        BY DEF ResolveInputs
      <4> QED BY <4>1, <4>2, <4>3 DEF OfScenario, Passed
    <3> QED BY <3>1
  <2> QED BY <2>1, <2>2
<1>3. ASSUME NEW r \in Run, pc[r].step = 0
      PROVE  context[r] = NoContext /\ ~Resolving(r)
  <2>1. context[r] = NoContext
    BY <1>3 DEF TcrTypeInv, EarnInv, ContextInv, GivenInv
  <2>2. ~UnderJudgement(r)
    <3>1. ~(0 \in 1 .. Len(Current(r).steps))
      OBVIOUS
    <3> QED BY <1>3, <3>1 DEF UnderJudgement
  <2> QED BY <2>1, <2>2 DEF TcrTypeInv, JudgeInv, JudgeRun
<1>4. ASSUME NEW r \in Run
      PROVE  /\ context[r].client \in Clients \cup {"none"}
             /\ context[r].outcome.code \in {0, 1} /\ context[r].valid \in BOOLEAN
             /\ Verdict(r)!TypeOK
  BY DEF TcrTypeInv, EarnInv, TcrTyped, ContextTypes, Printed, VerdictTyped
<1> QED BY <1>1, <1>2, <1>3, <1>4 DEF TcrTypeOK

(* In every state of any number of runs that ask the TCR, whatever fails:     *)
(* the context holds inputs that the steps know, no scenario starts with what *)
(* another left in it, and none is under judgement when the next one starts.  *)
THEOREM TcrTypesCorrect == TcrSpec => []TcrTypeOK
<1>1. TcrTypeInv /\ [TcrNext]_tcrVars => TcrTypeInv'
  BY NextJudges, NextEarn, VerdictKept DEF TcrTypeInv
<1> QED BY <1>1, InitTcrTypeInv, IsTcrTypeOK, PTL DEF TcrSpec
=============================================================================
