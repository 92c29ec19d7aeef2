-------------------------- MODULE TcrFeatureProofs --------------------------
(***************************************************************************)
(* Whatever scenarios the features have, in whatever order, and whatever     *)
(* fails: the TCR is asked with the inputs of the scenario that asks.        *)
(***************************************************************************)
EXTENDS TcrFeature, TspaFeatureProofs

-----------------------------------------------------------------------------
(* The two ways of an input to the TCR carry the same question.              *)

(* The values of the options with one name, as FromOptions collects them.    *)
All(o, n) == {x[2] : x \in {y \in o : y[1] = n}}

LEMMA AllUnion ==
  ASSUME NEW A, NEW B, NEW n
  PROVE  All(A \cup B, n) = All(A, n) \cup All(B, n)
BY DEF All

LEMMA AllProduct == \A m, S, n : All({m} \X S, n) = IF m = n THEN S ELSE {}
<1>1. ASSUME NEW m, NEW S, NEW n, m # n PROVE All({m} \X S, n) = {}
  BY <1>1 DEF All
<1>2. ASSUME NEW m, NEW S, NEW n, m = n PROVE All({m} \X S, n) = S
  <2>1. ASSUME NEW v \in S PROVE v \in All({m} \X S, n)
    <3>1. <<m, v>> \in {y \in {m} \X S : y[1] = n}
      BY <1>2
    <3> QED BY <3>1 DEF All
  <2>2. ASSUME NEW v \in All({m} \X S, n) PROVE v \in S
    BY DEF All
  <2> QED BY <2>1, <2>2
<1>3. ASSUME NEW m, NEW S, NEW n PROVE All({m} \X S, n) = IF m = n THEN S ELSE {}
  <2>1. CASE m = n
    BY <1>2, <2>1, Zenon
  <2>2. CASE m # n
    BY <1>1, <2>2, Zenon
  <2> QED BY <2>1, <2>2
<1> QED BY <1>3, Zenon

LEMMA AllPair == \A m, v, n : All({<<m, v>>}, n) = IF m = n THEN {v} ELSE {}
<1>1. ASSUME NEW m, NEW v PROVE {<<m, v>>} = {m} \X {v}
  <2>1. \A x : x \in {m} \X {v} <=> x = <<m, v>>
    OBVIOUS
  <2> QED BY <2>1
<1>2. ASSUME NEW m, NEW v, NEW n PROVE All({<<m, v>>}, n) = IF m = n THEN {v} ELSE {}
  <2>1. All({m} \X {v}, n) = IF m = n THEN {v} ELSE {}
    BY AllProduct, Zenon
  <2> QED BY <1>1, <2>1, Zenon
<1> QED BY <1>2, Zenon

LEMMA AllThree ==
  ASSUME NEW A, NEW B, NEW C, NEW n
  PROVE  All((A \cup B) \cup C, n) = All(A, n) \cup All(B, n) \cup All(C, n)
<1>1. All((A \cup B) \cup C, n) = All(A \cup B, n) \cup All(C, n)
  BY AllUnion
<1>2. All(A \cup B, n) = All(A, n) \cup All(B, n)
  BY AllUnion
<1> QED BY <1>1, <1>2

LEMMA OptionsCarry ==
  ASSUME NEW in
  PROVE  /\ All(Options(in), "issuer") = {in.issuer}
         /\ All(Options(in), "trust-scheme-pointer") = in.pointers
         /\ All(Options(in), "endpoint-type") = in.endpointTypes
         /\ All(Options(in), "did") = {}
         /\ All(Options(in), "endpoint") = {}
<1> DEFINE I == {<<"issuer", in.issuer>>}
           P == {"trust-scheme-pointer"} \X in.pointers
           T == {"endpoint-type"} \X in.endpointTypes
<1>1. Options(in) = (I \cup P) \cup T
  BY DEF Options
<1>2. \A n : All(I, n) = IF n = "issuer" THEN {in.issuer} ELSE {}
  BY AllPair, Zenon
<1>3. \A n : All(P, n) = IF n = "trust-scheme-pointer" THEN in.pointers ELSE {}
  BY AllProduct, Zenon
<1>4. \A n : All(T, n) = IF n = "endpoint-type" THEN in.endpointTypes ELSE {}
  BY AllProduct, Zenon
<1> HIDE DEF I, P, T
<1>5. \A n : All(Options(in), n) = All(I, n) \cup All(P, n) \cup All(T, n)
  BY <1>1, AllThree
<1> QED BY <1>2, <1>3, <1>4, <1>5

LEMMA ValidateOptionsCarry ==
  ASSUME NEW in
  PROVE  /\ All(ValidateOptions(in), "issuer") = {in.issuer}
         /\ All(ValidateOptions(in), "did") = {in.did}
         /\ All(ValidateOptions(in), "endpoint") = in.endpoints
         /\ All(ValidateOptions(in), "trust-scheme-pointer") = {}
         /\ All(ValidateOptions(in), "endpoint-type") = {}
<1> DEFINE I == {<<"issuer", in.issuer>>}
           D == {<<"did", in.did>>}
           E == {"endpoint"} \X in.endpoints
<1>1. ValidateOptions(in) = (I \cup D) \cup E
  BY DEF ValidateOptions
<1>2. \A n : All(I, n) = IF n = "issuer" THEN {in.issuer} ELSE {}
  BY AllPair, Zenon
<1>3. \A n : All(D, n) = IF n = "did" THEN {in.did} ELSE {}
  BY AllPair, Zenon
<1>4. \A n : All(E, n) = IF n = "endpoint" THEN in.endpoints ELSE {}
  BY AllProduct, Zenon
<1> HIDE DEF I, D, E
<1>5. \A n : All(ValidateOptions(in), n) = All(I, n) \cup All(D, n) \cup All(E, n)
  BY <1>1, AllThree
<1> QED BY <1>2, <1>3, <1>4, <1>5

LEMMA PayloadAsks ==
  ASSUME NEW in
  PROVE  /\ ServerAsks("resolve", in) =
              Question("resolve", in.issuer, in.pointers, in.endpointTypes, "none", {})
         /\ ServerAsks("validate", in) =
              Question("validate", in.issuer, {}, {}, in.did, in.endpoints)
BY DEF ServerAsks, FromPayload, Payload, ValidatePayload, Only, ValidateInputs

LEMMA OptionsAsk ==
  ASSUME NEW in
  PROVE  /\ FromOptions("resolve", Options(in)) = ServerAsks("resolve", in)
         /\ FromOptions("validate", ValidateOptions(in)) = ServerAsks("validate", in)
<1>1. \A op, o : FromOptions(op, o) =
        Question(op,
          IF All(o, "issuer") = {} THEN "none" ELSE CHOOSE x \in All(o, "issuer") : TRUE,
          All(o, "trust-scheme-pointer"), All(o, "endpoint-type"),
          IF All(o, "did") = {} THEN "none" ELSE CHOOSE x \in All(o, "did") : TRUE,
          All(o, "endpoint"))
  BY DEF FromOptions, All
<1>2. \A v : (CHOOSE x \in {v} : TRUE) = v
  OBVIOUS
<1>3. FromOptions("resolve", Options(in)) =
        Question("resolve", in.issuer, in.pointers, in.endpointTypes, "none", {})
  BY <1>1, <1>2, OptionsCarry
<1>4. FromOptions("validate", ValidateOptions(in)) =
        Question("validate", in.issuer, {}, {}, in.did, in.endpoints)
  BY <1>1, <1>2, ValidateOptionsCarry
<1> QED BY <1>3, <1>4, PayloadAsks

(* Whichever client asks, of inputs without a quote: the TCR is asked the     *)
(* question the direct REST call would ask.                                 *)
LEMMA ClientsAskAlike ==
  ASSUME NEW c, NEW op \in {"resolve", "validate"}, NEW in, Spoken(op, in) \cap Quoted = {}
  PROVE  ClientAsks(c, op, in) = ServerAsks(op, in)
BY OptionsAsk DEF ClientAsks

(* Every question that is asked is one, whatever arrives of it.               *)
LEMMA AsksSomething ==
  ASSUME NEW c, NEW op \in {"resolve", "validate"}, NEW in
  PROVE  ServerAsks(op, in) # NoQuestion /\ ClientAsks(c, op, in) # NoQuestion
<1>1. ServerAsks(op, in).op \in {"resolve", "validate"}
  <2>1. \A i, p, t, d, e : Question("resolve", i, p, t, d, e).op = "resolve"
                           /\ Question("validate", i, p, t, d, e).op = "validate"
    BY DEF Question
  <2>2. ServerAsks("resolve", in).op = "resolve" /\ ServerAsks("validate", in).op = "validate"
    BY <2>1, PayloadAsks
  <2> QED BY <2>2
<1>2. NoQuestion.op = "none" /\ Garbled.op = "garbled"
  BY DEF NoQuestion, Garbled, Question
<1>3. \/ ClientAsks(c, op, in) = Garbled
      \/ ClientAsks(c, op, in) = ServerAsks(op, in)
  BY OptionsAsk DEF ClientAsks
<1> QED BY <1>1, <1>2, <1>3

-----------------------------------------------------------------------------
(* The context of a run.                                                    *)

Fields == {"client", "given", "asked", "outcome", "response_str", "valid"}

(* The Given steps a run has been through, of its scenario.                 *)
Passed(r) == {i \in GivenSteps(Current(r)) : i < pc[r].step}

(* An input in the context is of a Given step of the scenario, or the         *)
(* Background's empty set of endpoint types.                                *)
OfScenario(r, n) ==
  \/ \E i \in Passed(r) : /\ Current(r).steps[i].name = n
                          /\ context[r].given[n] = Current(r).steps[i].value
  \/ /\ n = "endpointTypes" /\ context[r].given[n] = {}
     /\ \A i \in Passed(r) : Current(r).steps[i].name # n

(* What was asked was asked with the inputs that are there.                  *)
AskedSo(r) ==
  \E i \in AskSteps(Current(r)) :
    /\ i < pc[r].step
    /\ Names(Current(r).steps[i].op) \subseteq DOMAIN context[r].given
    /\ context[r].asked = ServerAsks(Current(r).steps[i].op, context[r].given)

GivenInv(r) ==
  /\ Finished(r) \/ pc[r].step = 0 => context[r] = NoContext
  /\ DOMAIN context[r] = Fields
  /\ ~Finished(r) => \A n \in DOMAIN context[r].given : OfScenario(r, n)
  /\ context[r].asked # NoQuestion => ~Finished(r) /\ AskedSo(r)

ContextInv ==
  /\ pc \in [Run -> Places]
  /\ DOMAIN context = Run
  /\ \A r \in Run : GivenInv(r)

-----------------------------------------------------------------------------
LEMMA PlaceType ==
  ASSUME pc \in [Run -> Places], NEW r \in Run
  PROVE  /\ pc[r] \in Places
         /\ pc[r].scenario \in 1 .. Len(Feature) + 1 /\ pc[r].step \in Nat
         /\ pc[r].step + 1 \in Nat /\ pc[r].step + 1 # 0 /\ pc[r].step < pc[r].step + 1
<1>1. pc[r] \in Places
  OBVIOUS
<1>2. pc[r].scenario \in 1 .. Len(Feature) + 1 /\ pc[r].step \in Nat
  BY <1>1 DEF Places
<1> QED BY <1>1, <1>2

LEMMA UnderWay ==
  ASSUME pc \in [Run -> Places], NEW r \in Run, ~Finished(r)
  PROVE  /\ pc[r].scenario \in 1 .. Len(Feature)
         /\ pc[r].scenario + 1 \in 1 .. Len(Feature) + 1
         /\ WellFormed(Current(r))
<1>1. pc[r].scenario \in 1 .. Len(Feature) + 1
  BY PlaceType
<1>2. ~(pc[r].scenario > Len(Feature))
  BY DEF Finished
<1>3. pc[r].scenario \in 1 .. Len(Feature) /\ pc[r].scenario + 1 \in 1 .. Len(Feature) + 1
  BY <1>1, <1>2, LengthIsNat, Inside
<1> QED BY <1>3, ScriptAssumption DEF Current

LEMMA Numbered ==
  ASSUME pc \in [Run -> Places], NEW r \in Run, ~Finished(r)
  PROVE  /\ \A i \in GivenSteps(Current(r)) : i \in Nat /\ i # 0
         /\ \A i \in AskSteps(Current(r)) : i \in Nat /\ i # 0
         /\ \A i \in AskSteps(Current(r)), j \in GivenSteps(Current(r)) : j < i
<1> DEFINE s == Current(r)
<1>1. WellFormed(s)
  BY UnderWay
<1> HIDE DEF s
<1>2. \A i \in DOMAIN s.steps : i \in Nat /\ i # 0
  BY <1>1 DEF WellFormed
<1>3. \A i \in AskSteps(s), j \in GivenSteps(s) : j < i
  BY <1>1 DEF WellFormed
<1>4. GivenSteps(s) \subseteq DOMAIN s.steps /\ AskSteps(s) \subseteq DOMAIN s.steps
  BY DEF GivenSteps, AskSteps
<1> QED BY <1>2, <1>3, <1>4 DEF s

-----------------------------------------------------------------------------
(* The two moves of a run.                                                  *)

(* A run that stays where it is, with its context, keeps the invariant.      *)
LEMMA StayInv ==
  ASSUME NEW r \in Run, GivenInv(r), pc'[r] = pc[r], context'[r] = context[r]
  PROVE  GivenInv(r)'
BY DEF GivenInv, Finished, OfScenario, AskedSo, Passed, Current

(* Going on with the next step with a context c.                            *)
Goes(r, c) ==
  /\ pc' = [pc EXCEPT ![r].step = @ + 1]
  /\ context' = [context EXCEPT ![r] = c]

LEMMA GoesOn ==
  ASSUME ContextInv, NEW r \in Run, NEW c, Goes(r, c)
  PROVE  /\ pc' \in [Run -> Places] /\ DOMAIN context' = Run
         /\ pc'[r].scenario = pc[r].scenario /\ pc'[r].step = pc[r].step + 1
         /\ context'[r] = c
         /\ Current(r)' = Current(r) /\ Finished(r)' = Finished(r)
         /\ \A q \in Run \ {r} : GivenInv(q)'
<1>1. /\ pc' \in [Run -> Places] /\ DOMAIN context' = Run
      /\ pc'[r].scenario = pc[r].scenario /\ pc'[r].step = pc[r].step + 1
      /\ context'[r] = c
      /\ \A q \in Run \ {r} : pc'[q] = pc[q] /\ context'[q] = context[q]
  BY PlaceType DEF ContextInv, Goes, Places
<1>2. Current(r)' = Current(r) /\ Finished(r)' = Finished(r)
  BY <1>1 DEF Current, Finished
<1>3. \A q \in Run \ {r} : GivenInv(q)'
  BY <1>1, StayInv DEF ContextInv
<1> QED BY <1>1, <1>2, <1>3

LEMMA PassedNext ==
  ASSUME ContextInv, NEW r \in Run, ~Finished(r), NEW c, Goes(r, c)
  PROVE  Passed(r)' = Passed(r) \cup {i \in GivenSteps(Current(r)) : i = pc[r].step}
<1>1. \A i \in GivenSteps(Current(r)) : i \in Nat
  BY Numbered DEF ContextInv
<1>2. pc[r].step \in Nat
  BY PlaceType DEF ContextInv
<1>3. \A i \in Nat : i < pc[r].step + 1 <=> i < pc[r].step \/ i = pc[r].step
  BY <1>2
<1>4. Passed(r)' = {i \in GivenSteps(Current(r)) : i < pc[r].step + 1}
  BY GoesOn DEF Passed, GivenSteps
<1> QED BY <1>1, <1>3, <1>4 DEF Passed

(* A step that keeps the inputs as they are, and asks with them if it asks.   *)
LEMMA KeepsInv ==
  ASSUME ContextInv, NEW r \in Run, ~Finished(r), NEW c, Goes(r, c),
         DOMAIN c = Fields, c.given = context[r].given,
         pc[r].step \notin GivenSteps(Current(r)),
         \/ c.asked = context[r].asked
         \/ /\ pc[r].step \in AskSteps(Current(r))
            /\ Names(Step(r).op) \subseteq DOMAIN context[r].given
            /\ c.asked = ServerAsks(Step(r).op, context[r].given)
  PROVE  ContextInv'
<1>1. Passed(r)' = Passed(r)
  BY PassedNext
<1>2. /\ pc'[r].step = pc[r].step + 1 /\ context'[r] = c
      /\ Current(r)' = Current(r) /\ ~Finished(r)'
  BY GoesOn
<1>3. \A n \in DOMAIN c.given : OfScenario(r, n)'
  <2>1. \A n \in DOMAIN c.given : OfScenario(r, n)
    BY DEF ContextInv, GivenInv
  <2> QED BY <1>1, <1>2, <2>1 DEF OfScenario
<1>4. c.asked # NoQuestion => AskedSo(r)'
  <2>1. pc[r].step \in Nat /\ pc[r].step < pc[r].step + 1
    BY PlaceType DEF ContextInv
  <2>2. CASE c.asked = context[r].asked /\ c.asked # NoQuestion
    <3>1. PICK i \in AskSteps(Current(r)) :
            /\ i < pc[r].step
            /\ Names(Current(r).steps[i].op) \subseteq DOMAIN context[r].given
            /\ context[r].asked = ServerAsks(Current(r).steps[i].op, context[r].given)
      BY <2>2 DEF ContextInv, GivenInv, AskedSo
    <3>2. i \in Nat
      BY Numbered DEF ContextInv
    <3>3. i < pc[r].step + 1
      BY <2>1, <3>1, <3>2
    <3> QED BY <1>2, <2>2, <3>1, <3>3 DEF AskedSo
  <2>3. CASE /\ pc[r].step \in AskSteps(Current(r))
             /\ Names(Step(r).op) \subseteq DOMAIN context[r].given
             /\ c.asked = ServerAsks(Step(r).op, context[r].given)
    BY <1>2, <2>1, <2>3 DEF AskedSo, Step
  <2> QED BY <2>2, <2>3
<1>5. pc'[r].step # 0
  BY <1>2, PlaceType DEF ContextInv
<1>6. GivenInv(r)'
  BY <1>2, <1>3, <1>4, <1>5 DEF GivenInv
<1> QED BY <1>6, GoesOn DEF ContextInv

(* A Given step that keeps an input: nothing was asked yet.                  *)
LEMMA AddsInv ==
  ASSUME ContextInv, NEW r \in Run, InStep(r), Step(r).do = "input", NEW c, Goes(r, c),
         DOMAIN c = Fields, c.asked = context[r].asked,
         c.given = With(context[r].given, Step(r).name, Step(r).value)
  PROVE  ContextInv'
<1>1. ~Finished(r) /\ pc[r].step \in GivenSteps(Current(r))
  BY UnderWay DEF ContextInv, InStep, WellFormed, GivenSteps, Step
<1>2. Passed(r)' = Passed(r) \cup {pc[r].step}
  BY <1>1, PassedNext
<1>3. /\ pc'[r].step = pc[r].step + 1 /\ context'[r] = c
      /\ Current(r)' = Current(r) /\ ~Finished(r)'
  BY <1>1, GoesOn
<1>4. ASSUME NEW n \in DOMAIN c.given PROVE OfScenario(r, n)'
  <2>1. CASE n = Step(r).name
    <3>1. c.given[n] = Step(r).value
      BY <2>1 DEF With
    <3> QED BY <1>2, <1>3, <2>1, <3>1 DEF OfScenario, Step
  <2>2. CASE n # Step(r).name
    <3>1. n \in DOMAIN context[r].given /\ c.given[n] = context[r].given[n]
      BY <2>2 DEF With
    <3>2. OfScenario(r, n)
      BY <1>1, <3>1 DEF ContextInv, GivenInv
    <3> QED BY <1>2, <1>3, <2>2, <3>1, <3>2 DEF OfScenario, Step
  <2> QED BY <2>1, <2>2
<1>5. c.asked = NoQuestion
  <2> SUFFICES ASSUME c.asked # NoQuestion PROVE FALSE
    OBVIOUS
  <2>1. PICK i \in AskSteps(Current(r)) : i < pc[r].step
    BY DEF ContextInv, GivenInv, AskedSo
  <2>2. pc[r].step < i /\ i \in Nat /\ pc[r].step \in Nat
    BY <1>1, Numbered, PlaceType DEF ContextInv
  <2> QED BY <2>1, <2>2
<1>6. pc'[r].step # 0
  BY <1>3, PlaceType DEF ContextInv
<1>7. GivenInv(r)'
  BY <1>3, <1>4, <1>5, <1>6 DEF GivenInv
<1> QED BY <1>1, <1>7, GoesOn DEF ContextInv

(* The Background.                                                         *)
LEMMA BeginsInv ==
  ASSUME ContextInv, NEW r \in Run, ~Finished(r), pc[r].step = 0,
         NEW c \in {NoContext, Defaults}, Goes(r, c)
  PROVE  ContextInv'
<1>1. Passed(r)' = {}
  <2>1. \A i \in GivenSteps(Current(r)) : i \in Nat /\ i # 0 /\ ~(i < 0)
    BY Numbered DEF ContextInv
  <2> QED BY <2>1, PassedNext DEF Passed
<1>2. /\ pc'[r].step = pc[r].step + 1 /\ context'[r] = c
      /\ ~Finished(r)'
  BY GoesOn
<1>3. /\ DOMAIN c = Fields /\ c.asked = NoQuestion
      /\ DOMAIN c.given \subseteq {"endpointTypes"}
      /\ \A n \in DOMAIN c.given : c.given[n] = {}
  BY DEF NoContext, Defaults, Fields
<1>4. \A n \in DOMAIN c.given : OfScenario(r, n)'
  BY <1>1, <1>2, <1>3 DEF OfScenario
<1>5. pc'[r].step # 0
  BY <1>2, PlaceType DEF ContextInv
<1>6. GivenInv(r)'
  BY <1>2, <1>3, <1>4, <1>5 DEF GivenInv
<1> QED BY <1>6, GoesOn DEF ContextInv

(* The end of a scenario, whether it failed or not.                         *)
LEMMA EndsInv ==
  ASSUME ContextInv, NEW r \in Run, ~Finished(r),
         pc' = [pc EXCEPT ![r] = [scenario |-> pc[r].scenario + 1, step |-> 0]],
         context' = [context EXCEPT ![r] = NoContext]
  PROVE  ContextInv'
<1>1. [scenario |-> pc[r].scenario + 1, step |-> 0] \in Places
  BY UnderWay DEF ContextInv, Places
<1>2. /\ pc' \in [Run -> Places] /\ DOMAIN context' = Run
      /\ pc'[r].step = 0 /\ context'[r] = NoContext
      /\ \A q \in Run \ {r} : pc'[q] = pc[q] /\ context'[q] = context[q]
  BY <1>1 DEF ContextInv
<1>3. \A q \in Run \ {r} : GivenInv(q)'
  BY <1>2, StayInv DEF ContextInv
<1>4. GivenInv(r)'
  BY <1>2 DEF GivenInv, NoContext, Fields
<1> QED BY <1>2, <1>3, <1>4 DEF ContextInv

-----------------------------------------------------------------------------
(* The steps, by the two moves.                                             *)

LEMMA LeavesInv ==
  ASSUME ContextInv, NEW r \in Run, ~Finished(r), Leave(r), Layer(r)
  PROVE  ContextInv'
<1>1. pc' = [pc EXCEPT ![r] = [scenario |-> pc[r].scenario + 1, step |-> 0]]
  BY DEF Leave
<1>2. pc'[r].step = 0
  BY <1>1 DEF ContextInv
<1>3. context' = [context EXCEPT ![r] = NoContext]
  BY <1>2 DEF Layer
<1> QED BY <1>1, <1>3, EndsInv

LEMMA FailsInv ==
  ASSUME ContextInv, NEW r \in Run, ~Finished(r), FailsTcr(r)
  PROVE  ContextInv'
BY LeavesInv DEF FailsTcr, Fails

LEMMA NotGiven ==
  ASSUME NEW r \in Run, Step(r).do # "input"
  PROVE  pc[r].step \notin GivenSteps(Current(r))
BY DEF Step, GivenSteps

LEMMA PassesInv ==
  ASSUME ContextInv, NEW r \in Run, ~Finished(r), Step(r).do # "input",
         NEW c, Passes(r, c),
         DOMAIN c = Fields, c.given = context[r].given, c.asked = context[r].asked
  PROVE  ContextInv'
<1>1. Goes(r, c)
  BY DEF Passes, Proceed, Goes
<1> QED BY <1>1, NotGiven, KeepsInv

(* A step of TspaFeature, in whichever scenario.                            *)
LEMMA ProceedsInv ==
  ASSUME ContextInv, NEW r \in Run, ~Finished(r), Proceed(r), Layer(r),
         pc[r].step = 0 \/ Step(r).do # "input"
  PROVE  ContextInv'
<1> DEFINE c == IF pc[r].step = 0 /\ IsTcr(r) THEN Defaults ELSE context[r]
<1>1. pc'[r].step # 0
  <2>1. pc'[r].step = pc[r].step + 1
    BY PlaceType DEF Proceed, ContextInv, Places
  <2> QED BY <2>1, PlaceType DEF ContextInv
<1>2. Goes(r, c)
  BY <1>1 DEF Layer, Proceed, Goes
<1>3. CASE pc[r].step = 0
  <2>1. c \in {NoContext, Defaults}
    BY <1>3 DEF ContextInv, GivenInv
  <2> HIDE DEF c
  <2> QED BY <1>2, <1>3, <2>1, BeginsInv
<1>4. CASE pc[r].step # 0
  <2>1. c = context[r] /\ DOMAIN context[r] = Fields
    BY <1>4 DEF ContextInv, GivenInv
  <2>2. pc[r].step \notin GivenSteps(Current(r))
    BY <1>4, NotGiven
  <2> HIDE DEF c
  <2> QED BY <1>2, <2>1, <2>2, KeepsInv
<1> QED BY <1>3, <1>4

LEMMA TspaStepInv ==
  ASSUME ContextInv, NEW r \in Run, TspaStep(r)
  PROVE  ContextInv'
<1>1. Layer(r) /\ RunStep(r)
  BY DEF TspaStep
<1>2. ~Finished(r)
  BY <1>1 DEF RunStep, Background, InStep, EndScenario
<1>3. CASE Background(r)
  BY <1>1, <1>2, <1>3, ProceedsInv DEF Background
<1>4. CASE EndScenario(r)
  BY <1>1, <1>2, <1>4, LeavesInv DEF EndScenario
<1>5. CASE FetchToken(r) \/ SaveToken(r) \/ LoadToken(r) \/ SendRequest(r) \/ Judge(r)
  <2>1. Step(r).do \in {"fetch token", "save token", "load token", "send", "status", "content"}
    BY <1>5, Zenon DEF FetchToken, SaveToken, LoadToken, SendRequest, Judge
  <2>2. Proceed(r) \/ Leave(r)
    BY <1>5 DEF FetchToken, SaveToken, LoadToken, SendRequest, Judge, Fails
  <2> QED BY <1>1, <1>2, <2>1, <2>2, ProceedsInv, LeavesInv
<1> QED BY <1>1, <1>3, <1>4, <1>5 DEF RunStep

LEMMA AskStep ==
  ASSUME ContextInv, NEW r \in Run, InStep(r), NEW faulty, AskTcr(r, faulty)
  PROVE  /\ pc[r].step \in AskSteps(Current(r)) /\ Step(r).do # "input"
         /\ Step(r).op \in {"resolve", "validate"}
<1>1. Step(r).do \in {"ask server", "ask client", "may fail"}
  BY Zenon DEF AskTcr, AskTheServer, AskTheClient, MayFailValidate
<1>2. pc[r].step \in AskSteps(Current(r))
  BY <1>1, UnderWay DEF ContextInv, WellFormed, InStep, Step, AskSteps
<1>3. Step(r).op \in {"resolve", "validate"}
  BY <1>2, UnderWay DEF ContextInv, WellFormed, Step, InStep
<1> QED BY <1>1, <1>2, <1>3

(* What a scenario says to a client has no quote.                            *)
LEMMA SpeaksPlainly ==
  ASSUME ContextInv, NEW r \in Run, ~Finished(r), HasInputs(r),
         pc[r].step \in AskSteps(Current(r)), Step(r).do # "ask server"
  PROVE  Spoken(Step(r).op, context[r].given) \cap Quoted = {}
<1> DEFINE in == context[r].given
<1>1. ASSUME NEW n \in Names(Step(r).op) PROVE Said(n, in[n]) \cap Quoted = {}
  <2>1. OfScenario(r, n)
    BY DEF ContextInv, GivenInv, HasInputs
  <2>2. CASE n = "endpointTypes" /\ in[n] = {}
    BY <2>2 DEF Said
  <2>3. ASSUME NEW i \in Passed(r), Current(r).steps[i].name = n, in[n] = Current(r).steps[i].value
        PROVE  Said(n, in[n]) \cap Quoted = {}
    <3>1. i \in GivenSteps(Current(r))
      BY DEF Passed
    <3>2. Said(Current(r).steps[i].name, Current(r).steps[i].value) \cap Quoted = {}
      BY <3>1, UnderWay DEF ContextInv, WellFormed, Plain, Step
    <3> QED BY <2>3, <3>2
  <2> QED BY <2>1, <2>2, <2>3 DEF OfScenario
<1> QED BY <1>1 DEF Spoken

LEMMA AskTcrInv ==
  ASSUME ContextInv, NEW r \in Run, InStep(r), NEW faulty, AskTcr(r, faulty)
  PROVE  ContextInv'
<1>1. ~Finished(r)
  BY DEF InStep
<1>2. CASE FailsTcr(r)
  BY <1>1, <1>2, FailsInv
<1>3. CASE ~FailsTcr(r)
  <2>1. /\ pc[r].step \in AskSteps(Current(r)) /\ Step(r).do # "input"
        /\ Step(r).op \in {"resolve", "validate"}
    BY AskStep
  <2>2. DOMAIN context[r] = Fields
    BY DEF ContextInv, GivenInv
  <2>3. ASSUME NEW c, Goes(r, c), HasInputs(r), DOMAIN c = Fields,
               c.given = context[r].given,
               c.asked = ServerAsks(Step(r).op, context[r].given)
        PROVE  ContextInv'
    BY <1>1, <2>1, <2>3, NotGiven, KeepsInv DEF HasInputs
  <2>4. CASE AskTheServer(r, faulty)
    <3> DEFINE c == [context[r] EXCEPT !.asked = ServerAsks(Step(r).op, context[r].given)]
    <3>1. HasInputs(r) /\ Goes(r, c)
      BY <1>3, <2>4 DEF AskTheServer, Proceed, Goes
    <3>2. /\ DOMAIN c = Fields /\ c.given = context[r].given
          /\ c.asked = ServerAsks(Step(r).op, context[r].given)
      BY <2>2 DEF Fields
    <3> HIDE DEF c
    <3> QED BY <2>3, <3>1, <3>2
  <2>5. CASE AskTheClient(r, faulty) \/ MayFailValidate(r, faulty)
    <3>1. Runnable(r) /\ \E o, text : Takes(r, o, text)
      BY <1>3, <2>5, Zenon DEF AskTheClient, MayFailValidate
    <3>2. PICK o, text : Takes(r, o, text)
      BY <3>1
    <3> DEFINE c == [context[r] EXCEPT !.asked = Command(r), !.outcome = o,
                                       !.response_str = text]
    <3>3. HasInputs(r) /\ Goes(r, c)
      BY <3>1, <3>2 DEF Takes, Runnable, Passes, Proceed, Goes
    <3>4. DOMAIN c = Fields /\ c.given = context[r].given /\ c.asked = Command(r)
      BY <2>2 DEF Fields
    <3>5. Command(r) = ServerAsks(Step(r).op, context[r].given)
      <4>1. Step(r).do # "ask server"
        BY <2>5, Zenon DEF AskTheClient, MayFailValidate
      <4>2. Spoken(Step(r).op, context[r].given) \cap Quoted = {}
        BY <1>1, <2>1, <3>3, <4>1, SpeaksPlainly
      <4> QED BY <2>1, <4>2, ClientsAskAlike DEF Command
    <3> HIDE DEF c
    <3> QED BY <2>3, <3>3, <3>4, <3>5
  <2> QED BY <2>4, <2>5 DEF AskTcr
<1> QED BY <1>2, <1>3

LEMMA TcrStepInv ==
  ASSUME ContextInv, NEW r \in Run, TcrStep(r)
  PROVE  ContextInv'
<1>1. InStep(r) /\ ~Finished(r)
  BY DEF TcrStep, InStep
<1>2. DOMAIN context[r] = Fields
  BY DEF ContextInv, GivenInv
<1>3. CASE FailsTcr(r)
  BY <1>1, <1>3, FailsInv
<1>4. CASE AddClient(r)
  <2> DEFINE c == [context[r] EXCEPT !.client = Step(r).client]
  <2>1. Passes(r, c) /\ Step(r).do # "input"
    BY <1>4 DEF AddClient
  <2>2. DOMAIN c = Fields /\ c.given = context[r].given /\ c.asked = context[r].asked
    BY <1>2 DEF Fields
  <2> HIDE DEF c
  <2> QED BY <1>1, <2>1, <2>2, PassesInv
<1>5. CASE AddInput(r)
  <2> DEFINE c == [context[r] EXCEPT !.given = With(context[r].given, Step(r).name, Step(r).value)]
  <2>1. Goes(r, c) /\ Step(r).do = "input"
    BY <1>5 DEF AddInput, Passes, Proceed, Goes
  <2>2. /\ DOMAIN c = Fields /\ c.asked = context[r].asked
        /\ c.given = With(context[r].given, Step(r).name, Step(r).value)
    BY <1>2 DEF Fields
  <2> HIDE DEF c
  <2> QED BY <1>1, <2>1, <2>2, AddsInv
<1>6. CASE AskTcr(r, FALSE)
  BY <1>1, <1>6, AskTcrInv
<1>7. ASSUME Step(r).do # "input",
             Passes(r, context[r]) \/ Passes(r, [context[r] EXCEPT !.valid = TRUE])
      PROVE  ContextInv'
  <2>1. CASE Passes(r, context[r])
    BY <1>1, <1>2, <1>7, <2>1, PassesInv
  <2>2. CASE Passes(r, [context[r] EXCEPT !.valid = TRUE])
    <3> DEFINE c == [context[r] EXCEPT !.valid = TRUE]
    <3>1. DOMAIN c = Fields /\ c.given = context[r].given /\ c.asked = context[r].asked
      BY <1>2 DEF Fields
    <3>2. Passes(r, c)
      BY <2>2
    <3> HIDE DEF c
    <3> QED BY <1>1, <1>7, <3>1, <3>2, PassesInv
  <2> QED BY <1>7, <2>1, <2>2
<1>8. CASE \/ ChecksNothing(r) \/ ResponseIsValid(r) \/ ResolveThen(r)
           \/ ValidationIsValid(r) \/ DidIsVerified(r) \/ ContentMatches(r)
  <2>1. Step(r).do \in {"unchecked", "then", "matches"}
    BY <1>8, Zenon DEF ChecksNothing, ResponseIsValid, ResolveThen, ValidationIsValid,
                       DidIsVerified, ContentMatches
  <2>2. \/ FailsTcr(r) \/ Passes(r, context[r])
        \/ Passes(r, [context[r] EXCEPT !.valid = TRUE])
    BY <1>8, Zenon DEF ChecksNothing, ResponseIsValid, ResolveThen, ValidationIsValid,
                       DidIsVerified, ContentMatches, Asserts
  <2> QED BY <1>3, <1>7, <2>1, <2>2
<1> QED BY <1>4, <1>5, <1>6, <1>8 DEF TcrStep

LEMMA FrameInv ==
  ASSUME ContextInv, UNCHANGED <<pc, context>>
  PROVE  ContextInv'
BY StayInv DEF ContextInv

LEMMA TspaFaultInv ==
  ASSUME ContextInv, NEW r \in Run, TspaFault(r)
  PROVE  ContextInv'
<1>1. Layer(r) /\ ~Finished(r)
  BY DEF TspaFault, NotUp, TimesOut, TokenLost, Fault
<1>2. CASE NotUp(r) \/ TimesOut(r)
  BY <1>1, <1>2, LeavesInv DEF NotUp, TimesOut, Fails
<1>3. CASE TokenLost(r)
  <2>1. pc' = pc
    BY <1>3 DEF TokenLost
  <2>2. context'[r] = context[r] /\ DOMAIN context' = Run
        /\ \A q \in Run \ {r} : context'[q] = context[q]
    BY <1>1, <2>1 DEF Layer, ContextInv, GivenInv
  <2> QED BY <2>1, <2>2, StayInv DEF ContextInv
<1> QED BY <1>2, <1>3 DEF TspaFault

LEMMA NextContextInv ==
  ASSUME ContextInv, [TcrNext]_tcrVars
  PROVE  ContextInv'
<1>1. ASSUME NEW r \in Run, TspaStep(r) PROVE ContextInv'
  BY <1>1, TspaStepInv
<1>2. ASSUME NEW r \in Run, TcrStep(r) PROVE ContextInv'
  BY <1>2, TcrStepInv
<1>3. ASSUME NEW r \in Run, TspaFault(r) PROVE ContextInv'
  BY <1>3, TspaFaultInv
<1>4. ASSUME NEW r \in Run, TcrFault(r) PROVE ContextInv'
  BY <1>4, FailsInv, AskTcrInv DEF TcrFault, InStep
<1>5. CASE Elsewhere
  BY <1>5, FrameInv DEF Elsewhere, LateLands, CleanAllElsewhere, runVars
<1>6. CASE UNCHANGED tcrVars
  BY <1>6, FrameInv DEF tcrVars, vars, runVars
<1>7. CASE TcrStop
  BY <1>6, <1>7 DEF TcrStop
<1> QED BY <1>1, <1>2, <1>3, <1>4, <1>5, <1>6, <1>7 DEF TcrNext

LEMMA InitContextInv == TcrInit => ContextInv
<1> SUFFICES ASSUME TcrInit PROVE ContextInv
  OBVIOUS
<1>1. Start \in Places /\ Start.step = 0
  BY LengthIsNat DEF Start, Places
<1>2. pc = [r \in Run |-> Start] /\ context = [r \in Run |-> NoContext]
  BY DEF TcrInit, Init
<1>3. /\ DOMAIN NoContext = Fields /\ NoContext.asked = NoQuestion
      /\ \A n \in DOMAIN NoContext.given : FALSE
  BY DEF NoContext, Fields
<1>4. ASSUME NEW r \in Run PROVE GivenInv(r)
  BY <1>2, <1>3 DEF GivenInv
<1> QED BY <1>1, <1>2, <1>4 DEF ContextInv

-----------------------------------------------------------------------------
(* The inputs in the context of a run that has asked are all of its scenario. *)

LEMMA GivenByScenario ==
  ASSUME ContextInv, NEW r \in Run, context[r].asked # NoQuestion,
         NEW n \in DOMAIN context[r].given, NEW default,
         n = "endpointTypes" => default = {}
  PROVE  GivenBy(r, n, default) = context[r].given[n]
<1> DEFINE S == {i \in GivenSteps(Current(r)) : Current(r).steps[i].name = n}
<1>1. ~Finished(r) /\ AskedSo(r) /\ OfScenario(r, n)
  BY DEF ContextInv, GivenInv
<1>2. \A i, j \in S : i = j
  BY <1>1, UnderWay DEF ContextInv, WellFormed
<1>3. S \subseteq Passed(r)
  <2>1. PICK i \in AskSteps(Current(r)) : i < pc[r].step
    BY <1>1 DEF AskedSo
  <2>2. i \in Nat /\ pc[r].step \in Nat
        /\ \A j \in GivenSteps(Current(r)) : j \in Nat /\ j < i
    BY <1>1, Numbered, PlaceType DEF ContextInv
  <2>3. \A j \in GivenSteps(Current(r)) : j < pc[r].step
    BY <2>1, <2>2
  <2> QED BY <2>3 DEF Passed
<1>4. GivenBy(r, n, default) =
        IF S = {} THEN default ELSE Current(r).steps[CHOOSE i \in S : TRUE].value
  BY DEF GivenBy
<1>5. CASE S = {}
  <2>1. n = "endpointTypes" /\ context[r].given[n] = {}
    BY <1>1, <1>5 DEF OfScenario, Passed
  <2> QED BY <1>4, <1>5, <2>1
<1>6. CASE S # {}
  <2>1. PICK i \in Passed(r) : /\ Current(r).steps[i].name = n
                               /\ context[r].given[n] = Current(r).steps[i].value
    BY <1>1, <1>3, <1>6 DEF OfScenario
  <2>2. i \in S
    BY <2>1 DEF Passed
  <2>3. (CHOOSE j \in S : TRUE) \in S
    BY <1>6
  <2>4. (CHOOSE j \in S : TRUE) = i
    BY <1>2, <2>2, <2>3
  <2> HIDE DEF S
  <2> QED BY <1>4, <1>6, <2>1, <2>4
<1> QED BY <1>5, <1>6

(* What the question of an operation has no place for, its scenario does not  *)
(* give.                                                                   *)
LEMMA NotGivenByScenario ==
  ASSUME ContextInv, NEW r \in Run, ~Finished(r), NEW i \in AskSteps(Current(r)),
         NEW n, n \notin Names(Current(r).steps[i].op), NEW default
  PROVE  GivenBy(r, n, default) = default
<1>1. \A j \in GivenSteps(Current(r)) : Current(r).steps[j].name # n
  BY UnderWay DEF ContextInv, WellFormed
<1> QED BY <1>1 DEF GivenBy

LEMMA ContextAsks == ContextInv => AsksWhatWasGiven
<1> SUFFICES ASSUME ContextInv, NEW r \in Run, context[r].asked # NoQuestion
             PROVE  context[r].asked = Question(context[r].asked.op, GivenBy(r, "issuer", "none"),
                      GivenBy(r, "pointers", {}), GivenBy(r, "endpointTypes", {}),
                      GivenBy(r, "did", "none"), GivenBy(r, "endpoints", {}))
  BY DEF AsksWhatWasGiven
<1> DEFINE in == context[r].given
<1>1. ~Finished(r) /\ AskedSo(r)
  BY DEF ContextInv, GivenInv
<1>2. PICK i \in AskSteps(Current(r)) :
        /\ Names(Current(r).steps[i].op) \subseteq DOMAIN in
        /\ context[r].asked = ServerAsks(Current(r).steps[i].op, in)
  BY <1>1 DEF AskedSo
<1> DEFINE op == Current(r).steps[i].op
<1>3. op \in {"resolve", "validate"}
  BY <1>1, UnderWay DEF ContextInv, WellFormed
<1>4. CASE op = "resolve"
  <2>1. Names(op) = ResolveInputs
    BY <1>4 DEF Names
  <2>2. {"issuer", "pointers", "endpointTypes"} \subseteq DOMAIN in
    BY <1>2, <2>1 DEF ResolveInputs
  <2>3. /\ GivenBy(r, "issuer", "none") = in.issuer
        /\ GivenBy(r, "pointers", {}) = in.pointers
        /\ GivenBy(r, "endpointTypes", {}) = in.endpointTypes
    BY <2>2, GivenByScenario
  <2>4. GivenBy(r, "did", "none") = "none" /\ GivenBy(r, "endpoints", {}) = {}
    BY <1>1, <2>1, NotGivenByScenario DEF ResolveInputs
  <2>5. context[r].asked =
          Question("resolve", in.issuer, in.pointers, in.endpointTypes, "none", {})
    BY <1>2, <1>4, PayloadAsks
  <2> QED BY <2>3, <2>4, <2>5 DEF Question
<1>5. CASE op = "validate"
  <2>1. Names(op) = ValidateInputs
    BY <1>5 DEF Names
  <2>2. {"issuer", "did", "endpoints"} \subseteq DOMAIN in
    BY <1>2, <2>1 DEF ValidateInputs
  <2>3. /\ GivenBy(r, "issuer", "none") = in.issuer
        /\ GivenBy(r, "did", "none") = in.did
        /\ GivenBy(r, "endpoints", {}) = in.endpoints
    BY <2>2, GivenByScenario
  <2>4. GivenBy(r, "pointers", {}) = {} /\ GivenBy(r, "endpointTypes", {}) = {}
    BY <1>1, <2>1, NotGivenByScenario DEF ValidateInputs
  <2>5. context[r].asked = Question("validate", in.issuer, {}, {}, in.did, in.endpoints)
    BY <1>2, <1>5, PayloadAsks
  <2> QED BY <2>3, <2>4, <2>5 DEF Question
<1> QED BY <1>3, <1>4, <1>5

(* Whichever client carries them and whatever failed before: the TCR is       *)
(* asked with all the inputs of the scenario that asks, and no other.        *)
THEOREM AlwaysAsksWhatWasGiven == TcrSpec => []AsksWhatWasGiven
<1>1. ContextInv /\ [TcrNext]_tcrVars => ContextInv'
  BY NextContextInv
<1> QED BY <1>1, InitContextInv, ContextAsks, PTL DEF TcrSpec

-----------------------------------------------------------------------------
(* What the steps of a scenario have shown.                                  *)

(* What comes back of a client.                                             *)
Printed(o) == o.code \in {0, 1}

ContextTypes(c) ==
  c.client \in Clients \cup {"none"} /\ Printed(c.outcome) /\ c.valid \in BOOLEAN

(* What a step that passed says of the context c and the answer a it left.   *)
Shown(s, c, a) ==
  /\ s.do \in {"ask server", "ask client", "may fail"} => c.asked # NoQuestion
  /\ s.do = "ask client" => c.outcome.code = 0 /\ c.response_str = c.outcome.stdout
  /\ s.do = "may fail" =>
       c.response_str = IF c.outcome.code = 0 THEN c.outcome.stdout ELSE c.outcome.stderr
  /\ s.do = "then" /\ s.what = "did is verified" => c.response_str.kind = "verified"
  /\ s.do = "then" /\ s.what = "response is valid" => c.response_str.kind = "resolved"
  /\ s.do = "matches" => c.response_str.kind = s.text
  /\ s.do = "status" => a.status = s.code

(* It says so until something is asked again.                               *)
SinceAsked(r, i) ==
  \A k \in DOMAIN Current(r).steps :
    i < k /\ k < pc[r].step => Current(r).steps[k].do \notin Anew
StillShown(r) ==
  ~Finished(r) =>
    \A i \in DOMAIN Current(r).steps :
      i < pc[r].step /\ SinceAsked(r, i) => Shown(Current(r).steps[i], context[r], response[r])

TcrTyped ==
  /\ Typed /\ environment \in Environments
  /\ \A r \in Run : ContextTypes(context[r])
EarnInv == ContextInv /\ TcrTyped /\ \A r \in Run : StillShown(r)

LEMMA OutcomesPrinted ==
  ASSUME NEW c, NEW q, NEW faulty, NEW o \in Outcomes(c, q, faulty)
  PROVE  Printed(o)
<1>1. \A x, e : Outcome(0, x, e).code = 0 /\ Outcome(1, x, e).code = 1
  BY DEF Outcome
<1>2. (\E x, e : o = Outcome(0, x, e) \/ o = Outcome(1, x, e)) => Printed(o)
  BY <1>1 DEF Printed
<1>3. CASE o \in AnyOutcome
  <2>1. \E x, e : o = Outcome(0, x, e) \/ o = Outcome(1, x, e)
    BY <1>3 DEF AnyOutcome, Success
  <2> QED BY <1>2, <2>1
<1>4. CASE o \in Expected(c, q) /\ o \notin AnyOutcome
  <2>1. \/ o = Success(Text("verified")) \/ o = Success(Text("nothing"))
        \/ o = Outcome(1, Text("nothing"), Complaint[c])
        \/ \E j : o = Success(Json(j))
    BY <1>4, Zenon DEF Expected
  <2>2. \E x, e : o = Outcome(0, x, e) \/ o = Outcome(1, x, e)
    BY <2>1, Zenon DEF Success
  <2> QED BY <1>2, <2>2
<1> QED BY <1>3, <1>4 DEF Outcomes

-----------------------------------------------------------------------------
(* The moves of a run, and what they show.                                  *)

ShowsNext(r) == ContextTypes(context'[r]) /\ StillShown(r)'

LEMMA StaysShown ==
  ASSUME EarnInv, NEW r \in Run,
         pc'[r] = pc[r], context'[r] = context[r], response'[r] = response[r]
  PROVE  ShowsNext(r)
BY DEF EarnInv, TcrTyped, ShowsNext, StillShown, SinceAsked, Finished, Current

LEMMA AtStartShown ==
  ASSUME ContextInv, ContextInv', NEW r \in Run, pc'[r].step = 0, context'[r] = NoContext
  PROVE  ShowsNext(r)
<1>1. ContextTypes(NoContext)
  BY DEF NoContext, ContextTypes, Printed, Success, Outcome, Text
<1>2. ~Finished(r)' => \A i \in DOMAIN Current(r)'.steps : ~(i < 0)
  <2> SUFFICES ASSUME ~Finished(r)' PROVE \A i \in DOMAIN Current(r)'.steps : ~(i < 0)
    OBVIOUS
  <2>1. pc'[r].scenario \in 1 .. Len(Feature) + 1 /\ ~(pc'[r].scenario > Len(Feature))
    BY DEF ContextInv, Places, Finished
  <2>2. pc'[r].scenario \in 1 .. Len(Feature)
    BY <2>1, LengthIsNat, Inside
  <2>3. WellFormed(Feature[pc'[r].scenario])
    BY <2>2, ScriptAssumption
  <2> QED BY <2>3 DEF WellFormed, Current
<1> QED BY <1>1, <1>2 DEF ShowsNext, StillShown

(* Going on with a context c and an answer a.                                *)
LEMMA GoesOnShown ==
  ASSUME EarnInv, NEW r \in Run, ~Finished(r), NEW c, NEW a,
         Goes(r, c), response'[r] = a, ContextTypes(c),
         pc[r].step = 0 \/ InStep(r),
         InStep(r) =>
           /\ Shown(Step(r), c, a)
           /\ \/ Step(r).do \in Anew
              \/ /\ c.asked = context[r].asked /\ c.outcome = context[r].outcome
                 /\ c.response_str = context[r].response_str /\ a = response[r]
  PROVE  ShowsNext(r)
<1> DEFINE n == pc[r].step
           steps == Current(r).steps
<1>1. /\ pc'[r].step = n + 1 /\ context'[r] = c /\ n \in Nat
      /\ Current(r)' = Current(r) /\ ~Finished(r)'
  BY GoesOn, PlaceType DEF EarnInv, ContextInv
<1>2. Len(steps) \in Nat /\ DOMAIN steps = 1 .. Len(steps)
  BY UnderWay DEF EarnInv, ContextInv, WellFormed
<1>3. ASSUME NEW i \in DOMAIN steps, i < n + 1,
             \A k \in DOMAIN steps : i < k /\ k < n + 1 => steps[k].do \notin Anew
      PROVE  Shown(steps[i], c, a)
  <2>1. i \in Nat /\ i # 0 /\ (i = n \/ i < n)
    <3> HIDE DEF n, steps
    <3>1. i \in 1 .. Len(steps) /\ n \in Nat
      BY <1>1, <1>2
    <3> QED BY <1>2, <1>3, <3>1
  <2>2. InStep(r)
    <3> HIDE DEF n
    <3>1. n # 0
      BY <1>1, <2>1
    <3> QED BY <3>1 DEF n
  <2>3. CASE i = n
    BY <2>2, <2>3 DEF Step
  <2>4. CASE i < n
    <3>1. n \in DOMAIN steps /\ n < n + 1
      <4>1. n \in 1 .. Len(steps)
        BY <2>2 DEF InStep
      <4> HIDE DEF n, steps
      <4> QED BY <1>1, <1>2, <4>1
    <3>2. steps[n].do \notin Anew
      BY <1>3, <2>4, <3>1
    <3>3. \A k \in DOMAIN steps : k < n => k < n + 1
      <4> HIDE DEF n, steps
      <4> QED BY <1>1, <1>2
    <3>4. \A k \in DOMAIN steps : i < k /\ k < n => steps[k].do \notin Anew
      BY <1>3, <3>3
    <3>5. Shown(steps[i], context[r], response[r])
      BY <2>4, <3>4 DEF EarnInv, StillShown, SinceAsked
    <3>6. /\ c.asked = context[r].asked /\ c.outcome = context[r].outcome
          /\ c.response_str = context[r].response_str /\ a = response[r]
      BY <2>2, <3>2 DEF Step
    <3> QED BY <3>5, <3>6 DEF Shown
  <2> QED BY <2>1, <2>3, <2>4
<1>4. StillShown(r)'
  BY <1>1, <1>3 DEF StillShown, SinceAsked
<1> QED BY <1>1, <1>4 DEF ShowsNext

(* A step of the TCR's that passed, and left the context c and the answer a.  *)
MovesOn(r, c, a) ==
  /\ Proceed(r) /\ UNCHANGED <<entry, token, file>>
  /\ context' = [context EXCEPT ![r] = c]
  /\ \/ response' = response /\ a = response[r]
     \/ response' = [response EXCEPT ![r] = a]
  /\ a.status \in Statuses /\ ContextTypes(c) /\ Shown(Step(r), c, a)
  /\ \/ Step(r).do \in Anew
     \/ /\ c.asked = context[r].asked /\ c.outcome = context[r].outcome
        /\ c.response_str = context[r].response_str /\ a = response[r]

LEMMA PassesMoves ==
  ASSUME EarnInv, NEW r \in Run, NEW c, Passes(r, c), ContextTypes(c),
         Shown(Step(r), c, response[r]),
         \/ Step(r).do \in Anew
         \/ /\ c.asked = context[r].asked /\ c.outcome = context[r].outcome
            /\ c.response_str = context[r].response_str
  PROVE  MovesOn(r, c, response[r])
<1>1. response[r].status \in Statuses
  BY DEF EarnInv, TcrTyped, Typed, RunTypes
<1> QED BY <1>1 DEF Passes, MovesOn

LEMMA AskMoves ==
  ASSUME EarnInv, NEW r \in Run, InStep(r), NEW faulty, AskTcr(r, faulty), ~FailsTcr(r)
  PROVE  \E c, a : MovesOn(r, c, a)
<1>1. DOMAIN context[r] = Fields /\ ContextTypes(context[r])
  BY DEF EarnInv, ContextInv, GivenInv, TcrTyped
<1>2. CASE AskTheServer(r, faulty)
  <2> DEFINE q == ServerAsks(Step(r).op, context[r].given)
             c == [context[r] EXCEPT !.asked = q]
  <2>1. Step(r).do = "ask server" /\ Proceed(r) /\ context' = [context EXCEPT ![r] = c]
        /\ UNCHANGED <<entry, token, file>>
    BY <1>2 DEF AskTheServer
  <2>2. PICK o \in Outcomes("server", q, faulty) :
          response' = [response EXCEPT ![r] =
                     [status  |-> IF o.code = 0 THEN 200 ELSE 500,
                      message |-> IF o \in Expected("server", q) /\ q.op = "resolve"
                                  THEN "alice resolved" ELSE "other"]]
    BY <1>2 DEF AskTheServer
  <2> DEFINE a == [status  |-> IF o.code = 0 THEN 200 ELSE 500,
                   message |-> IF o \in Expected("server", q) /\ q.op = "resolve"
                               THEN "alice resolved" ELSE "other"]
  <2>3. a.status \in Statuses
    BY DEF Statuses
  <2>4. ContextTypes(c) /\ c.asked = q
    BY <1>1 DEF ContextTypes, Fields
  <2>5. q # NoQuestion
    BY AskStep, AsksSomething DEF EarnInv
  <2> HIDE DEF a, c, q
  <2>6. Step(r).do \in Anew /\ Shown(Step(r), c, a)
    BY <2>1, <2>4, <2>5, Zenon DEF Anew, Shown
  <2> USE DEF a
  <2>7. response' = [response EXCEPT ![r] = a]
    BY <2>2
  <2> HIDE DEF a
  <2>8. MovesOn(r, c, a)
    BY <2>1, <2>3, <2>4, <2>6, <2>7 DEF MovesOn
  <2> QED BY <2>8
<1>3. ASSUME NEW o, o \in Outcomes(context[r].client, Command(r), faulty), NEW text,
             Runnable(r), Takes(r, o, text), Step(r).do \in {"ask client", "may fail"},
             Step(r).do = "ask client" => o.code = 0 /\ text = o.stdout,
             Step(r).do = "may fail" => text = IF o.code = 0 THEN o.stdout ELSE o.stderr
      PROVE  \E c, a : MovesOn(r, c, a)
  <2> DEFINE c == [context[r] EXCEPT !.asked = Command(r), !.outcome = o,
                                     !.response_str = text]
  <2>1. context[r].client \in Clients
    BY <1>1, <1>3 DEF Runnable, ContextTypes
  <2>2. Printed(o)
    BY <1>3, <2>1, OutcomesPrinted
  <2>3. c.asked = Command(r) /\ c.outcome = o /\ c.response_str = text /\ ContextTypes(c)
    BY <1>1, <2>2 DEF ContextTypes, Fields
  <2>4. Passes(r, c)
    BY <1>3 DEF Takes
  <2>5. Command(r) # NoQuestion
    BY AskStep, AsksSomething DEF EarnInv, Command
  <2> HIDE DEF c
  <2>6. Step(r).do \in Anew /\ Shown(Step(r), c, response[r])
    BY <1>3, <2>3, <2>5, Zenon DEF Anew, Shown
  <2> QED BY <2>3, <2>4, <2>6, PassesMoves
<1>4. CASE AskTheClient(r, faulty)
  <2>1. Step(r).do = "ask client" /\ Step(r).do # "may fail" /\ Runnable(r)
    BY <1>4 DEF AskTheClient
  <2>2. PICK o \in Outcomes(context[r].client, Command(r), faulty) :
          o.code = 0 /\ Takes(r, o, o.stdout)
    BY <1>4, <2>1 DEF AskTheClient
  <2> QED BY <1>3, <2>1, <2>2
<1>5. CASE MayFailValidate(r, faulty)
  <2>1. Step(r).do = "may fail" /\ Step(r).do # "ask client" /\ Runnable(r)
    BY <1>5 DEF MayFailValidate
  <2>2. PICK o \in Outcomes(context[r].client, Command(r), faulty) :
          Takes(r, o, IF o.code = 0 THEN o.stdout ELSE o.stderr)
    BY <1>5, <2>1 DEF MayFailValidate
  <2> QED BY <1>3, <2>1, <2>2
<1> QED BY <1>2, <1>4, <1>5 DEF AskTcr

LEMMA TcrMoves ==
  ASSUME EarnInv, NEW r \in Run, TcrStep(r), ~FailsTcr(r)
  PROVE  \E c, a : MovesOn(r, c, a)
<1>1. DOMAIN context[r] = Fields /\ ContextTypes(context[r])
  BY DEF EarnInv, ContextInv, GivenInv, TcrTyped
<1>2. CASE AddClient(r)
  <2> DEFINE c == [context[r] EXCEPT !.client = Step(r).client]
  <2>1. Step(r).do = "installed" /\ Passes(r, c)
    BY <1>2 DEF AddClient
  <2>2. Step(r).client \in Clients
    BY <2>1, UnderWay DEF EarnInv, ContextInv, WellFormed, TcrStep, InStep, Step
  <2>3. /\ ContextTypes(c) /\ c.asked = context[r].asked
        /\ c.outcome = context[r].outcome /\ c.response_str = context[r].response_str
    BY <1>1, <2>2 DEF ContextTypes, Fields
  <2> HIDE DEF c
  <2>4. Shown(Step(r), c, response[r])
    BY <2>1, Zenon DEF Shown
  <2> QED BY <2>1, <2>3, <2>4, PassesMoves
<1>3. CASE AddInput(r)
  <2> DEFINE c == [context[r] EXCEPT !.given = With(context[r].given, Step(r).name, Step(r).value)]
  <2>1. Step(r).do = "input" /\ Passes(r, c)
    BY <1>3 DEF AddInput
  <2>2. /\ ContextTypes(c) /\ c.asked = context[r].asked
        /\ c.outcome = context[r].outcome /\ c.response_str = context[r].response_str
    BY <1>1 DEF ContextTypes, Fields
  <2> HIDE DEF c
  <2>3. Shown(Step(r), c, response[r])
    BY <2>1, Zenon DEF Shown
  <2> QED BY <2>1, <2>2, <2>3, PassesMoves
<1>4. CASE AskTcr(r, FALSE)
  BY <1>4, AskMoves DEF TcrStep
<1>5. ASSUME NEW c \in {context[r], [context[r] EXCEPT !.valid = TRUE]}, Passes(r, c),
             Shown(Step(r), context[r], response[r])
      PROVE  \E d, a : MovesOn(r, d, a)
  <2>1. /\ ContextTypes(c) /\ c.asked = context[r].asked
        /\ c.outcome = context[r].outcome /\ c.response_str = context[r].response_str
    BY <1>1 DEF ContextTypes, Fields
  <2>2. Shown(Step(r), c, response[r])
    BY <1>5, <2>1 DEF Shown
  <2> QED BY <1>5, <2>1, <2>2, PassesMoves
<1> DEFINE moves == Passes(r, context[r]) \/ Passes(r, [context[r] EXCEPT !.valid = TRUE])
<1>6. CASE ChecksNothing(r)
  <2>1. Shown(Step(r), context[r], response[r])
    BY <1>6, Zenon DEF ChecksNothing, Shown
  <2> QED BY <1>5, <1>6, <2>1 DEF ChecksNothing
<1>7. CASE ResponseIsValid(r)
  <2>1. moves /\ context[r].response_str.kind = "resolved"
        /\ Step(r).do = "then" /\ Step(r).what = "response is valid"
    BY <1>7 DEF ResponseIsValid
  <2>2. Shown(Step(r), context[r], response[r])
    BY <2>1, Zenon DEF Shown
  <2> QED BY <1>5, <2>1, <2>2
<1>8. CASE ResolveThen(r)
  <2>1. moves /\ Step(r).do = "then" /\ Step(r).what \notin {"response is valid", "did is verified"}
    BY <1>8 DEF ResolveThen
  <2>2. Shown(Step(r), context[r], response[r])
    BY <2>1, Zenon DEF Shown
  <2> QED BY <1>5, <2>1, <2>2
<1>9. CASE ValidationIsValid(r)
  <2>1. moves /\ Step(r).do = "then" /\ Step(r).what = "validation is valid"
    BY <1>9 DEF ValidationIsValid, Asserts
  <2>2. Shown(Step(r), context[r], response[r])
    BY <2>1, Zenon DEF Shown
  <2> QED BY <1>5, <2>1, <2>2
<1>10. CASE DidIsVerified(r)
  <2>1. moves /\ Step(r).do = "then" /\ Step(r).what = "did is verified"
        /\ context[r].response_str.kind = "verified"
    BY <1>10 DEF DidIsVerified, Asserts
  <2>2. Shown(Step(r), context[r], response[r])
    BY <2>1, Zenon DEF Shown
  <2> QED BY <1>5, <2>1, <2>2
<1>11. CASE ContentMatches(r)
  <2>1. moves /\ Step(r).do = "matches" /\ context[r].response_str.kind = Step(r).text
    BY <1>11 DEF ContentMatches, Asserts
  <2>2. Shown(Step(r), context[r], response[r])
    BY <2>1, Zenon DEF Shown
  <2> QED BY <1>5, <2>1, <2>2
<1> QED BY <1>2, <1>3, <1>4, <1>6, <1>7, <1>8, <1>9, <1>10, <1>11 DEF TcrStep

-----------------------------------------------------------------------------
(* Every step keeps what is shown.                                           *)

LEMMA MovesOnShown ==
  ASSUME EarnInv, NEW r \in Run, InStep(r), NEW c, NEW a, MovesOn(r, c, a)
  PROVE  ShowsNext(r)
<1>1. Goes(r, c) /\ ~Finished(r)
  BY DEF MovesOn, Proceed, Goes, InStep
<1>2. response'[r] = a
  BY DEF MovesOn, EarnInv, TcrTyped, Typed, RunTypes
<1> QED BY <1>1, <1>2, GoesOnShown DEF MovesOn

LEMMA LeavesShown ==
  ASSUME EarnInv, ContextInv', NEW r \in Run, ~Finished(r), Leave(r), Layer(r)
  PROVE  ShowsNext(r)
<1>1. pc'[r].step = 0
  BY DEF Leave, EarnInv, ContextInv
<1>2. context'[r] = NoContext
  BY <1>1 DEF Layer, EarnInv, ContextInv
<1> QED BY <1>1, <1>2, AtStartShown DEF EarnInv

LEMMA TspaStepShown ==
  ASSUME EarnInv, ContextInv', NEW r \in Run, TspaStep(r)
  PROVE  ShowsNext(r)
<1>1. Layer(r) /\ RunStep(r)
  BY DEF TspaStep
<1>2. ~Finished(r)
  BY <1>1 DEF RunStep, Background, InStep, EndScenario
<1>3. CASE Leave(r)
  BY <1>1, <1>2, <1>3, LeavesShown
<1>4. CASE Proceed(r) /\ ~Leave(r)
  <2> DEFINE c == IF pc[r].step = 0 /\ IsTcr(r) THEN Defaults ELSE context[r]
  <2>1. pc'[r].step # 0
    <3>1. pc'[r].step = pc[r].step + 1
      BY <1>4, PlaceType DEF Proceed, EarnInv, ContextInv, Places
    <3> QED BY <3>1, PlaceType DEF EarnInv, ContextInv
  <2>2. Goes(r, c)
    BY <1>1, <1>4, <2>1 DEF Layer, Proceed, Goes
  <2>3. ContextTypes(c)
    <3>1. ContextTypes(Defaults)
      BY DEF Defaults, NoContext, ContextTypes, Printed, Success, Outcome, Text
    <3> QED BY <3>1 DEF EarnInv, TcrTyped
  <2>4. CASE Background(r)
    <3>1. pc[r].step = 0 /\ ~InStep(r)
      BY <2>4 DEF Background, InStep
    <3> HIDE DEF c
    <3> QED BY <1>2, <2>2, <2>3, <3>1, GoesOnShown
  <2>5. CASE InStep(r)
    <3>1. c = context[r]
      BY <2>5 DEF InStep
    <3>2. /\ Shown(Step(r), c, response'[r])
          /\ Step(r).do \in Anew \/ response'[r] = response[r]
      <4> HIDE DEF c
      <4>1. CASE FetchToken(r) \/ SaveToken(r) \/ LoadToken(r)
        <5>1. Step(r).do \in {"fetch token", "save token", "load token"}
          BY <4>1, Zenon DEF FetchToken, SaveToken, LoadToken
        <5>2. response' = response
          BY <1>4, <4>1 DEF FetchToken, SaveToken, LoadToken, Fails
        <5> QED BY <5>1, <5>2, Zenon DEF Shown
      <4>2. CASE SendRequest(r)
        <5>1. Step(r).do = "send"
          BY <4>2 DEF SendRequest
        <5> QED BY <5>1, Zenon DEF Shown, Anew
      <4>3. CASE Judge(r)
        <5>1. /\ response' = response
              /\ \/ Step(r).do = "content"
                 \/ Step(r).do = "status" /\ response[r].status = Step(r).code
          BY <1>4, <4>3 DEF Judge, Fails
        <5> QED BY <5>1, Zenon DEF Shown
      <4>4. ~Background(r) /\ ~EndScenario(r)
        BY <1>4, <2>5 DEF Background, EndScenario, InStep
      <4> QED BY <1>1, <4>1, <4>2, <4>3, <4>4 DEF RunStep
    <3> HIDE DEF c
    <3> QED BY <1>2, <2>2, <2>3, <2>5, <3>1, <3>2, GoesOnShown
  <2> QED BY <1>1, <1>3, <2>4, <2>5 DEF RunStep, EndScenario
<1> QED BY <1>1, <1>3, <1>4, GoesOrLeaves

-----------------------------------------------------------------------------
(* The types, and the other runs.                                            *)

(* A step of a run, seen from the others.                                    *)
OthersStay(r) ==
  \A q \in Run \ {r} :
    pc'[q] = pc[q] /\ context'[q] = context[q] /\ response'[q] = response[q]

LEMMA EarnNext ==
  ASSUME EarnInv, ContextInv', Typed', UNCHANGED environment,
         NEW r \in Run, ShowsNext(r), OthersStay(r)
  PROVE  EarnInv'
<1>1. \A q \in Run : ShowsNext(q)
  BY StaysShown DEF OthersStay
<1> QED BY <1>1 DEF EarnInv, TcrTyped, ShowsNext

LEMMA FailsEarn ==
  ASSUME EarnInv, ContextInv', BookTypes', UNCHANGED environment,
         NEW r \in Run, ~Finished(r), FailsTcr(r)
  PROVE  EarnInv'
<1>1. Fails(r) /\ Leave(r) /\ Layer(r)
  BY DEF FailsTcr, Fails
<1>2. Typed'
  BY <1>1, FailsTyped DEF EarnInv, TcrTyped, Typed
<1>3. OthersStay(r)
  BY <1>1, LeavesOthers DEF EarnInv, TcrTyped, Untouched, Layer, ContextInv, OthersStay
<1> QED BY <1>1, <1>2, <1>3, LeavesShown, EarnNext

LEMMA MovesOnEarn ==
  ASSUME EarnInv, ContextInv', BookTypes', UNCHANGED environment,
         NEW r \in Run, InStep(r), NEW c, NEW a, MovesOn(r, c, a)
  PROVE  EarnInv'
<1>1. Typed'
  <2>1. RunTypes /\ "none" \in Tokens
    BY DEF EarnInv, TcrTyped, Typed, Tokens
  <2>2. RunTypes'
    BY <2>1, StepTyped DEF MovesOn, RunTypes
  <2> QED BY <2>2 DEF Typed
<1>2. OthersStay(r)
  BY DEF MovesOn, Proceed, EarnInv, TcrTyped, Typed, RunTypes, ContextInv, OthersStay
<1> QED BY <1>1, <1>2, MovesOnShown, EarnNext

LEMMA NextEarn ==
  ASSUME EarnInv, [TcrNext]_tcrVars
  PROVE  EarnInv'
<1>1. ContextInv' /\ Typed /\ BookTypes /\ ContextInv
  BY NextContextInv DEF EarnInv, TcrTyped, Typed
<1>2. ASSUME NEW r \in Run, TspaStep(r) PROVE EarnInv'
  <2>1. RunStep(r) /\ Layer(r) /\ UNCHANGED environment
    BY <1>2 DEF TspaStep
  <2>2. Typed'
    BY <1>1, <2>1, NextTyped DEF Next
  <2>3. OthersStay(r)
    BY <1>1, <2>1, StepsAlone DEF Untouched, Layer, ContextInv, OthersStay
  <2> QED BY <1>1, <1>2, <2>1, <2>2, <2>3, TspaStepShown, EarnNext
<1>3. ASSUME NEW r \in Run, TcrStep(r) PROVE EarnInv'
  <2>1. InStep(r) /\ ~Finished(r) /\ UNCHANGED <<late, faults, dirty, disturbed, environment>>
    BY <1>3 DEF TcrStep, InStep
  <2>2. BookTypes'
    BY <1>1, <2>1 DEF BookTypes
  <2>3. CASE FailsTcr(r)
    BY <1>1, <2>1, <2>2, <2>3, FailsEarn
  <2>4. CASE ~FailsTcr(r)
    BY <1>1, <1>3, <2>1, <2>2, <2>4, TcrMoves, MovesOnEarn
  <2> QED BY <2>3, <2>4
<1>4. ASSUME NEW r \in Run, TspaFault(r) PROVE EarnInv'
  <2>1. Layer(r) /\ UNCHANGED environment /\ (NotUp(r) \/ TimesOut(r) \/ TokenLost(r))
    BY <1>4 DEF TspaFault
  <2>2. Typed'
    BY <1>1, <2>1, NextTyped DEF Next
  <2>3. ~Finished(r)
    BY <2>1 DEF NotUp, TimesOut, TokenLost, Fault
  <2>4. CASE NotUp(r) \/ TimesOut(r)
    <3>1. Fails(r) /\ Leave(r)
      BY <2>4 DEF NotUp, TimesOut, Fails
    <3>2. OthersStay(r)
      BY <1>1, <2>1, <3>1, LeavesOthers DEF Untouched, Layer, ContextInv, OthersStay
    <3> QED BY <1>1, <2>1, <2>2, <2>3, <3>1, <3>2, LeavesShown, EarnNext
  <2>5. CASE TokenLost(r)
    <3>1. pc' = pc /\ response' = response
      BY <2>5 DEF TokenLost
    <3>2. context'[r] = context[r] /\ \A q \in Run \ {r} : context'[q] = context[q]
      BY <1>1, <2>1, <3>1 DEF Layer, ContextInv, GivenInv
    <3>3. ShowsNext(r) /\ OthersStay(r)
      BY <3>1, <3>2, StaysShown DEF OthersStay
    <3> QED BY <1>1, <2>1, <2>2, <3>3, EarnNext
  <2> QED BY <2>1, <2>4, <2>5
<1>5. ASSUME NEW r \in Run, TcrFault(r) PROVE EarnInv'
  <2>1. InStep(r) /\ ~Finished(r) /\ UNCHANGED environment /\ Fault(r) /\ late' = late
    BY <1>5 DEF TcrFault, InStep
  <2>2. BookTypes'
    BY <1>1, <2>1, FaultTyped DEF BookTypes
  <2>3. CASE FailsTcr(r)
    BY <1>1, <2>1, <2>2, <2>3, FailsEarn
  <2>4. CASE ~FailsTcr(r)
    <3>1. AskTcr(r, TRUE)
      BY <1>5, <2>4 DEF TcrFault
    <3> QED BY <1>1, <2>1, <2>2, <2>4, <3>1, AskMoves, MovesOnEarn
  <2> QED BY <2>3, <2>4
<1>6. ASSUME Typed', UNCHANGED <<pc, response, context, environment>> PROVE EarnInv'
  <2>1. \A r \in Run : ShowsNext(r)
    BY <1>6, StaysShown
  <2> QED BY <1>1, <1>6, <2>1 DEF EarnInv, TcrTyped, ShowsNext
<1>7. CASE Elsewhere
  <2>1. Typed'
    BY <1>1, <1>7, NextTyped DEF Next, Elsewhere
  <2> QED BY <1>6, <1>7, <2>1 DEF Elsewhere, LateLands, CleanAllElsewhere, runVars
<1>8. CASE TcrStop \/ UNCHANGED tcrVars
  <2>1. UNCHANGED vars
    BY <1>8 DEF TcrStop, tcrVars
  <2>2. Typed'
    BY <1>1, <2>1, NextTyped
  <2> QED BY <1>6, <1>8, <2>1, <2>2 DEF TcrStop, tcrVars, vars, runVars
<1> QED BY <1>2, <1>3, <1>4, <1>5, <1>7, <1>8 DEF TcrNext

LEMMA InitEarn == TcrInit => EarnInv
<1> SUFFICES ASSUME TcrInit PROVE EarnInv
  OBVIOUS
<1>1. ContextInv /\ Typed
  BY InitContextInv, InitTyped DEF TcrInit
<1>2. ASSUME NEW r \in Run PROVE ContextTypes(context[r]) /\ StillShown(r)
  <2>1. pc[r].step = 0 /\ context[r] = NoContext
    BY DEF TcrInit, Init, Start
  <2>2. ContextTypes(NoContext)
    BY DEF NoContext, ContextTypes, Printed, Success, Outcome, Text
  <2>3. ~Finished(r) => \A i \in DOMAIN Current(r).steps : ~(i < 0)
    BY <1>1, UnderWay DEF ContextInv, WellFormed
  <2> QED BY <2>1, <2>2, <2>3 DEF StillShown
<1> QED BY <1>1, <1>2 DEF EarnInv, TcrTyped, TcrInit

-----------------------------------------------------------------------------
(* A scenario that comes to its end.                                         *)

Earned(r) ==
  LET o == context[r].outcome
  IN  /\ context[r].asked # NoQuestion
      /\ CASE Current(r).kind = "direct" -> response[r].status = 200
           [] Current(r).kind = "not verified" ->
                (IF o.code = 0 THEN o.stdout ELSE o.stderr).kind = Complaint[Current(r).of].kind
           [] Current(r).kind = "verified" -> o.code = 0 /\ o.stdout.kind = "verified"
           [] OTHER -> o.code = 0 /\ o.stdout.kind = "resolved"

LEMMA EndIsEarned ==
  ASSUME EarnInv, NEW r \in Run, ~Finished(r), IsTcr(r), pc[r].step > Len(Current(r).steps)
  PROVE  Earned(r)
<1> DEFINE s == Current(r)
           o == context[r].outcome
           text == context[r].response_str
<1>1. Concludes(s) /\ WellFormed(s)
  BY UnderWay, ScriptAssumption DEF EarnInv, ContextInv, IsTcr, Current
<1>2. \A k \in DOMAIN s.steps : k \in Nat /\ k < pc[r].step
  <2>1. Len(s.steps) \in Nat /\ DOMAIN s.steps = 1 .. Len(s.steps)
    BY <1>1 DEF WellFormed
  <2>2. pc[r].step \in Nat /\ pc[r].step > Len(s.steps)
    BY PlaceType DEF EarnInv, ContextInv
  <2> QED BY <2>1, <2>2
<1> HIDE DEF s
<1>3. PICK i, j \in DOMAIN s.steps :
        /\ i < j /\ \A k \in DOMAIN s.steps : i < k => s.steps[k].do \notin Anew
        /\ CASE s.kind = "direct" ->
                  s.steps[i].do = "ask server" /\ s.steps[j].do = "status" /\ s.steps[j].code = 200
             [] s.kind = "not verified" ->
                  /\ s.steps[i].do = "may fail" /\ s.steps[j].do = "matches"
                  /\ s.of \in Clients /\ s.steps[j].text = Complaint[s.of].kind
             [] s.kind = "verified" ->
                  /\ s.steps[i].do = "ask client" /\ s.steps[j].do = "then"
                  /\ s.steps[j].what = "did is verified"
             [] OTHER ->
                  /\ s.steps[i].do = "ask client" /\ s.steps[j].do = "then"
                  /\ s.steps[j].what = "response is valid"
  BY <1>1 DEF Concludes
<1>4. /\ Shown(s.steps[i], context[r], response[r])
      /\ Shown(s.steps[j], context[r], response[r])
  <2>1. SinceAsked(r, i)
    BY <1>3 DEF SinceAsked, s
  <2>2. ASSUME NEW k \in DOMAIN s.steps, j < k PROVE i < k
    <3>1. i \in Nat /\ j \in Nat /\ k \in Nat
      BY <1>2
    <3>2. i < j
      BY <1>3
    <3> QED BY <2>2, <3>1, <3>2
  <2>3. SinceAsked(r, j)
    BY <1>3, <2>2 DEF SinceAsked, s
  <2> QED BY <1>2, <2>1, <2>3 DEF EarnInv, StillShown, s
<1>5. context[r].asked # NoQuestion
  <2>1. s.steps[i].do \in {"ask server", "ask client", "may fail"}
    BY <1>3
  <2> QED BY <1>4, <2>1 DEF Shown
<1>6. CASE s.kind = "direct"
  <2>1. response[r].status = 200
    BY <1>3, <1>4, <1>6 DEF Shown
  <2> QED BY <1>5, <1>6, <2>1 DEF Earned, s
<1>7. CASE s.kind = "not verified"
  <2>1. /\ text = IF o.code = 0 THEN o.stdout ELSE o.stderr
        /\ text.kind = Complaint[s.of].kind
    BY <1>3, <1>4, <1>7 DEF Shown
  <2> QED BY <1>5, <1>7, <2>1 DEF Earned, s
<1>8. CASE s.kind = "verified"
  <2>1. o.code = 0 /\ o.stdout.kind = "verified"
    BY <1>3, <1>4, <1>8 DEF Shown
  <2> QED BY <1>5, <1>8, <2>1 DEF Earned, s
<1>9. CASE s.kind \notin {"direct", "not verified", "verified"}
  <2>1. o.code = 0 /\ o.stdout.kind = "resolved"
    BY <1>3, <1>4, <1>9 DEF Shown
  <2> QED BY <1>5, <1>9, <2>1 DEF Earned, s
<1> QED BY <1>6, <1>7, <1>8, <1>9

(* Whatever comes back of the TCR and its clients, a complaint of a client     *)
(* that exits 0 included, and whatever failed before: a scenario passes only  *)
(* on an answer it got itself, that says what it expects in the text the exit *)
(* code selects.                                                           *)
THEOREM PassesAreEarned == TcrSpec => PassIsEarned
<1>1. EarnInv /\ [TcrNext]_tcrVars => EarnInv'
  BY NextEarn
<1>2. EarnInv =>
        [\A r \in Run :
           LET o == context[r].outcome
           IN  (~Finished(r) /\ IsTcr(r) /\ pc[r].step > Len(Current(r).steps) /\ pc'[r] # pc[r]) =>
                 /\ context[r].asked # NoQuestion
                 /\ CASE Current(r).kind = "direct" -> response[r].status = 200
                      [] Current(r).kind = "not verified" ->
                           (IF o.code = 0 THEN o.stdout ELSE o.stderr).kind
                             = Complaint[Current(r).of].kind
                      [] Current(r).kind = "verified" -> o.code = 0 /\ o.stdout.kind = "verified"
                      [] OTHER -> o.code = 0 /\ o.stdout.kind = "resolved"]_tcrVars
  BY EndIsEarned DEF Earned
<1> QED BY <1>1, <1>2, InitEarn, PTL DEF TcrSpec, PassIsEarned
=============================================================================
