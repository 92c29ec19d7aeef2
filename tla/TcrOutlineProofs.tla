-------------------------- MODULE TcrOutlineProofs --------------------------
(***************************************************************************)
(* Runs of the features that ask the TCR keep to the outline of TcrOutline:   *)
(* the only scenarios of theirs that fail undisturbed are those of a client   *)
(* for which the environment has no runner.                                 *)
(***************************************************************************)
EXTENDS TcrOutline, TspaOutlineProofs, TcrFeatureProofs

-----------------------------------------------------------------------------
(* A step of the TCR's and what the outline says of it.                      *)

(* What a run that has asked is given is what the features expect.           *)
LEMMA ProvidedIsProvisioned ==
  ASSUME NEW o, Provides(o), NEW t, NEW f, NEW a, Fits(o, entry, t, f, a)
  PROVE  Provisioned
<1>1. "alice" \in Pointer /\ "bob" \in Pointer
  BY TcrPointersAssumption
<1>2. entry["alice"] \in o.found["alice"] /\ entry["bob"] \in o.found["bob"]
  BY <1>1 DEF Fits
<1> QED BY <1>2 DEF Provides, Provisioned

(* The step passes with one of the contexts, and answers, that it makes ...   *)
AnswersAs(s, c, a) == s.do = "ask server" /\ IsGiven(s, c) /\ a \in ServerAnswers(s, c)
Makes(r, c) ==
  /\ Proceed(r) /\ UNCHANGED <<entry, token, file>>
  /\ context' = [context EXCEPT ![r] = c]
  /\ c \in ContextMakes(environment, Step(r), context[r])
  /\ \/ response' = response /\ Step(r).do # "ask server"
     \/ \E a : AnswersAs(Step(r), context[r], a) /\ response' = [response EXCEPT ![r] = a]
(* ... or fails where it may.                                              *)
FailsSo(r) == FailsTcr(r) /\ ContextFails(r, environment, Step(r), context[r])

LEMMA AskOutline ==
  ASSUME NEW r \in Run, AskTcr(r, FALSE), Provisioned
  PROVE  FailsSo(r) \/ \E c : Makes(r, c)
<1> DEFINE e == environment
           s == Step(r)
           d == context[r]
<1>1. HasInputs(r) <=> IsGiven(s, d)
  BY DEF HasInputs, IsGiven
<1>2. Runnable(r) <=> IsRunnable(e, s, d)
  BY <1>1 DEF Runnable, IsRunnable
<1>3. \A c, q : Outcomes(c, q, FALSE) = Expected(c, q)
  BY DEF Outcomes
<1>4. Command(r) = ClientQuestion(s, d)
  BY DEF Command, ClientQuestion
<1>5. ASSUME Runnable(r) PROVE Replies(e, s, d) = Outcomes(d.client, Command(r), FALSE)
  BY <1>2, <1>3, <1>4, <1>5 DEF Replies
<1>6. CASE AskTheServer(r, FALSE)
  <2>1. s.do = "ask server"
    BY <1>6 DEF AskTheServer
  <2>2. CASE ~HasInputs(r)
    <3>1. FailsTcr(r)
      BY <1>6, <2>2 DEF AskTheServer
    <3> QED BY <1>1, <2>1, <2>2, <3>1 DEF FailsSo, ContextFails
  <2>3. CASE HasInputs(r)
    <3> DEFINE q == ServerQuestion(s, d)
               c == [d EXCEPT !.asked = q]
    <3>1. /\ Proceed(r) /\ UNCHANGED <<entry, token, file>>
          /\ context' = [context EXCEPT ![r] = c]
      BY <1>6, <2>3 DEF AskTheServer, ServerQuestion
    <3>2. PICK o \in Outcomes("server", ServerAsks(s.op, d.given), FALSE) :
            response' = [response EXCEPT ![r] =
                     [status  |-> IF o.code = 0 THEN 200 ELSE 500,
                      message |-> IF o \in Expected("server", ServerAsks(s.op, d.given))
                                       /\ ServerAsks(s.op, d.given).op = "resolve"
                                  THEN "alice resolved" ELSE "other"]]
      BY <1>6, <2>3 DEF AskTheServer
    <3>3. q = ServerAsks(s.op, d.given) /\ o \in Expected("server", q)
      BY <1>3, <3>2 DEF ServerQuestion
    <3> DEFINE a == AnswerTo(q, o)
    <3>4. response' = [response EXCEPT ![r] = a]
      <4>1. (o \in Expected("server", ServerAsks(s.op, d.given))
               /\ ServerAsks(s.op, d.given).op = "resolve") <=> q.op = "resolve"
        BY <3>3
      <4> HIDE DEF q
      <4> QED BY <3>2, <4>1 DEF AnswerTo
    <3>5. a \in ServerAnswers(s, d)
      BY <3>3 DEF ServerAnswers
    <3>6. ContextMakes(e, s, d) = {c}
      BY <1>1, <2>1, <2>3, Zenon DEF ContextMakes
    <3> HIDE DEF a, c
    <3> QED BY <1>1, <2>1, <2>3, <3>1, <3>4, <3>5, <3>6 DEF Makes, AnswersAs
  <2> QED BY <2>2, <2>3
<1>7. CASE AskTheClient(r, FALSE)
  <2>1. s.do = "ask client" /\ s.do # "ask server"
    BY <1>7 DEF AskTheClient
  <2>2. CASE ~Runnable(r)
    <3>1. FailsTcr(r)
      BY <1>7, <2>2 DEF AskTheClient
    <3> QED BY <1>2, <2>1, <2>2, <3>1 DEF FailsSo, ContextFails
  <2>3. CASE Runnable(r)
    <3>1. PICK o \in Replies(e, s, d) : IF o.code = 0 THEN Takes(r, o, o.stdout) ELSE FailsTcr(r)
      BY <1>5, <1>7, <2>3 DEF AskTheClient
    <3>2. CASE o.code # 0
      BY <2>1, <3>1, <3>2 DEF FailsSo, ContextFails
    <3>3. CASE o.code = 0
      <4> DEFINE c == Told(s, d, o, o.stdout)
      <4>1. /\ Proceed(r) /\ UNCHANGED <<entry, token, file, response>>
            /\ context' = [context EXCEPT ![r] = c]
        BY <1>4, <3>1, <3>3 DEF Takes, Passes, Told
      <4>2. ContextMakes(e, s, d)
              = {Told(s, d, x, x.stdout) : x \in {y \in Replies(e, s, d) : y.code = 0}}
        BY <2>1, Zenon DEF ContextMakes
      <4>3. c \in ContextMakes(e, s, d)
        BY <3>1, <3>3, <4>2
      <4> HIDE DEF c
      <4> QED BY <2>1, <4>1, <4>3 DEF Makes
    <3> QED BY <3>2, <3>3
  <2> QED BY <2>2, <2>3
<1>8. CASE MayFailValidate(r, FALSE)
  <2>1. s.do = "may fail" /\ s.do # "ask server"
    BY <1>8 DEF MayFailValidate
  <2>2. CASE ~Runnable(r)
    <3>1. FailsTcr(r)
      BY <1>8, <2>2 DEF MayFailValidate
    <3> QED BY <1>2, <2>1, <2>2, <3>1 DEF FailsSo, ContextFails
  <2>3. CASE Runnable(r)
    <3>1. PICK o \in Replies(e, s, d) : Takes(r, o, IF o.code = 0 THEN o.stdout ELSE o.stderr)
      BY <1>5, <1>8, <2>3 DEF MayFailValidate
    <3> DEFINE c == Told(s, d, o, IF o.code = 0 THEN o.stdout ELSE o.stderr)
    <3>2. /\ Proceed(r) /\ UNCHANGED <<entry, token, file, response>>
          /\ context' = [context EXCEPT ![r] = c]
      BY <1>4, <3>1 DEF Takes, Passes, Told
    <3>3. ContextMakes(e, s, d)
            = {Told(s, d, x, IF x.code = 0 THEN x.stdout ELSE x.stderr) : x \in Replies(e, s, d)}
      BY <2>1, Zenon DEF ContextMakes
    <3>4. c \in ContextMakes(e, s, d)
      BY <3>1, <3>3
    <3> HIDE DEF c
    <3> QED BY <2>1, <3>2, <3>4 DEF Makes
  <2> QED BY <2>2, <2>3
<1> QED BY <1>6, <1>7, <1>8 DEF AskTcr

LEMMA ThenOutline ==
  ASSUME NEW r \in Run,
         \/ ResponseIsValid(r) \/ ResolveThen(r) \/ ValidationIsValid(r)
         \/ DidIsVerified(r) \/ ContentMatches(r)
  PROVE  FailsSo(r) \/ \E c : Makes(r, c)
<1> DEFINE e == environment
           s == Step(r)
           d == context[r]
           text == context[r].response_str
<1>1. ASSUME s.do \in {"then", "matches"}, ~IsSo(r, s, d), FailsTcr(r)
      PROVE  FailsSo(r) \/ \E c : Makes(r, c)
  BY <1>1 DEF FailsSo, ContextFails
<1>2. ASSUME NEW c, Passes(r, c), s.do # "ask server", c \in ContextMakes(e, s, d)
      PROVE  FailsSo(r) \/ \E x : Makes(r, x)
  <2>1. Makes(r, c)
    BY <1>2 DEF Makes, Passes
  <2> QED BY <2>1
<1>3. ASSUME s.do \in {"then", "matches"},
             s.do = "then" => s.what \notin {"response is valid", "validation is valid"}
      PROVE  d \in ContextMakes(e, s, d) /\ s.do # "ask server"
  <2>1. ContextMakes(e, s, d) = {d}
    BY <1>3, Zenon DEF ContextMakes
  <2> QED BY <1>3, <2>1
<1>4. ASSUME s.do = "then", s.what \in {"response is valid", "validation is valid"}
      PROVE  [d EXCEPT !.valid = TRUE] \in ContextMakes(e, s, d) /\ s.do # "ask server"
  <2>1. ContextMakes(e, s, d) = {[d EXCEPT !.valid = TRUE]}
    BY <1>4, Zenon DEF ContextMakes
  <2> QED BY <1>4, <2>1
<1>5. CASE ResponseIsValid(r)
  <2>1. /\ s.do = "then" /\ s.what = "response is valid"
        /\ IF text.kind = "resolved" THEN Passes(r, [d EXCEPT !.valid = TRUE]) ELSE FailsTcr(r)
    BY <1>5 DEF ResponseIsValid
  <2>2. IsSo(r, s, d) <=> text.kind = "resolved"
    BY <2>1, Zenon DEF IsSo
  <2> QED BY <1>1, <1>2, <1>4, <2>1, <2>2
<1>6. CASE ResolveThen(r)
  <2>1. /\ s.do = "then"
        /\ s.what \in {"resolved with a DID", "has a TL", "has no TL", "no DID"}
        /\ IF d.valid /\ Verdict(r)!Holds(s.what, text.response) THEN Passes(r, d) ELSE FailsTcr(r)
    BY <1>6 DEF ResolveThen
  <2>2. IsSo(r, s, d) <=> d.valid /\ Verdict(r)!Holds(s.what, text.response)
    BY <2>1, Zenon DEF IsSo
  <2> QED BY <1>1, <1>2, <1>3, <2>1, <2>2
<1>7. CASE ValidationIsValid(r)
  <2>1. /\ s.do = "then" /\ s.what = "validation is valid"
        /\ IF text.kind \in {"verified", "not verified"}
           THEN Passes(r, [d EXCEPT !.valid = TRUE]) ELSE FailsTcr(r)
    BY <1>7 DEF ValidationIsValid, Asserts
  <2>2. IsSo(r, s, d) <=> text.kind \in {"verified", "not verified"}
    BY <2>1, Zenon DEF IsSo
  <2> QED BY <1>1, <1>2, <1>4, <2>1, <2>2
<1>8. CASE DidIsVerified(r)
  <2>1. /\ s.do = "then" /\ s.what = "did is verified"
        /\ IF d.valid /\ text.kind = "verified" THEN Passes(r, d) ELSE FailsTcr(r)
    BY <1>8 DEF DidIsVerified, Asserts
  <2>2. IsSo(r, s, d) <=> d.valid /\ text.kind = "verified"
    BY <2>1, Zenon DEF IsSo
  <2> QED BY <1>1, <1>2, <1>3, <2>1, <2>2
<1>9. CASE ContentMatches(r)
  <2>1. /\ s.do = "matches"
        /\ IF text.kind = s.text THEN Passes(r, d) ELSE FailsTcr(r)
    BY <1>9 DEF ContentMatches, Asserts
  <2>2. IsSo(r, s, d) <=> text.kind = s.text
    BY <2>1, Zenon DEF IsSo
  <2> QED BY <1>1, <1>2, <1>3, <2>1, <2>2
<1> QED BY <1>5, <1>6, <1>7, <1>8, <1>9

(* A step of the TCR's, when what it asks for is there.                      *)
LEMMA TcrStepOutline ==
  ASSUME NEW r \in Run, TcrStep(r),
         Step(r).do \in {"ask server", "ask client", "may fail"} => Provisioned
  PROVE  FailsSo(r) \/ \E c : Makes(r, c)
<1> DEFINE s == Step(r)
           d == context[r]
<1>1. ASSUME NEW c, Passes(r, c), s.do # "ask server", c \in ContextMakes(environment, s, d)
      PROVE  FailsSo(r) \/ \E x : Makes(r, x)
  <2>1. Makes(r, c)
    BY <1>1 DEF Makes, Passes
  <2> QED BY <2>1
<1>2. CASE AddClient(r)
  <2>1. s.do = "installed" /\ Passes(r, [d EXCEPT !.client = s.client])
    BY <1>2 DEF AddClient
  <2>2. ContextMakes(environment, s, d) = {[d EXCEPT !.client = s.client]}
    BY <2>1, Zenon DEF ContextMakes
  <2> QED BY <1>1, <2>1, <2>2
<1>3. CASE ChecksNothing(r)
  <2>1. s.do = "unchecked" /\ Passes(r, d)
    BY <1>3 DEF ChecksNothing
  <2>2. ContextMakes(environment, s, d) = {d}
    BY <2>1, Zenon DEF ContextMakes
  <2> QED BY <1>1, <2>1, <2>2
<1>4. CASE AddInput(r)
  <2>1. s.do = "input" /\ Passes(r, [d EXCEPT !.given = With(d.given, s.name, s.value)])
    BY <1>4 DEF AddInput
  <2>2. ContextMakes(environment, s, d) = {[d EXCEPT !.given = With(d.given, s.name, s.value)]}
    BY <2>1, Zenon DEF ContextMakes
  <2> QED BY <1>1, <2>1, <2>2
<1>5. CASE AskTcr(r, FALSE)
  <2>1. s.do \in {"ask server", "ask client", "may fail"}
    BY <1>5, Zenon DEF AskTcr, AskTheServer, AskTheClient, MayFailValidate
  <2> QED BY <1>5, <2>1, AskOutline
<1> QED BY <1>2, <1>3, <1>4, <1>5, ThenOutline DEF TcrStep

(* It is a step of no other module, and leaves the other runs alone.          *)
LEMMA TcrStepKind ==
  ASSUME NEW r \in Run, TcrStep(r)
  PROVE  InStep(r) /\ ~Finished(r) /\ Step(r).do \notin TspaSteps
<1>1. Step(r).do \in {"installed", "unchecked", "input", "ask server", "ask client", "may fail",
                      "then", "matches"}
  <2>1. CASE AskTcr(r, FALSE)
    BY <2>1, Zenon DEF AskTcr, AskTheServer, AskTheClient, MayFailValidate
  <2> QED
    BY <2>1, Zenon DEF TcrStep, AddClient, ChecksNothing, AddInput, ResponseIsValid, ResolveThen,
                       ValidationIsValid, DidIsVerified, ContentMatches
<1> QED BY <1>1 DEF TcrStep, InStep, TspaSteps

-----------------------------------------------------------------------------
(* What a run keeps to.                                                     *)

KeepsRun(r) ==
  ~disturbed[r] =>
    /\ FitsAt(Mode(dirty[r]), r)
    /\ pc[r].step # 0 => context[r] \in Contexts(environment, pc[r])
    /\ \A c \in failed[r] : (dirty[r] /\ c \in {"03.1", "03.2"}) \/ Lacks(environment, c)

LEMMA KeepsEach == KeepsToBoth <=> \A r \in Run : KeepsRun(r)
BY DEF KeepsToBoth, KeepsRun

(* A run that nothing happens to, unless it is disturbed now.                *)
LEMMA StaysOnBoth ==
  ASSUME NEW r \in Run, KeepsRun(r), Untouched(r), context'[r] = context[r],
         UNCHANGED <<environment, dirty>>,
         ~disturbed'[r] => ~disturbed[r] /\ entry' = entry
  PROVE  KeepsRun(r)'
<1> SUFFICES ASSUME ~disturbed'[r] PROVE KeepsRun(r)'
  BY DEF KeepsRun
<1>1. /\ FitsAt(Mode(dirty[r]), r)
      /\ pc[r].step # 0 => context[r] \in Contexts(environment, pc[r])
      /\ \A c \in failed[r] : (dirty[r] /\ c \in {"03.1", "03.2"}) \/ Lacks(environment, c)
  BY DEF KeepsRun
<1>2. FitsAt(Mode(dirty[r]), r)'
  BY <1>1 DEF FitsAt, Untouched
<1>3. (pc[r].step # 0 => context[r] \in Contexts(environment, pc[r]))'
  BY <1>1 DEF Untouched
<1>4. (\A c \in failed[r] : (dirty[r] /\ c \in {"03.1", "03.2"}) \/ Lacks(environment, c))'
  BY <1>1 DEF Untouched, Lacks
<1> QED BY <1>2, <1>3, <1>4 DEF KeepsRun

(* The context a step of TspaFeature leaves is one of the next place's.       *)
LEMMA TspaStepContext ==
  ASSUME EarnInv, AtPositions, NEW r \in Run, RunStep(r), Layer(r),
         pc[r].step # 0 => context[r] \in Contexts(environment, pc[r]),
         pc'[r].step # 0
  PROVE  context'[r] \in Contexts(environment, pc'[r])
<1> DEFINE k == pc[r]
<1>1. /\ ~Finished(r)
      /\ pc \in [Run -> Places] /\ DOMAIN context = Run
  BY DEF RunStep, Background, InStep, EndScenario, EarnInv, ContextInv
<1>2. /\ k \in Positions \ {End} /\ Current(r) = Feature[k.scenario]
      /\ InStep(r) => Stepping(k) /\ Step(r) = StepAt(k)
  BY <1>1, AtPosition
<1>3. environment \in Environments
  BY DEF EarnInv, TcrTyped
<1>4. ~Leave(r)
  BY <1>1 DEF Leave
<1>5. pc'[r] = On(k)
  BY <1>4, GoesOrLeaves, ProceedGoesOn
<1>6. context'[r] = IF k.step = 0 /\ IsTcr(r) THEN Defaults ELSE context[r]
  BY <1>1 DEF Layer
<1>7. CASE k.step = 0
  <2>1. context[r] = NoContext
    BY <1>7 DEF EarnInv, ContextInv, GivenInv
  <2>2. context'[r] = IF "kind" \in DOMAIN Feature[k.scenario] THEN Defaults ELSE NoContext
    BY <1>2, <1>6, <1>7, <2>1 DEF IsTcr
  <2> QED BY <1>2, <1>3, <1>5, <1>7, <2>2, ContextsAssumption
<1>8. CASE k.step # 0
  <2>1. InStep(r) /\ (FetchToken(r) \/ SaveToken(r) \/ LoadToken(r) \/ SendRequest(r) \/ Judge(r))
    BY <1>4, <1>8 DEF RunStep, Background, EndScenario
  <2>2. Step(r).do \in TspaSteps
    BY <2>1, Zenon DEF FetchToken, SaveToken, LoadToken, SendRequest, Judge, TspaSteps
  <2>3. Contexts(environment, k) \subseteq Contexts(environment, On(k))
    BY <1>2, <1>3, <2>1, <2>2, ContextsAssumption
  <2> QED BY <1>5, <1>6, <1>8, <2>3
<1> QED BY <1>7, <1>8

LEMMA TspaStepKeeps ==
  ASSUME EarnInv, AtPositions, KeepsToBoth, NEW r \in Run, TspaStep(r)
  PROVE  AtPositions' /\ KeepsToBoth'
<1>0. /\ Typed /\ DOMAIN context = Run /\ RunStep(r) /\ Layer(r)
      /\ dirty' = dirty /\ environment' = environment /\ Disturbs(Run \ {r})
      /\ dirty[r] \in BOOLEAN /\ failed \in [Run -> SUBSET Ofs]
  BY DEF EarnInv, ContextInv, TcrTyped, TspaStep, RunStep, Typed, BookTypes, RunTypes
<1>1. AtPositions'
  <2>1. ~Finished(r) /\ (Leave(r) \/ (Proceed(r) /\ (pc[r].step = 0 \/ InStep(r))))
    BY <1>0, GoesOrLeaves DEF RunStep, Background, InStep, EndScenario
  <2> QED BY <2>1, MovePositions
<1>2. KeepsRun(r)'
  <2> SUFFICES ASSUME ~disturbed'[r], NEW d \in BOOLEAN, d = dirty[r] PROVE KeepsRun(r)'
    BY <1>0 DEF KeepsRun
  <2> DEFINE mode == Mode(d)
             of == Feature[pc[r].scenario].of
  <2>1. /\ FitsAt(mode, r)
        /\ pc[r].step # 0 => context[r] \in Contexts(environment, pc[r])
        /\ \A c \in failed[r] : (d /\ c \in {"03.1", "03.2"}) \/ Lacks(environment, c)
    <3>1. ~disturbed[r] /\ KeepsRun(r)
      BY <1>0, DisturbsWhat, KeepsEach
    <3> QED BY <3>1 DEF KeepsRun
  <2>2. mode \in Modes /\ mode # "shared" /\ (mode = "dirty" => d)
    BY DEF Mode, Modes
  <2>3. /\ FitsAt(mode, r)'
        /\ \/ failed' = failed
           \/ Excused(mode, pc[r]) /\ failed' = [failed EXCEPT ![r] = @ \cup {of}]
    <3> HIDE DEF mode
    <3>1. /\ FitsAt(mode, r)'
          /\ \/ failed' = failed
             \/ Excused(mode, pc[r]) /\ failed' = [failed EXCEPT ![r] = @ \cup {of}]
      BY <1>0, <2>1, <2>2, OwnStepFits
    <3> QED BY <3>1
  <2>4. Excused(mode, pc[r]) => d /\ of \in {"03.1", "03.2"}
    BY <2>2 DEF Excused
  <2>5. \A c \in failed'[r] : (d /\ c \in {"03.1", "03.2"}) \/ Lacks(environment, c)
    <3> HIDE DEF mode, of
    <3>1. CASE failed' = failed
      BY <2>1, <3>1
    <3>2. CASE Excused(mode, pc[r]) /\ failed' = [failed EXCEPT ![r] = @ \cup {of}]
      BY <1>0, <2>1, <2>4, <3>2
    <3> QED BY <2>3, <3>1, <3>2
  <2>6. pc'[r].step # 0 => context'[r] \in Contexts(environment, pc'[r])
    BY <1>0, <2>1, TspaStepContext
  <2>7. (\A c \in failed[r] : (dirty[r] /\ c \in {"03.1", "03.2"}) \/ Lacks(environment, c))'
    BY <1>0, <2>5 DEF Lacks
  <2>8. FitsAt(Mode(dirty[r]), r)'
    BY <1>0, <2>3
  <2> QED BY <1>0, <2>6, <2>7, <2>8 DEF KeepsRun
<1>3. ASSUME NEW q \in Run \ {r} PROVE KeepsRun(q)'
  <2>1. Untouched(q) /\ context'[q] = context[q]
    BY <1>0, StepsAlone DEF Layer
  <2>2. ~disturbed'[q] => ~disturbed[q] /\ entry' = entry
    BY <1>0, DisturbsWhat
  <2> QED BY <1>0, <2>1, <2>2, KeepsEach, StaysOnBoth
<1>4. \A q \in Run : KeepsRun(q)'
  BY <1>2, <1>3
<1> QED BY <1>1, <1>4 DEF KeepsToBoth, KeepsRun

(* What the outline says of a step of the TCR's, at the place of a run.       *)
LEMMA AsksAlong ==
  ASSUME EarnInv, AtPositions, NEW r \in Run, InStep(r), Step(r).do \notin TspaSteps,
         context[r] \in Contexts(environment, pc[r])
  PROVE  LeadsAsking(r, environment, pc[r], context[r])
<1>1. /\ pc[r] \in Positions \ {End} /\ Stepping(pc[r]) /\ Step(r) = StepAt(pc[r])
      /\ environment \in Environments
  BY AtPosition DEF EarnInv, TcrTyped
<1> QED BY <1>1, ContextsAssumption

LEMMA MakesFits ==
  ASSUME EarnInv, AtPositions, NEW r \in Run, InStep(r), NEW mode \in {"clean", "dirty"},
         FitsAt(mode, r), LeadsAsking(r, environment, pc[r], context[r]), NEW c, Makes(r, c)
  PROVE  /\ FitsAt(mode, r)' /\ failed' = failed
         /\ context'[r] \in Contexts(environment, pc'[r])
<1> DEFINE k == pc[r]
           s == Step(r)
           o == Outline(mode, k)
           n == Outline(mode, On(k))
           answers == IF s.do # "ask server" THEN o.answer
                      ELSE IF IsGiven(s, context[r]) THEN ServerAnswers(s, context[r]) ELSE {}
<1>1. s = StepAt(k) /\ DOMAIN context = Run /\ DOMAIN response = Run
  BY AtPosition DEF EarnInv, ContextInv, TcrTyped, Typed, RunTypes
<1>2. pc'[r] = On(k) /\ failed' = failed /\ UNCHANGED <<entry, token, file>>
  BY ProceedGoesOn DEF Makes, Proceed
<1>3. context'[r] = c /\ c \in Contexts(environment, On(k))
  BY <1>1 DEF Makes, LeadsAsking
<1>4. Includes(n, Finds(o.found, o.token, o.file, answers))
  BY <1>1 DEF LeadsAsking
<1>5. Fits(o, entry, token[r], file[r], response[r])
  BY DEF FitsAt
<1> HIDE DEF s, o, n
<1>6. response'[r] \in answers
  <2>1. CASE response' = response /\ s.do # "ask server"
    BY <1>5, <2>1 DEF Fits
  <2>2. CASE \E a : AnswersAs(s, context[r], a) /\ response' = [response EXCEPT ![r] = a]
    <3>1. PICK a : AnswersAs(s, context[r], a) /\ response' = [response EXCEPT ![r] = a]
      BY <2>2
    <3>2. a \in answers
      BY <3>1 DEF AnswersAs
    <3> QED BY <1>1, <3>1, <3>2
  <2> QED BY <2>1, <2>2 DEF Makes, s
<1> HIDE DEF answers
<1>7. Fits(Finds(o.found, o.token, o.file, answers), entry', token'[r], file'[r], response'[r])
  BY <1>2, <1>5, <1>6 DEF Fits, Finds
<1>8. Fits(n, entry', token'[r], file'[r], response'[r])
  BY <1>4, <1>7, FitsIncluded
<1> QED BY <1>2, <1>3, <1>8 DEF FitsAt, n

LEMMA FailsSoFits ==
  ASSUME EarnInv, AtPositions, NEW r \in Run, InStep(r), NEW mode \in {"clean", "dirty"},
         FitsAt(mode, r), LeadsAsking(r, environment, pc[r], context[r]), FailsSo(r)
  PROVE  /\ FitsAt(mode, r)' /\ pc'[r].step = 0
         /\ Lacks(environment, Current(r).of)
         /\ failed' = [failed EXCEPT ![r] = @ \cup {Current(r).of}]
<1>1. /\ Typed /\ ~Finished(r) /\ Leave(r)
      /\ failed' = [failed EXCEPT ![r] = @ \cup {Current(r).of}]
  BY DEF EarnInv, TcrTyped, InStep, FailsSo, FailsTcr, Fails
<1>2. /\ Step(r) = StepAt(pc[r]) /\ Current(r) = Feature[pc[r].scenario]
      /\ mode \in Modes
  BY AtPosition DEF Modes
<1>3. ContextFails(r, environment, StepAt(pc[r]), context[r])
  BY <1>2 DEF FailsSo
<1>4. Lacks(environment, Current(r).of)
  BY <1>2, <1>3 DEF LeadsAsking
<1>5. Includes(Outline(mode, Off(pc[r])), Skipped(Outline(mode, pc[r])))
  BY <1>3 DEF LeadsAsking
<1>6. FitsAt(mode, r)' /\ pc'[r] = Off(pc[r])
  BY <1>1, <1>2, <1>5, LeavesFits
<1>7. Off(pc[r]).step = 0
  BY DEF Off
<1> QED BY <1>1, <1>4, <1>6, <1>7

(* What a step of the TCR's, passing or not, leaves of the other runs.        *)
LEMMA TcrLeavesOthers ==
  ASSUME EarnInv, NEW r \in Run, FailsTcr(r) \/ \E c, a : MovesOn(r, c, a),
         NEW q \in Run \ {r}
  PROVE  Untouched(q) /\ context'[q] = context[q] /\ entry' = entry
<1>1. Typed /\ DOMAIN context = Run
  BY DEF EarnInv, ContextInv, TcrTyped
<1>2. CASE FailsTcr(r)
  BY <1>1, <1>2, LeavesOthers DEF FailsTcr, Layer, Fails, Leave
<1>3. CASE \E c, a : MovesOn(r, c, a)
  BY <1>1, <1>3 DEF MovesOn, Proceed, Untouched, Typed, RunTypes
<1> QED BY <1>2, <1>3

LEMMA TcrPositions ==
  ASSUME AtPositions, NEW r \in Run, InStep(r), FailsTcr(r) \/ \E c, a : MovesOn(r, c, a)
  PROVE  AtPositions'
<1>1. Leave(r) \/ Proceed(r)
  BY DEF FailsTcr, Fails, MovesOn
<1> QED BY <1>1, MovePositions DEF InStep

LEMMA TcrStepKeeps ==
  ASSUME EarnInv, AtPositions, KeepsToBoth, NEW r \in Run, TcrStep(r)
  PROVE  AtPositions' /\ KeepsToBoth'
<1>0. /\ InStep(r) /\ ~Finished(r) /\ Step(r).do \notin TspaSteps /\ pc[r].step # 0
      /\ UNCHANGED <<dirty, disturbed, environment>>
      /\ dirty[r] \in BOOLEAN /\ failed \in [Run -> SUBSET Ofs]
  <2>1. InStep(r) /\ ~Finished(r) /\ Step(r).do \notin TspaSteps
    BY TcrStepKind
  <2>2. pc[r] \in Positions /\ pc[r] # End /\ Stepping(pc[r])
    BY <2>1, AtPosition
  <2>3. pc[r].step # 0
    BY <2>2, NotOver
  <2> QED BY <2>1, <2>3 DEF TcrStep, EarnInv, TcrTyped, Typed, BookTypes, RunTypes
<1>1. FailsTcr(r) \/ \E c, a : MovesOn(r, c, a)
  BY TcrMoves
<1>2. KeepsRun(r)'
  <2> SUFFICES ASSUME ~disturbed'[r], NEW d \in BOOLEAN, d = dirty[r] PROVE KeepsRun(r)'
    BY <1>0 DEF KeepsRun
  <2> DEFINE mode == Mode(d)
  <2>1. /\ FitsAt(mode, r) /\ context[r] \in Contexts(environment, pc[r])
        /\ \A c \in failed[r] : (d /\ c \in {"03.1", "03.2"}) \/ Lacks(environment, c)
    <3>1. ~disturbed[r] /\ KeepsRun(r)
      BY <1>0, KeepsEach
    <3> QED BY <1>0, <3>1 DEF KeepsRun
  <2>2. mode \in {"clean", "dirty"}
    BY DEF Mode
  <2>3. LeadsAsking(r, environment, pc[r], context[r])
    BY <1>0, <2>1, AsksAlong
  <2>4. Step(r).do \in {"ask server", "ask client", "may fail"} => Provisioned
    <3> SUFFICES ASSUME Step(r).do \in {"ask server", "ask client", "may fail"} PROVE Provisioned
      OBVIOUS
    <3>1. Step(r) = StepAt(pc[r])
      BY AtPosition
    <3> HIDE DEF mode
    <3>2. Provides(Outline(mode, pc[r]))
      BY <2>2, <2>3, <3>1 DEF LeadsAsking
    <3> QED BY <2>1, <3>2, ProvidedIsProvisioned DEF FitsAt
  <2>5. FailsSo(r) \/ \E c : Makes(r, c)
    BY <2>4, TcrStepOutline
  <2>6. CASE FailsSo(r)
    <3> HIDE DEF mode
    <3>1. /\ FitsAt(mode, r)' /\ pc'[r].step = 0
          /\ Lacks(environment, Current(r).of)
          /\ failed' = [failed EXCEPT ![r] = @ \cup {Current(r).of}]
      BY <1>0, <2>1, <2>2, <2>3, <2>6, FailsSoFits
    <3>2. \A c \in failed'[r] : (d /\ c \in {"03.1", "03.2"}) \/ Lacks(environment, c)
      BY <1>0, <2>1, <3>1
    <3>3. (\A c \in failed[r] : (dirty[r] /\ c \in {"03.1", "03.2"}) \/ Lacks(environment, c))'
      BY <1>0, <3>2 DEF Lacks
    <3>4. FitsAt(Mode(dirty[r]), r)'
      BY <1>0, <3>1 DEF mode
    <3> QED BY <3>1, <3>3, <3>4 DEF KeepsRun
  <2>7. CASE \E c : Makes(r, c)
    <3>1. PICK c : Makes(r, c)
      BY <2>7
    <3> HIDE DEF mode
    <3>2. /\ FitsAt(mode, r)' /\ failed' = failed
          /\ context'[r] \in Contexts(environment, pc'[r])
      BY <1>0, <2>1, <2>2, <2>3, <3>1, MakesFits
    <3>3. (\A x \in failed[r] : (dirty[r] /\ x \in {"03.1", "03.2"}) \/ Lacks(environment, x))'
      BY <1>0, <2>1, <3>2 DEF Lacks
    <3>4. FitsAt(Mode(dirty[r]), r)'
      BY <1>0, <3>2 DEF mode
    <3>5. (context[r] \in Contexts(environment, pc[r]))'
      BY <1>0, <3>2
    <3> QED BY <3>3, <3>4, <3>5 DEF KeepsRun
  <2> QED BY <2>5, <2>6, <2>7
<1>3. ASSUME NEW q \in Run \ {r} PROVE KeepsRun(q)'
  BY <1>0, <1>1, TcrLeavesOthers, KeepsEach, StaysOnBoth
<1>4. \A q \in Run : KeepsRun(q)'
  BY <1>2, <1>3
<1> QED BY <1>0, <1>1, <1>4, TcrPositions DEF KeepsToBoth, KeepsRun

(* A fault disturbs the run it hits, and touches no other.                   *)
LEMMA FaultKeepsBoth ==
  ASSUME EarnInv, KeepsToBoth, NEW r \in Run, Fault(r), entry' = entry, environment' = environment,
         \A q \in Run \ {r} : Untouched(q) /\ context'[q] = context[q]
  PROVE  KeepsToBoth'
<1>1. disturbed' = [disturbed EXCEPT ![r] = TRUE] /\ dirty' = dirty /\ DOMAIN disturbed = Run
  BY DEF Fault, EarnInv, TcrTyped, Typed, BookTypes
<1>2. KeepsRun(r)'
  BY <1>1 DEF KeepsRun
<1>3. ASSUME NEW q \in Run \ {r} PROVE KeepsRun(q)'
  BY <1>1, KeepsEach, StaysOnBoth
<1>4. \A q \in Run : KeepsRun(q)'
  BY <1>2, <1>3
<1> QED BY <1>4 DEF KeepsToBoth, KeepsRun

LEMMA TspaFaultKeeps ==
  ASSUME EarnInv, AtPositions, KeepsToBoth, NEW r \in Run, TspaFault(r)
  PROVE  AtPositions' /\ KeepsToBoth'
<1>1. /\ Fault(r) /\ ~Finished(r) /\ Layer(r) /\ environment' = environment
      /\ Typed /\ DOMAIN context = Run
  BY DEF TspaFault, NotUp, TimesOut, TokenLost, Fault, EarnInv, ContextInv, TcrTyped
<1>2. \A q \in Run \ {r} : context'[q] = context[q]
  BY <1>1 DEF Layer
<1>3. CASE Fails(r)
  <2>1. entry' = entry /\ \A q \in Run \ {r} : Untouched(q)
    BY <1>1, <1>3, LeavesOthers DEF Fails, Leave
  <2>2. AtPositions'
    BY <1>1, <1>3, MovePositions DEF Fails
  <2> QED BY <1>1, <1>2, <2>1, <2>2, FaultKeepsBoth
<1>4. CASE TokenLost(r)
  <2>1. /\ UNCHANGED <<entry, pc, response, failed>>
        /\ \E f : file' = [file EXCEPT ![r] = f]
        /\ token' = token \/ \E t : token' = [token EXCEPT ![r] = t]
    BY <1>4 DEF TokenLost
  <2>2. \A q \in Run \ {r} : Untouched(q)
    BY <1>1, <2>1 DEF Untouched, Typed, RunTypes
  <2>3. AtPositions'
    BY <2>1 DEF AtPositions
  <2> QED BY <1>1, <1>2, <2>1, <2>2, <2>3, FaultKeepsBoth
<1> QED BY <1>3, <1>4 DEF TspaFault, NotUp, TimesOut

LEMMA TcrFaultKeeps ==
  ASSUME EarnInv, AtPositions, KeepsToBoth, NEW r \in Run, TcrFault(r)
  PROVE  AtPositions' /\ KeepsToBoth'
<1>1. Fault(r) /\ InStep(r) /\ environment' = environment
  BY DEF TcrFault
<1>2. FailsTcr(r) \/ \E c, a : MovesOn(r, c, a)
  BY AskMoves DEF TcrFault
<1>3. entry' = entry
  BY <1>2 DEF FailsTcr, Fails, Leave, MovesOn
<1>4. \A q \in Run \ {r} : Untouched(q) /\ context'[q] = context[q]
  BY <1>2, TcrLeavesOthers
<1> QED BY <1>1, <1>2, <1>3, <1>4, TcrPositions, FaultKeepsBoth

(* A change by nobody's step disturbs every run.                             *)
LEMMA ElsewhereKeeps ==
  ASSUME EarnInv, AtPositions, KeepsToBoth, Elsewhere
  PROVE  AtPositions' /\ KeepsToBoth'
<1>1. /\ UNCHANGED <<runVars, dirty, environment, context>> /\ Disturbs(Run)
      /\ Typed
  BY DEF Elsewhere, LateLands, CleanAllElsewhere, EarnInv, TcrTyped
<1>2. AtPositions'
  BY <1>1 DEF AtPositions, runVars
<1>3. ASSUME NEW q \in Run PROVE KeepsRun(q)'
  <2>1. Untouched(q) /\ context'[q] = context[q]
    BY <1>1 DEF Untouched, runVars
  <2>2. ~disturbed'[q] => ~disturbed[q] /\ entry' = entry
    BY <1>1, DisturbsWhat
  <2> QED BY <1>1, <2>1, <2>2, KeepsEach, StaysOnBoth
<1>4. \A q \in Run : KeepsRun(q)'
  BY <1>3
<1> QED BY <1>2, <1>4 DEF KeepsToBoth, KeepsRun

LEMMA NextKeepsBoth ==
  ASSUME EarnInv, TcrOutlineInv, [TcrNext]_tcrVars
  PROVE  TcrOutlineInv'
<1>1. AtPositions /\ KeepsToBoth
  BY DEF TcrOutlineInv
<1>2. ASSUME NEW r \in Run, TspaStep(r) \/ TcrStep(r) \/ TspaFault(r) \/ TcrFault(r)
      PROVE  AtPositions' /\ KeepsToBoth'
  BY <1>1, <1>2, TspaStepKeeps, TcrStepKeeps, TspaFaultKeeps, TcrFaultKeeps
<1>3. CASE Elsewhere
  BY <1>1, <1>3, ElsewhereKeeps DEF TcrOutlineInv
<1>4. CASE UNCHANGED tcrVars
  BY <1>1, <1>4 DEF tcrVars, vars, runVars, TcrOutlineInv, AtPositions, KeepsToBoth, FitsAt, Lacks
<1> QED BY <1>2, <1>3, <1>4 DEF TcrNext, TcrStop, TcrOutlineInv

LEMMA InitKeepsBoth == TcrInit => TcrOutlineInv
<1> SUFFICES ASSUME TcrInit PROVE TcrOutlineInv
  OBVIOUS
<1>1. AtPositions
  BY StartIsPosition DEF TcrInit, Init, AtPositions
<1>2. ASSUME NEW r \in Run PROVE KeepsRun(r)
  <2>1. Init /\ failed[r] = {} /\ dirty[r] = Dirty(entry) /\ pc[r].step = 0
    BY DEF TcrInit, Init, Start
  <2> QED BY <2>1, InitFits DEF KeepsRun
<1> QED BY <1>1, <1>2, KeepsEach DEF TcrOutlineInv

-----------------------------------------------------------------------------
(* Every run that nobody disturbs, whatever it started with and whichever      *)
(* clients its environment has, finds in the TSPA and has in its context what *)
(* the outlines say (src/steps/tspa.py, resolver_on_client.py,                *)
(* resolver_on_server.py, tcr_validation.py).                               *)
THEOREM TcrOutlineKept == TcrSpec => []TcrOutlineInv
<1>1. TcrInit => EarnInv /\ TcrOutlineInv
  BY InitEarn, InitKeepsBoth
<1>2. EarnInv /\ TcrOutlineInv /\ [TcrNext]_tcrVars => (EarnInv /\ TcrOutlineInv)'
  BY NextEarn, NextKeepsBoth
<1> QED BY <1>1, <1>2, PTL DEF TcrSpec

(* No scenario of features 04.0 to 05 fails but for a fault, a change by       *)
(* someone else, or a client for which the environment has no runner: what    *)
(* the provisioning finds in the TSPA never makes the TCR's steps fail        *)
(* (src/src/eu/xfsc/bdd/train/components/tcr/client, src/steps).             *)
THEOREM TcrFailuresExplained == TcrSpec => []TcrFailureExplained
<1>1. TcrOutlineInv => TcrFailureExplained
  <2> SUFFICES ASSUME TcrOutlineInv, NEW r \in Run, NEW c \in Clients \cup {"server", "04.0"},
                      c \in failed[r], ~disturbed[r]
               PROVE  c \in Clients /\ Runner(c, environment[c]) = "none"
    BY DEF TcrFailureExplained
  <2>1. c \in {"03.1", "03.2"} \/ Lacks(environment, c)
    BY DEF TcrOutlineInv, KeepsToBoth
  <2>2. c \notin {"03.1", "03.2"}
    BY DEF Clients
  <2> QED BY <2>1, <2>2 DEF Lacks
<1> QED BY <1>1, TcrOutlineKept, PTL
=============================================================================
