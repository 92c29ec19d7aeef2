----------------------------- MODULE TcrFeature -----------------------------
(***************************************************************************)
(* "make run_tcr_bdd_dev": a run provisions the TCR's test data in the TSPA   *)
(* (TspaFeature) and then asks the TCR, directly and through its clients,    *)
(* with the steps of src/steps/resolver_on_client.py, resolver_on_server.py  *)
(* and tcr_validation.py.                                                  *)
(***************************************************************************)
EXTENDS TspaFeature, TcrClients

CONSTANT Environments   \* what the environment variables may say of the clients

ASSUME EnvironmentsAssumption == Environments \subseteq [Clients -> Setting]

VARIABLES
  environment,  \* the variables of env.py
  context,      \* context[r]: the scenario's context as far as the TCR steps use it
  judged        \* history: the resolve scenario a run judged last, or is judging

tcrVars == <<vars, environment, context, judged>>

(* What the steps of ResolveVerdict say of a response, and the specification *)
(* a run's resolve scenarios implement.                                    *)
DiscoveryPointers == {"alice", "gxfs", "sausweis3", "sausweis4"}
Verdict(r) == INSTANCE ResolveVerdict WITH
  Pointer    <- DiscoveryPointers,
  Did        <- {"did:web"},
  MaxEntries <- 2,
  scenario <- judged[r].scenario, asked <- judged[r].asked,
  response <- judged[r].response, at <- judged[r].at, verdict <- judged[r].verdict

(* The Given steps of a scenario that keep an input, its steps that ask.     *)
GivenSteps(s) == {i \in DOMAIN s.steps : s.steps[i].do = "input"}
AskSteps(s)   == {i \in DOMAIN s.steps :
               s.steps[i].do \in {"ask server", "ask client", "may fail"}}

(* What a scenario says to a client has no quote in it.                      *)
Plain(s) ==
  \A i \in AskSteps(s), j \in GivenSteps(s) :
    s.steps[i].do # "ask server" => Said(s.steps[j].name, s.steps[j].value) \cap Quoted = {}

(* A scenario gives an input once, before it asks, and none that its          *)
(* question does not have; its clients are those there are.                  *)
WellFormed(s) ==
  /\ Len(s.steps) \in Nat /\ DOMAIN s.steps = 1 .. Len(s.steps)
  /\ \A i \in DOMAIN s.steps : s.steps[i].do = "installed" => s.steps[i].client \in Clients
  /\ \A i \in GivenSteps(s) : s.steps[i].name \in ResolveInputs \cup ValidateInputs
  /\ \A i, j \in GivenSteps(s) : s.steps[i].name = s.steps[j].name => i = j
  /\ \A i \in AskSteps(s) :
       /\ s.steps[i].op \in {"resolve", "validate"}
       /\ \A j \in GivenSteps(s) : j < i /\ s.steps[j].name \in Names(s.steps[i].op)
  /\ Plain(s)

(* A discovery is a scenario whose pointers are resolved by a client.  Up to   *)
(* "resolved response is valid" it gives inputs and asks, then it judges by   *)
(* the Then steps of its kind, and by nothing else.                         *)
IsDiscovery(s) == \E i \in GivenSteps(s) : s.steps[i].name = "pointers" /\ s.kind # "direct"
Judging == {"response is valid", "resolved with a DID", "has a TL", "has no TL", "no DID"}
ValidAt(r, s) == Len(s.steps) - Len(Verdict(r)!Then[s.kind])

DiscoveryFormed(r, s) ==
  LET n == ValidAt(r, s)
      thens == Verdict(r)!Then[s.kind]
  IN  /\ s.kind \in Verdict(r)!Scenarios
      /\ n \in DOMAIN s.steps
      /\ s.steps[n].do = "then" /\ s.steps[n].what = "response is valid"
      /\ \A i \in 1 .. n - 1 :
           /\ s.steps[i].do \in {"installed", "unchecked", "input", "ask client"}
           /\ s.steps[i].do = "input" /\ s.steps[i].name = "pointers" =>
                s.steps[i].value \in (SUBSET DiscoveryPointers) \ {{}}
      /\ \A k \in DOMAIN thens :
           s.steps[n + k].do = "then" /\ s.steps[n + k].what = thens[k]

JudgesInOrder(r, s) ==
  IF IsDiscovery(s) THEN DiscoveryFormed(r, s)
  ELSE \A i \in DOMAIN s.steps : s.steps[i].do = "then" => s.steps[i].what \notin Judging

(* A scenario of the TCR ends with what it expects of the last answer.        *)
Anew == {"send", "ask server", "ask client", "may fail"}
Concludes(s) ==
  \E i, j \in DOMAIN s.steps :
    LET ask == s.steps[i].do
        then == s.steps[j]
    IN  /\ i < j /\ \A k \in DOMAIN s.steps : i < k => s.steps[k].do \notin Anew
        /\ CASE s.kind = "direct" -> ask = "ask server" /\ then.do = "status" /\ then.code = 200
             [] s.kind = "not verified" ->
                  /\ ask = "may fail" /\ then.do = "matches"
                  /\ s.of \in Clients /\ then.text = Complaint[s.of].kind
             [] s.kind = "verified" ->
                  ask = "ask client" /\ then.do = "then" /\ then.what = "did is verified"
             [] OTHER ->
                  ask = "ask client" /\ then.do = "then" /\ then.what = "response is valid"

ASSUME ScriptAssumption ==
  \A i \in 1 .. Len(Feature) :
    /\ WellFormed(Feature[i]) /\ \A r \in Run : JudgesInOrder(r, Feature[i])
    /\ "kind" \in DOMAIN Feature[i] => Concludes(Feature[i])

NoContext == [client |-> "none", given |-> [n \in {} |-> {}], asked |-> NoQuestion,
              outcome |-> Success(Text("nothing")), response_str |-> Text("nothing"),
              valid |-> FALSE]
NothingJudged == [scenario |-> "succeed", asked |-> {}, response |-> NoDoc, at |-> 1,
                  verdict |-> "idle"]

IsTcr(r)    == "kind" \in DOMAIN Current(r)
Resolving(r) == judged[r].verdict \in {"resolving", "checking"}

TcrTypeOK ==
  /\ TypeOK
  /\ environment \in Environments
  /\ \A r \in Run :
       /\ context[r].client \in Clients \cup {"none"}
       /\ DOMAIN context[r].given \subseteq ResolveInputs \cup ValidateInputs
       /\ context[r].outcome.code \in {0, 1}
       /\ context[r].valid \in BOOLEAN
       /\ pc[r].step = 0 => context[r] = NoContext /\ ~Resolving(r)
       /\ Verdict(r)!TypeOK

TcrInit ==
  /\ Init
  /\ environment \in Environments
  /\ context = [r \in Run |-> NoContext]
  /\ judged = [r \in Run |-> NothingJudged]

-----------------------------------------------------------------------------
(* The Background leaves no endpoint types as a default.                    *)
Defaults == [NoContext EXCEPT !.given = [n \in {"endpointTypes"} |-> {}]]

(* The context layer of a scenario: there from its Background to its end.    *)
Layer_NoDefaults(r) ==   \* mutant: the Background sets no default
  context' = [context EXCEPT ![r] = IF pc'[r].step = 0 THEN NoContext ELSE @]
Layer_Kept(r) ==   \* mutant: a failure leaves the layer where it is
  context' = [context EXCEPT ![r] = IF pc[r].step = 0 /\ IsTcr(r) THEN Defaults ELSE @]
Layer(r) ==
  context' = [context EXCEPT ![r] =
                IF pc'[r].step = 0 THEN NoContext
                ELSE IF pc[r].step = 0 /\ IsTcr(r) THEN Defaults ELSE @]

Note(r, verdict) == judged' = [judged EXCEPT ![r].verdict = verdict]

(* A step passes, with this in the context, or fails the scenario.          *)
Passes(r, c) ==
  /\ Proceed(r)
  /\ context' = [context EXCEPT ![r] = c]
  /\ UNCHANGED <<entry, token, file, response>>

FailsTcr(r) ==
  /\ Fails(r) /\ Layer(r)
  /\ IF Resolving(r) THEN Note(r, "failed") ELSE UNCHANGED judged

(* Given <client> installed: what is checked is the TCR's health; the runner *)
(* is looked for when the client is first used.                            *)
AddClient(r) ==
  /\ Step(r).do = "installed"
  /\ Passes(r, [context[r] EXCEPT !.client = Step(r).client])
  /\ UNCHANGED judged

(* Default DNS configured in TCR, pointers are `...` in DNS.                *)
ChecksNothing(r) ==
  /\ Step(r).do = "unchecked"
  /\ Passes(r, context[r]) /\ UNCHANGED judged

With(in, name, value) ==
  [n \in DOMAIN in \cup {name} |-> IF n = name THEN value ELSE in[n]]

(* The Given steps that keep an input.                                     *)
AddInput(r) ==
  LET s == Step(r)
  IN  /\ s.do = "input"
      /\ Passes(r, [context[r] EXCEPT !.given = With(context[r].given, s.name, s.value)])
      /\ judged' = IF s.name = "pointers" /\ Current(r).kind # "direct"
                   THEN [judged EXCEPT ![r] =
                          [scenario |-> Current(r).kind, asked |-> s.value,
                           response |-> NoDoc, at |-> 1, verdict |-> "resolving"]]
                   ELSE judged

-----------------------------------------------------------------------------
(* What comes back: what the features expect, when the TCR finds the data    *)
(* they are about, else anything.                                          *)
Provisioned == entry["alice"] = TestData["alice"] /\ entry["bob"].list = "none"
Outcomes(c, q, faulty) ==
  IF ~faulty /\ (Provisioned \/ q.pointers # {"alice"}) THEN Expected(c, q)
  ELSE AnyOutcome

HasInputs(r) == Names(Step(r).op) \subseteq DOMAIN context[r].given

(* When resolve, validate with the server.                                 *)
AskTheServer(r, faulty) ==
  LET q == ServerAsks(Step(r).op, context[r].given)
  IN  /\ Step(r).do = "ask server"
      /\ IF ~HasInputs(r) THEN FailsTcr(r)
         ELSE /\ Proceed(r)
              /\ context' = [context EXCEPT ![r].asked = q]
              /\ \E o \in Outcomes("server", q, faulty) :
                   response' = [response EXCEPT ![r] =
                     [status  |-> IF o.code = 0 THEN 200 ELSE 500,
                      message |-> IF o \in Expected("server", q) /\ q.op = "resolve"
                                  THEN "alice resolved" ELSE "other"]]
              /\ UNCHANGED <<entry, token, file, judged>>

(* The command of a client, which is not made without the inputs and a       *)
(* runner, and the text taken from its execution.                          *)
Runnable(r) ==
  /\ HasInputs(r) /\ context[r].client # "none"
  /\ Runner(context[r].client, environment[context[r].client]) # "none"
Command(r) == ClientAsks(context[r].client, Step(r).op, context[r].given)
Takes(r, o, text) ==
  /\ Passes(r, [context[r] EXCEPT !.asked = Command(r), !.outcome = o, !.response_str = text])
  /\ UNCHANGED judged

AskTheClient_Unasserted(r, faulty) ==   \* mutant: whatever the exit code
  /\ Step(r).do = "ask client"
  /\ IF ~Runnable(r) THEN FailsTcr(r)
     ELSE \E o \in Outcomes(context[r].client, Command(r), faulty) : Takes(r, o, o.stdout)
AskTheClient_Retries(r, faulty) ==      \* mutant: a failed command is run again
  /\ Step(r).do = "ask client"
  /\ IF ~Runnable(r) THEN UNCHANGED <<pc, failed, entry, token, file, response, context, judged>>
     ELSE \E o \in Outcomes(context[r].client, Command(r), faulty) :
       IF o.code = 0 THEN Takes(r, o, o.stdout) ELSE FailsTcr(r)

(* When resolve, validate with the client: bash_success asserts the code.    *)
AskTheClient(r, faulty) ==
  /\ Step(r).do = "ask client"
  /\ IF ~Runnable(r) THEN FailsTcr(r)
     ELSE \E o \in Outcomes(context[r].client, Command(r), faulty) :
       IF o.code = 0 THEN Takes(r, o, o.stdout) ELSE FailsTcr(r)

MayFailValidate_Stdout(r, faulty) ==    \* mutant: the output whatever the exit code
  /\ Step(r).do = "may fail"
  /\ IF ~Runnable(r) THEN FailsTcr(r)
     ELSE \E o \in Outcomes(context[r].client, Command(r), faulty) : Takes(r, o, o.stdout)
(* When may fail validate with the client.                                 *)
MayFailValidate(r, faulty) ==
  /\ Step(r).do = "may fail"
  /\ IF ~Runnable(r) THEN FailsTcr(r)
     ELSE \E o \in Outcomes(context[r].client, Command(r), faulty) :
       Takes(r, o, IF o.code = 0 THEN o.stdout ELSE o.stderr)

AskTcr(r, faulty) ==
  AskTheServer(r, faulty) \/ AskTheClient(r, faulty) \/ MayFailValidate(r, faulty)

-----------------------------------------------------------------------------
(* The Then steps.                                                         *)

Asserts(r, condition, c) ==
  IF condition THEN Passes(r, c) /\ UNCHANGED judged ELSE FailsTcr(r)

(* resolved response is valid.                                             *)
ResponseIsValid(r) ==
  /\ Step(r).do = "then" /\ Step(r).what = "response is valid"
  /\ IF context[r].response_str.kind = "resolved"
     THEN /\ Passes(r, [context[r] EXCEPT !.valid = TRUE])
          /\ judged' = [judged EXCEPT ![r].response = context[r].response_str.response,
                                      ![r].verdict = "checking"]
     ELSE FailsTcr(r)

(* The steps of ResolveVerdict, on context.resolve_response.                *)
ResolveThen_Skips(r) ==   \* mutant: a judgement that fails is not an error
  /\ Step(r).do = "then" /\ Step(r).what \in {"resolved with a DID", "has a TL", "has no TL", "no DID"}
  /\ Passes(r, context[r])
  /\ judged' = [judged EXCEPT ![r].at = @ + 1,
                  ![r].verdict = IF pc[r].step = Len(Current(r).steps) THEN "passed" ELSE @]
ResolveThen(r) ==
  /\ Step(r).do = "then" /\ Step(r).what \in {"resolved with a DID", "has a TL", "has no TL", "no DID"}
  /\ IF context[r].valid /\ Verdict(r)!Holds(Step(r).what, context[r].response_str.response)
     THEN /\ Passes(r, context[r])
          /\ judged' = [judged EXCEPT ![r].at = @ + 1,
                          ![r].verdict = IF pc[r].step = Len(Current(r).steps)
                                         THEN "passed" ELSE @]
     ELSE FailsTcr(r)

(* validation response is valid.                                           *)
ValidationIsValid(r) ==
  /\ Step(r).do = "then" /\ Step(r).what = "validation is valid"
  /\ Asserts(r, context[r].response_str.kind \in {"verified", "not verified"},
             [context[r] EXCEPT !.valid = TRUE])

(* DID is Verified.                                                        *)
DidIsVerified(r) ==
  /\ Step(r).do = "then" /\ Step(r).what = "did is verified"
  /\ Asserts(r, context[r].valid /\ context[r].response_str.kind = "verified", context[r])

(* validation response content exact match regexp.                         *)
ContentMatches(r) ==
  /\ Step(r).do = "matches"
  /\ Asserts(r, context[r].response_str.kind = Step(r).text, context[r])

TcrStep(r) ==
  /\ InStep(r)
  /\ \/ AddClient(r) \/ ChecksNothing(r) \/ AddInput(r) \/ AskTcr(r, FALSE)
     \/ ResponseIsValid(r) \/ ResolveThen(r) \/ ValidationIsValid(r)
     \/ DidIsVerified(r) \/ ContentMatches(r)
  /\ UNCHANGED <<late, faults, dirty, disturbed, environment>>

TspaStep(r) == RunStep(r) /\ Layer(r) /\ UNCHANGED <<environment, judged>>

-----------------------------------------------------------------------------
(* Faults: those of TspaFeature; the TCR is not up when a client is added;   *)
(* and whatever goes wrong with a request to the TCR or with a client.       *)
TspaFault(r) ==
  /\ NotUp(r) \/ TimesOut(r) \/ TokenLost(r)
  /\ Layer(r) /\ UNCHANGED <<environment, judged>>

TcrFault(r) ==
  /\ Fault(r) /\ InStep(r)
  /\ \/ Step(r).do \in {"installed", "ask server"} /\ FailsTcr(r)
     \/ AskTcr(r, TRUE)
  /\ UNCHANGED <<late, environment>>

Elsewhere == (LateLands \/ CleanAllElsewhere) /\ UNCHANGED <<environment, context, judged>>

TcrStop == AllFinished /\ UNCHANGED tcrVars

TcrNext ==
  \/ \E r \in Run : TspaStep(r) \/ TcrStep(r) \/ TspaFault(r) \/ TcrFault(r)
  \/ Elsewhere \/ TcrStop

(* A command runs until the client exits: bash.bash sets it no time limit.   *)
WaitsForClient(r) ==
  InStep(r) /\ Step(r).do \in {"ask client", "may fail"} /\ Runnable(r)

(* behave goes on with the next step: each REST request is answered or times *)
(* out.  Of a client's command nothing is assumed, it need not return.       *)
TcrFairness ==
  \A r \in Run : WF_tcrVars(~WaitsForClient(r) /\ (TspaStep(r) \/ TcrStep(r)))

TcrSpec == TcrInit /\ [][TcrNext]_tcrVars /\ TcrFairness

-----------------------------------------------------------------------------
(* A scenario of 04.1, 04.2 or 05 fails only if a fault hit the run, someone  *)
(* else changed the TSPA during it, or the environment has no runner for the  *)
(* client that asks: what earlier runs left does not matter, 04.0 sees to it. *)
TcrFailureExplained ==
  \A r \in Run, c \in Clients \cup {"server", "04.0"} :
    c \in failed[r] =>
      disturbed[r] \/ (c \in Clients /\ Runner(c, environment[c]) = "none")

(* The TCR is asked with the inputs of this scenario's Given steps, all of    *)
(* them and none of an earlier scenario, whichever client carries them; no    *)
(* endpoint types are asked for where a scenario gives none.                *)
GivenBy(r, name, default) ==
  LET S == {i \in GivenSteps(Current(r)) : Current(r).steps[i].name = name}
  IN  IF S = {} THEN default ELSE Current(r).steps[CHOOSE i \in S : TRUE].value
AsksWhatWasGiven ==
  \A r \in Run : context[r].asked # NoQuestion =>
    context[r].asked = Question(context[r].asked.op, GivenBy(r, "issuer", "none"),
      GivenBy(r, "pointers", {}), GivenBy(r, "endpointTypes", {}),
      GivenBy(r, "did", "none"), GivenBy(r, "endpoints", {}))

(* A scenario passes only for an answer it got itself, judged in the text    *)
(* that the exit code selects: a resolve or validate asserts the exit code 0;  *)
(* a "may fail" takes its client's complaint from stderr, or from stdout of a  *)
(* client that exits 0, which the steps do not tell from one that failed       *)
(* (tcr_validation.py, lines 65-67; feature 05, lines 89-92).                *)
PassIsEarned ==
  [][\A r \in Run :
       LET o == context[r].outcome
       IN  (~Finished(r) /\ IsTcr(r) /\ pc[r].step > Len(Current(r).steps) /\ pc'[r] # pc[r]) =>
             /\ context[r].asked # NoQuestion
             /\ CASE Current(r).kind = "direct" -> response[r].status = 200
                  [] Current(r).kind = "not verified" ->
                       (IF o.code = 0 THEN o.stdout ELSE o.stderr).kind
                         = Complaint[Current(r).of].kind
                  [] Current(r).kind = "verified" -> o.code = 0 /\ o.stdout.kind = "verified"
                  [] OTHER -> o.code = 0 /\ o.stdout.kind = "resolved"]_tcrVars

(* The resolve scenarios of a run, over all the other steps, faults and       *)
(* failures, are a behaviour of ResolveVerdict: judged one after the other,    *)
(* each by its own answer, by its Then steps in order.                     *)
JudgesAsSpecified ==
  /\ \A r \in Run : Verdict(r)!Init
  /\ [][\A r \in Run : [Verdict(r)!Next]_(Verdict(r)!vars)]_tcrVars

(* A run comes to its end, through failures, faults and changes elsewhere, or *)
(* waits for ever for one client: nothing else holds it up.                  *)
EndsUnlessAClientHangs == \A r \in Run : <>[](Finished(r) \/ WaitsForClient(r))
=============================================================================
