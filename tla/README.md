# A verification project for the TRAIN integration tests

The repository is a test harness: Gherkin features run by
[behave](https://behave.readthedocs.io), whose steps drive the TRAIN services
(DNS Zone Manager, TSPA, Trusted Content Resolver, Keycloak) over HTTP and
through command line clients. Its own logic is small and its hard part is the
state it shares: one zone server used by several test environments, one token
file per checkout, scenarios that depend on what earlier ones left in the
server, loops over answers that are old by the time they are used. That is
what is modelled here. The services are other repositories; they appear as what
the steps and features say of them.

## The system

| part | state | operations | talks to |
|---|---|---|---|
| Zone Manager client (`components/dns_zone_manager/server.py`) | a session with a header | put/get/delete of a pointer's schemes and of its DID, the zone listing, `pointer_exist`, `is_up` | ZM server |
| Zone Manager steps (`steps/dns_zone_manager_server.py`) | `context`: server, last response | one step per request, the delete-all step and the two Given checks, which loop | the client, `rest` steps |
| Keycloak steps (`steps/keycloak.py`, `environment.py`) | `last_token` in memory, a token file under `.tmp` | fetch, save, load | Keycloak, ZM steps, TSPA steps |
| Feature 01.1 | none; its effects are in the ZM server | 19 scenarios, 43 with the Examples, in a fixed order | the steps |
| TSPA client, steps, features 03.1, 03.2, 04.0 | a session; trust lists and providers in the TSPA | put/read/delete of trust lists, providers, pointers and DIDs | TSPA server, shared token file |
| TCR clients (`components/tcr/client`) | none; a runner chosen from the environment when the first command is made | resolve, validate through the Python, Java, JavaScript, Go client | TCR server |
| TCR steps, features 04.1, 04.2, 05 | `context`: client, inputs, answer kept as text, parsed response | Given inputs, ask, Then steps | the clients, TCR server, the data 04.0 puts into the TSPA |
| Resolve verdicts (`models/resolve_response.py`) | none | four assertions over a resolve response | feature 04.2 |
| Trust list stub (`models/trust_list.py`) | a module-level cache | `fetch` | nothing yet |
| Build (`Makefile`, `Jenkinsfile`) | virtual environments, `.coverage`, reports | targets; parallel stages in one checkout | everything |

What is hard here: two runs that share a domain (`jenkins-train` and
`dev-use-train` name the same one) interleave request by request; a run can be
interrupted and leave its data behind; a failing scenario does not stop the
feature, so tear-down has to work after any failure; a request can time out and
still take effect; tokens expire, and the token file is shared by features of
two realms; the verdict functions quantify over lists that may be empty; four clients share
the context attributes of one step file, and an error text may be taken for an answer.
`PROJECT.json` lists each of these at its line.

What makes each part correct:

* *ZM steps*: what a Given step established of the server is true until some
  write changes it; a step sends its write when everything the scenario checked for it
  has been looked at, and is as it was found unless someone else has written since.
* *Feature 01.1*: a scenario fails only for a reason outside the run; a run can
  follow any interrupted run; when runs are over nothing they created is left.
* *Tokens*: a token of another realm or an expired one is refused, never used.
* *Verdicts*: a scenario that passes did see what its name says.
* *TSPA features*: provisioning may follow any interrupted run; when runs are
  over the TCR's test data is there, complete, and nothing else.
* *TCR clients*: whichever client carries them, the TCR is asked with the inputs
  of the scenario that asks, all of them and nothing else; a scenario that passes
  got the answer it is about itself, in the text that its client's exit code selects.
* *Trust list cache*: a fetch that may use the cache does (it never does).

## The modules

| module | models |
|---|---|
| `ZoneManager` | the ZM server, external: pointers with their schemes, DIDs, which write it accepts, what it answers, what it changes |
| `ZoneSteps` | the step definitions of `steps/dns_zone_manager_server.py` and `steps/keycloak.py`, for any number of runs in any order, with faults |
| `ZoneScript` | feature 01.1 as data: the steps of each scenario, its order, its Examples |
| `ZoneFeature` | runs of a feature: behave's control (Background, order, skipping after a failure), interruption and restart |
| `ZoneFeatureProofs` | theorems about `ZoneSteps` and `ZoneFeature`, for every feature |
| `ZoneOutline` | a proof outline of feature 01.1: what a run may find at each of its places, its tokens there, and which pointers it is going to delete |
| `ZoneOutlineProofs` | runs of feature 01.1 keep to its outline |
| `ResolveVerdict` | the assertions of `models/resolve_response.py` as the Then steps of feature 04.2 use them |
| `ResolveVerdictProofs` | theorems about `ResolveVerdict` |
| `TrustStore` | the requests of the TSPA client, and the TSPA server, external: lists, providers, pointers, DIDs |
| `TspaScript` | features 03.1, 03.2 and 04.0 as data, in the order behave takes them |
| `TspaFeature` | runs of these features: the steps of `steps/tspa.py` and `steps/keycloak.py`, behave's control, faults |
| `TcrClients` | the four clients: the choice of their runner, the ways of the inputs to the TCR, what each of them prints |
| `TcrScript` | features 04.1, 04.2 and 05 as data, after 04.0: `make run_tcr_bdd_dev` |
| `TcrFeature` | runs of these features: `TspaFeature` for provisioning, and the steps of `resolver_on_client.py`, `resolver_on_server.py`, `tcr_validation.py` |
| `TspaOutline` | a proof outline of the TSPA features: what a run may find at each of its places, and what it is going to settle |
| `TcrOutline` | its continuation through the features that ask the TCR: what a run's context may be |
| `TspaFeatureProofs` | the type invariant of `TspaFeature`, and what its actions leave alone |
| `TspaOutlineProofs` | runs of the TSPA features keep to their outline |
| `TcrFeatureProofs` | theorems about `TcrClients` and `TcrFeature`, for every sequence of scenarios |
| `TcrJudgeProofs` | that `TcrFeature` implements `ResolveVerdict`, and its type invariant |
| `TcrOutlineProofs` | runs of the TCR features keep to their outline |
| `TrustListCache` | `fetch` of `models/trust_list.py` |
| `MCZoneSteps`, `MCZoneFeature`, `MCTspaFeature` | constants for TLC |
| `MCZoneOutline`, `MCTspaOutline`, `MCTcrOutline` | constants for TLC, and the least outlines of the features, computed from their steps |

The modules of the proofs extend the module they are about; `ZoneOutline` extends
`ZoneFeature`, `TspaOutline` extends `TspaFeature`, and `TcrOutline` extends it and `TcrFeature`.
`ZoneSteps` extends `ZoneManager`; `ZoneFeature` extends `ZoneSteps`, and
`MCZoneFeature` binds its constant `Feature` to the sequence in `ZoneScript`.
`TspaFeature` extends `TspaScript`, which extends `TrustStore`; its constant
`Feature` is bound to 03.1, 03.2 and 04.0 for the TSPA runs and to
04.0, 04.1, 04.2 and 05 for the TCR run. `TcrFeature` extends `TspaFeature` and
`TcrClients`, and instantiates `ResolveVerdict` for each run: what a run does
with resolve responses must be a behaviour of that module.

### ZoneManager

`schemes[p]` is the list of pointers under `p`, `dids[p]` the DID bound to it. A
pointer exists when its list is not empty (`pointer_exist` returns
`bool(schemes)`). What is assumed of the server, each from the feature: a name
outside its domain is refused with 404 (scenario [11], and [10] and [15] for
reading and deleting what is not there); a delete answers 204 or 404, a put
200; deleting a pointer unbinds the DIDs of the pointers it lists ([17] to
[19]); the listing has the pointers with schemes only; writes are serialised.

### ZoneSteps

A *run* is a behave process in a checkout of its own. Its state is the
scenario being on (`scenario`), the token in memory and in the file (`token`,
`file`: none, the ZM realm's, the TSPA realm's, or expired), the last response
and, for a step that sends more than one request, what is left of it (`loop`).
One action is one request with everything the step does about its answer.
`RemoveAllPointers` takes the listing and requires 200; `DeleteNext` deletes one
pointer *of that listing* and asserts 204; `CheckPointers`/`CheckNext` are the
two Given checks. A failing assertion is `Fails`: the rest of the scenario is
skipped and behave pops the context, which loses token and response.
`known` is a history variable: what the Given steps established of a pointer
that no write has changed since. No action reads it. `late` holds the writes
whose client stopped waiting after its 10 s; `LateLands` lets the server do
them at any later time.

Abstractions: headers, URLs and payload wording; the lists of the answers are
sets; the loops' order is left open (the code goes through a JSON list whose
order is the server's); a rejected request is 403 whatever was wrong with
its token (scenario [01] gets 403 without any).

### ZoneFeature and ZoneScript

`pc[r]` is the scenario and the step run `r` is at. `RunStep` executes the
Background (step 0), the next step, or the scenario's end; `Advance` goes to the
next scenario as soon as the current one is over or failed. `Restart` models both
an interrupted process and another `make run_zm_bdd_dev`; token file and server
survive. `StepTexts` is the set of texts a feature may call a step with; `Feature` is any
sequence of sequences of them, and no scenario may require of a pointer that it exists and,
without a write between, that it does not (`ChecksAssumption`); that is all the theorems assume of it. `Checked` are
the checks of the scenario that the step under way comes after, with no write between. `failed` and `disturbed` are history variables: whether a scenario of
the current run failed, and whether a fault hit it or someone else changed the
store.

### TrustStore, TspaScript and TspaFeature

`entry[p]` is everything the TSPA has under a pointer: the format of its trust
list, the data of the provider in it, whether the pointer is published, the DID
bound to it. A request is a record (`CreatePointer`, ..., one constructor per
method of the client); `Accepts`, `Message`, `Answers` and `After` say what the
features expect of the server: an initial list is refused where there is one
(03.1 [06.3]), a provider likewise (03.2 [3]), removing an absent list is answered
200 with another message (03.1 [10.2]), a DID whose method or well-known document
is not accepted is refused (03.1 [03.3], [03.4]). Nothing says how removing an
absent DID or pointer is answered, so `Answers` leaves it open.

`TspaFeature` has the same control as `ZoneFeature`, written out for these steps:
Background (step 0), steps, the scenario's end. All When steps are one request,
so one action, `SendRequest`, stands for them. `LoadToken` fails without a token
file; a request without this realm's valid token is answered 401 (03.1 [01]).
`RunStep` is `make run_all_bdd_dev` restricted to the features that write to the
TSPA. Faults: a service is not up, a request to Keycloak or to the TSPA fails or times out and,
if it was the TSPA's, may land later (`late`), the token expires or the ZM feature saves its own over it, and
`CleanAllElsewhere`: clean-all of feature 01.1, in another job on the same domain,
deletes every pointer the ZM server lists, those of these features included.
`Leftover` is every store an interrupted run may have left. The environment is
`dev-use-train`: the other two misspell two aliases of feature 03.2.

### ResolveVerdict

A response is two lists, as the code sees them: pointers with their DIDs, and
resolved DIDs with a document, of which only counts whether there is one and
whether its endpoints carry trust lists. The resolver may answer anything.
`HaveATl` and `DoNotHaveATl` follow the `for ... break ... else` loops (the first
entry for a DID decides, none is an error); `Holds` follows the steps, one of
which calls a generator function without iterating over it. `verdict` is
"idle" until a scenario has its pointers, so that the module can be implemented by runs
that do other things in between.

### TcrClients, TcrScript and TcrFeature

`Runner` is what `components/tcr/client` makes of the environment: the native command
when the type says so and a path is set, a container when there is an image, or no
runner. `AddClient` does not look at it: "Given <client> installed" checks the
health of the TCR server, and the runner is a property evaluated when the When step
makes its command (`Runnable`). An input is a function on the names set in the
context; `Payload` (REST, Java, Go) and `Options` (Python, JavaScript) are the two ways it
travels, `FromPayload` and `FromOptions` what the TCR reads back, so that a lost
input is a different question. All four clients write their inputs between single quotes and
escape none: `Quoted` is the set of texts with a quote, and a command with one of them (`Spoken`) is `Garbled`,
one whose outcome nobody knows. The features have no such input (`Plain`); the direct request has no such limit.

`context[r]` is the layer of a scenario: there from the Background, which sets
empty endpoint types as a default, to the scenario's end or failure (`Layer`).
`WellFormed` is what every scenario of the features has in common: an input is given once and
before the question, and is one that the question has a place for. `DiscoveryFormed` is the
shape of a scenario of 04.2: inputs and the question, "resolved response is valid", then the
Then steps of its kind; no other scenario judges a resolve response (`JudgesInOrder`).
`AskTheClient` asserts the exit code, `MayFailValidate` takes stdout or stderr depending on
it. The texts are told apart only as far as the Then steps do; the pattern of the JavaScript
client's scenario matches the empty text only, its complaint is silence.

What the TCR answers is external. When the test data of 04.0 is there and no fault
hits, it is what the features expect (`Expected`); otherwise it is any of
`AnyOutcome`: answers that are half there or no JSON, clients that fail after a complete
answer, and clients that print another's or their own complaint with any exit code. The code
takes stdout when the exit code is 0 and only searches it for a pattern
(`tcr_validation.py:65-67`, `:84`), so a client that exits 0 and prints the complaint passes a
"may fail" scenario without having failed, and `PassIsEarned` says so: it claims of such a scenario that it
asked, and that the text the exit code selects is the expected one, not that the client failed. The TCR is assumed to see the TSPA's state at once (no DNS caching).
`environment` is any setting of the four clients' variables; the Examples are those of
`dev-use-train`.

`judged[r]` is a history variable, the state of `ResolveVerdict` for the run's
resolve scenarios.

### TrustListCache

`CACHE` is the module's `_CACHE`, as the number of the instance in it; the test in
`fetch` is on its truth value, which for an object with `__len__` is whether its length,
mocked as 0, is not 0.

## The runs

| run | instance | shows |
|---|---|---|
| `zone_steps_one` | 1 run, 2 pointers, 1 DID, every initial store, 1 fault | `TypeOK`, `GivenHolds`, `DeletesWhatItListed` |
| `zone_steps_two` | 2 runs (symmetric), 1 pointer, 1 fault | `GivenHolds`, `DeletesWhatItListed` when loops interleave with the other run's requests |
| `zone_feature_lone` | all of feature 01.1, 1 run started twice, 4 kinds of left-over store, DIDs without pointers included, 2 faults | `FeatureTypeOK`, `FailureExplained`, `UndisturbedRunLeavesNothing`, `RunEnds` through interruptions and failures of all scenarios, and `ZoneOutlineInv`, from which the theorems about the feature follow |
| `zone_feature_two` | all of feature 01.1, 2 overlapping runs, no fault | `FailureExplained`, `NoPointerLeftBehind`, `WritesAsChecked`, `ZoneOutlineInv` |
| `zone_feature_steps` | the 7 scenarios about 1-europe, 2 runs, 1 fault | the feature's behaviours are behaviours of `ZoneSteps` (`Spec`), and every run ends (`RunEnds`), whatever the other does to the pointers its loops are at |
| `tspa_lone` | features 03.1, 03.2, 04.0, 1 run, 1152 left-over stores, 1 fault | `TypeOK`, `FailureExplained`, `TestDataOnly`, and `OutlineInv`, from which the theorems about these features follow |
| `tspa_two` | the same features, 2 overlapping runs, 2 left-over stores, no fault | `FailureExplained`, `DataSettles` |
| `tcr_feature` | features 04.0 to 05, 1 run, 1 fault, 2 left-over stores, 9 environments (each client native, in a container, or without a runner) | `TcrTypeOK`, `TcrFailureExplained`, `AsksWhatWasGiven`, `PassIsEarned`, `JudgesAsSpecified`, `EndsUnlessAClientHangs`, and `TcrOutlineInv` |
| `resolve_verdict` | 2 pointers, 2 DIDs, lists of up to 2 entries | `TypeOK`, `SuccessIsReal`, `OutcomesExclude` |
| `resolve_pointers` (violated) | same | the step about input pointers checks nothing |
| `resolve_no_tl` (violated) | same | the assertion on missing trust lists is inverted |
| `trust_list_cache` (violated) | 3 fetches | `ReusesCached`: a second fetch that may use the cache makes a new instance |

The bounds. Two pointers are enough for a listing with one deleted and one left
pointer and for a pointer that lists another; two runs for one to write between
the other's listing and its delete. With one pointer and two runs all that is
lost is the partial loop, which `zone_steps_one` has. One fault reaches every
late write, expired token and refused loop; two in a row (a timeout whose write
lands after a token was lost) are in `zone_feature_lone`. The feature runs use
the feature's own aliases and Examples. The feature runs with two
processes take no faults, or a selection of the scenarios, to stay small; the
theorems cover faults and runs in any number. Two entries per response list
are what an order, a duplicate DID and a missing DID need.

`tspa_lone` starts from every combination of what each scenario of the features may
have left under each of their six pointers; with two runs the empty and the
fullest store are kept, since each run itself goes through the ones in between.

`tcr_feature` is one run: its features write only through 04.0, and what other jobs do
to the data is the fault `CleanAllElsewhere`. One fault is a service that is not up, a timeout,
a lost token, data removed elsewhere, or one arbitrary outcome of a request or a client;
the left-over stores are the empty one and one where alice is complete and bob has a list.

`JudgesAsSpecified` is the refinement of `ResolveVerdict` by the scenarios as they
are run: sixteen scenarios and four clients share the context's attributes, and
each response has to be judged once, by its own Then steps, in order, whatever failed before.

`FailureExplained` of `TspaFeature` has an exception that the code does make: 03.1 and
03.2 create before they remove, so a list left by an interrupted run fails the
next one (`dirty`); only their own tear-down heals it. 04.0 removes first and has no such
exception.

Deadlock is checked everywhere: a run that is over stutters explicitly (`Stop`).

Fairness is weak fairness of `RunStep` for each run: behave is one thread that
executes the next step, each request of which is answered or times out. Nothing
is assumed of faults, late writes or restarts, whose number is bounded by
`MaxFaults` and `MaxRuns`. `TspaFeature` has the same fairness, for `DataSettles`: without a
fault no request is lost, and a scenario that fails does not end the run, so
each run gets to its provisioning. In `TcrFeature` it says nothing of a run
that waits for a client (`WaitsForClient`): REST calls have a timeout, `bash.bash` has none, so a client that
hangs holds up the run for good. `EndsUnlessAClientHangs` is what the code does guarantee: each run comes to
its end or waits for ever for one client, and neither a failure nor a client that returns with an error holds it up.

`NoPointerLeftBehind` is about pointers, on purpose. With two overlapping runs a
DID can stay: one run binds it after the other's last delete of the pointer
above it, that pointer's own delete then answers 404, and clean-all, which goes
by the pointers of the listing, does not see it. A later run that nobody disturbs does get
rid of such DIDs: its own scenarios create the pointers again and delete them
(`UndisturbedRunLeavesNothing` from the left-over store `DidsLeft`).

## The findings

* `steps/resolver_on_client.py:153` calls
  `assert_pointers_are_resolved_with_at_least_one_did`, a generator function, and
  does not iterate over the result. The step passes for every response.
  `SuccessIsReal` shows that the next step of the succeeding scenario, which
  does consume the generator, catches a pointer without a DID; that a pointer
  of the *input* is absent from the response nothing catches.
* `models/resolve_response.py:118` asserts `endpoint.trust_list` where the
  docstring and its message want its absence.
* `models/trust_list.py:39` tests the cached list for truth, where the docstring (:32)
  promises to reuse an instance fetched before. `__len__` returns 0, so every list is
  false and every call fetches anew.

## The proofs

`ZoneFeatureProofs` proves of `ZoneSteps`, for every set of runs, pointers, DIDs, every left-over
store and every bound on faults:

* `TypeCorrect`: `Spec => []TypeOK`;
* `GivensHold`: `Spec => [](GivenHolds /\ DeletesWhatItListed)`, and
  `LoopsDeleteWhatTheyListed`, its second part.

Assumptions: `InDomain` is a subset of `Pointer`, `NoDid` is not a DID, `Leftover` is a set of
well-typed stores, `MaxFaults` is a natural number. The inductive invariant is
`TypeOK /\ GivenHolds /\ DeletesWhatItListed`: `GivenHolds` is what a write must
preserve, and it does since every write passes through `Remembered`, which
forgets what the write changed; that in turn needs the types of the functions
updated. `DeletesWhatItListed` needs that the delete-all loop drops a pointer in the step in
which it learns that the pointer is gone, and that only a listing starts the loop.
Lemmas about a single write (`Store`), about what is remembered across it, and
about a scenario's end are stated once and cited by the steps.

Of `ZoneFeature` it proves, for every `Feature` over `StepTexts` and any number of
runs and restarts:

* `FeatureImplementsSteps`: `FeatureSpec => Spec`, so that the theorems about the
  steps hold of features, of which `FeatureGivensHold` is one;
* `FeatureTypeCorrect`: `FeatureSpec => []FeatureTypeOK`;
* `WritesGoAsChecked`: `FeatureSpec => []WritesAsChecked`.

These assume, besides the above, that `MaxRuns` is positive, and `WritesGoAsChecked` also `ChecksAssumption`.
Most steps of a feature are steps of `ZoneSteps` by their arguments' types alone. A
timeout is not: `Sent` is what the step under way asked for, and `TimesOut` allows a
late write only if the *loop* under way may have sent it. So the invariant
`FeatureInv` has `LoopIsOfStep`: a loop is under way only in the step
that started it. To keep it one must know where a run is (`Placed`: a scenario
is running exactly when its run is past the Background), that every end of a
scenario, by failure, timeout or interruption, clears the loop (`LeaveEnds`), and that a run leaves
a step only when its loop is done (`AdvanceInv`).

`WritesAsChecked` is about the gap between a check and the write it is for: the check asks
for one pointer at a time, the write is a request of a later step, and `GivenHolds` alone says nothing of
a pointer that was forgotten or never looked at. The invariant `CheckInv` says for each run that of every
pointer of the lists checked so far, and of the current list but for what its loop has left, the run knows what
the check requires, or has forgotten it and *was disturbed* (`Found`). A write of the run itself empties the list of
checks, another's write disturbs it (`OthersForget`), and a second check of a pointer learns the same as
the first, which is what `ChecksAssumption` is needed for. Together with `GivenHolds`, what is known is so.

`ResolveVerdictProofs` proves, for responses of any length, order and content:

* `SuccessAlwaysReal`: `Spec => []SuccessIsReal`;
* `OutcomesAlwaysExclude`: `Spec => []OutcomesExclude`;
* `VerdictTypes`: `Spec => []TypeOK`.

Assumption: `MaxEntries` is a natural number. The inductive invariant `Inv` relates `at` to the
Then steps that held: whatever comes before it held of the response. That the first-match loop of
`assert_resolved_did_do_have_at_least_one_tl` finds a first entry for a DID, if any, is the
least-number principle.

`TspaFeatureProofs` proves `TypesCorrect`, `Spec => []TypeOK` of `TspaFeature`, for any features whose
scenarios are sequences (`FeatureAssumption`, and `StepsAssumption`: a request is one the client can make),
any left-over stores and any number of runs and faults.

### The outlines

`FailureExplained`, `UndisturbedRunLeavesNothing`, `NoPointerLeftBehind` and `TestDataOnly` are about what *these* scenarios do in *this* order, so no theorem
about all features can state them. The theorems separate what is special from what
is general. For the TSPA features, an outline, `Outline(mode, k)`, says what a run at the place `k` may find under each pointer and
as token, file and answer, in three modes: alone on a clean TSPA, alone on a dirty one, or sharing it with other
runs. `OutlineAssumption` says that it is one: it admits every start, it
is closed under each single step (`Leads`) and each end of a scenario, the shared one also under the requests
of all others (`Tolerates`), and at the end it has the test data only. It also says which steps may fail where
(`CanFail`, `Excused`). `SettlesAssumption` says the same, backwards, of `Settles(k, p)`: what a run at `k` is going
to turn into the test data of `p`. The assumptions speak of one step, one place and one pointer at a time
and mention neither the number of runs nor of faults; TLC evaluates them for the features of the repository,
with the least outline that `MCTspaOutline` computes from their steps, in the run `tspa_lone`, and for
those of the TCR in `tcr_feature`. What the proofs then show is what TLC could not: any number of
runs in any interleaving, with any faults, late requests and lost tokens, keep to it.

`ZoneOutline` has a form of its own: feature 01.1 starts by deleting everything, so one mode is enough,
but here a pointer lists other pointers, a step can be a loop, and a run can be interrupted anywhere and started
again. `Foreseen(k)` is what a run that is not disturbed may find at the place `k`: under each pointer the schemes
and the DID, and the token, file and response. `Tokens(k)` is what *any* run may have there as token and in its file,
and `Clears(k)` the pointers it is going to delete from there, whichever of its scenarios fail. `OutlineAssumption`, `TokensAssumption`
and `ClearsAssumption` say that these admit every start and are closed under each single step (`StepMakes`, `Passes`,
`MayFail`, `ClearsOn`) and each end of a scenario, that nothing the feature writes leads out of what a run may start
with (`Foresees`), and that at the end nothing is there and nothing is to be cleared. TLC evaluates them for
the real feature, with the least outline that `MCZoneOutline` computes, in `zone_feature_lone` and `zone_feature_two`.
They do depend on the order of the scenarios: without a row of the tear-down, or with two of the creating
scenarios exchanged, they are false.

`ZoneOutlineProofs` proves, from these, the assumptions of `ZoneFeatureProofs` and `RunAssumption`, for any number of
runs, restarts, faults and late writes:

* `ZoneOutlineKept`: `FeatureSpec => []ZoneOutlineInv`;
* `ZoneFailuresExplained`: `FeatureSpec => []FailureExplained`;
* `UndisturbedRunsLeaveNothing`: `FeatureSpec => []UndisturbedRunLeavesNothing`;
* `NoPointersAreLeft`: `FeatureSpec => []NoPointerLeftBehind`.

The inductive invariant is `TypeOK /\ FeatureInv /\ ZoneOutlineInv`. Its parts: `AtPositions`; `KeepsToOutline`, that an
undisturbed run has not failed and finds what is foreseen at its place (`FitsAt`), except that while its
delete-all loop is under way the outline of the *next* place already fits but for the pointers the loop has left, which are
exactly those that still exist (`Deleting`), and that the loop of a check has only pointers of its own step left
(`Checking`). A run that is started again is undisturbed from then on, so at any moment, in the middle of
anybody's writes and late ones, the store has to be one that a run may start with: that is `InBounds`, and
`IdleIsBare` says the same of its context. `NoPointerLeftBehind` is also about runs that did disturb each other; for these
`SomeoneClears` says that, while no fault has happened, each pointer there is one that some run will still delete. What a run will delete
depends on its token (a request without one changes nothing) and on where it goes on after a failure, which is why
`Tokens` and `Clears` are closed under failures too. The proof has one lemma for each kind of step
(`TokenStepFits`, `WriteStepFits`, `ReadStepFits`, `ThenStepFits`, `CheckStepFits`, `ListStepFits`, `DeleteStepFits`), one for how a run
moves (`RunMoves`), and one that the others' steps leave a run's context alone (`ContextFrame`).

`TspaOutlineProofs` proves, from its assumptions and that there is a run (`RunAssumption`):

* `OutlineKept`: `Spec => []OutlineInv`;
* `FailuresExplained`: `Spec => []FailureExplained`;
* `TestDataIsLeft`: `Spec => []TestDataOnly`.

The inductive invariant is `Typed /\ OutlineInv`. `KeepsToOutline` relates a run that nobody disturbed to its own mode,
and its failures to what the outline excuses. `TestDataOnly` also speaks of runs that
did disturb each other, and for them the run's own place says too little: another one may have removed what it
made. `SharesOutline` bounds what there may be at all, and `SomeoneSettles` says that under each pointer
there is always something that *some* run, not always the same, is still going to turn into the
test data. A request of one run may undo what another was counting on; `SendSettles` says that then it is that run
which settles the pointer.

`TcrFeatureProofs` proves, for every sequence of well-formed scenarios, every environment
and any number of runs and faults:

* `AlwaysAsksWhatWasGiven`: `TcrSpec => []AsksWhatWasGiven`;
* `PassesAreEarned`: `TcrSpec => PassIsEarned`, an action property.

That the four clients ask one question is a lemma (`ClientsAskAlike`) with a hypothesis: no input has a
quote. Reading is there the inverse of writing, so it shows only that no client's way drops, adds or mixes an input.

Assumptions: `EnvironmentsAssumption`, `FeatureAssumption` and `ScriptAssumption`: each scenario is `WellFormed`, judges in
order, and `Concludes`: the question of its kind is its last, and a Then step about the answer follows. The inductive
invariant `ContextInv` says that each input in the context is the value of a Given step of
*this* scenario that the run has passed, or the Background's default, that what was asked was asked
with the inputs that are there, and that between scenarios there is no context. It is
needed since `AsksWhatWasGiven` compares an old question with the whole script of the scenario: no
step may change an input after the question, and no failure may leave a layer for the next
scenario. Every action is one of two moves, going on with a context or leaving the scenario without one
(`GoesOn`, `EndsInv`).

`PassIsEarned` needs more: `EarnInv` adds that every step passed since the last question has *shown* what it
stands for (`StillShown`): a client that was asserted to succeed did, an answer that matched is the
text there is. A step that asks makes everything shown before it void, and no other step may change the answer.
When the scenario ends, the two steps that `Concludes` names have been passed, and what they have shown is what the
scenario is about (`EndIsEarned`).

`TcrJudgeProofs` proves, under the same assumptions, the refinement:

* `RunsJudgeAsSpecified`: `TcrSpec => JudgesAsSpecified`,

and `TcrTypesCorrect`, `TcrSpec => []TcrTypeOK`: that no scenario starts under judgement and no judging is past its
Then steps is part of it, so it takes the invariants `EarnInv` and `JudgeInv`.

The inductive invariant `JudgeInv` is `ContextInv` and, for each run, that `ResolveVerdict` is in a scenario exactly while the
run is in a discovery that has its pointers (`UnderJudgement`), and that they have come equally far
(`Together`): up to "resolved response is valid" it is resolving, then its `at` is the number of the
run's Then step, and its response is the one parsed. It is needed since the two are
connected by counting steps only: a step that a failure skips, or one that fails without ending the judgement,
would let the next scenario's response be judged in the middle of this one.
`ScriptAssumption` is what makes every step between question and verdict one that
`ResolveVerdict` knows (`Position`), and that a client which returns with success and prints a resolve
response prints one that it knows is `OutcomesAnswered`. Every action is one of five moves (`GoesOnJudging`,
`BeginsJudging`, `ValidJudging`, `ThenJudging`, `LeavesJudging`).
So `SuccessAlwaysReal` and `OutcomesAlwaysExclude` hold of the scenarios as they are run.

`TcrOutlineProofs` proves, in addition to all the above from `TcrPointersAssumption` and `ContextsAssumption`:

* `TcrOutlineKept`: `TcrSpec => []TcrOutlineInv`;
* `TcrFailuresExplained`: `TcrSpec => []TcrFailureExplained`.

`Contexts(e, k)` continues the outline: the contexts a run may have at `k` in the environment `e`. It has to be
closed under the steps of `resolver_on_client.py`, `resolver_on_server.py` and `tcr_validation.py`, given what comes
back when nothing is wrong; a step that asks needs the test data to be there (`Provides`), which is where the
outline of the provisioning meets that of the questions; and a step may fail in a scenario whose client
has no runner only. The inductive invariant is `EarnInv /\ TcrOutlineInv`. Since nothing is said of a run that someone
disturbed, an arbitrary answer or a fault needs no outline; what has to be shown is that a run
which is *not* disturbed cannot have met one.

Model-checked only: that the assumptions on the outlines hold of the features of the repository, since the
scenarios are data; and liveness (`RunEnds`, `DataSettles`, `EndsUnlessAClientHangs`): liveness under fairness and ENABLED
are beyond the prover used.

## The plan

Done: `ZoneManager` to `ZoneFeature`, `ResolveVerdict`, `TrustStore` to `TspaFeature`, `TcrClients` to `TcrFeature` and
`TrustListCache`; the three outlines; and a theorem for every safety property and action property a passing run checks.

## Not modelled

* The Jenkins pipeline: it calls make targets and external tools in stages; that its
  parallel stages share `.coverage` and the sources lies in the files of coverage and isort.
* Of the Makefile, the virtual environments, lint and coverage targets: they only call external
  tools, and what a half-built environment does is pip's and make's behaviour. What
  `run_zm_bdd_dev`, `run_all_bdd_dev` and `run_tcr_bdd_dev` run is in the feature modules.
* The user interface clients, the NSD client and the DNS resolver module: stubs, mocks, or
  commented out.
* Hosts, realms and secrets of `env.py`: read once and passed on. The variables of the TCR clients
  are modelled.
* Deployment: container configuration and realm data.
* The services (ZM server, TSPA, TCR, Keycloak) beyond what features and steps say of them.
