---------------------------- MODULE ZoneFeature ----------------------------
(***************************************************************************)
(* Runs of a feature: each run executes the scenarios of Feature in order,  *)
(* step by step, with the steps of ZoneSteps.  A scenario that fails does   *)
(* not stop the feature; behave goes on with the next one.  A run can be    *)
(* interrupted anywhere and started again, and started again once it ended  *)
(* ("make run_zm_bdd_dev"); nothing but the token file and the ZM server's  *)
(* store survives.  Two jobs whose environments name the same domain        *)
(* (jenkins-train and dev-use-train do) run against the same store.         *)
(***************************************************************************)
EXTENDS ZoneSteps, Sequences

CONSTANTS Feature,   \* a sequence of scenarios (see ZoneScript)
          MaxRuns    \* how often a run is started, the first time included

(* The texts a feature can call a step definition with.                    *)
StepTexts ==
  [do : {"fetch token", "save token", "load token", "delete all", "read zones"}]
    \cup [do : {"check"}, kind : {"exists", "not exists"}, ptrs : (SUBSET Pointer) \ {{}}]
    \cup [do : {"create pointers"}, ptrs : (SUBSET Pointer) \ {{}}, ptr : Pointer]
    \cup [do : {"create did"}, did : Did, ptr : Pointer]
    \cup [do : {"remove pointer", "remove did", "read pointer", "read did"}, ptr : Pointer]
    \cup [do : {"get http"}, code : {200, 204, 403, 404}]
    \cup [do : {"content"}, body : (SUBSET Pointer) \cup {{d} : d \in Did}]

(* The steps that send a write of their own; the delete-all loop is apart.  *)
Writing == {"create pointers", "create did", "remove pointer", "remove did"}

(* The checks that step n of a scenario comes after, with no write between.  *)
SinceWrite(steps, n) ==
  {i \in DOMAIN steps :
     /\ steps[i].do = "check" /\ i < n
     /\ \A j \in DOMAIN steps :
          i < j /\ j < n => steps[j].do \notin Writing \cup {"delete all"}}

ASSUME FeatureAssumption == Feature \in Seq(Seq(StepTexts))
(* No scenario requires that a pointer exists and, without a write between,  *)
(* that it does not.                                                       *)
ASSUME ChecksAssumption ==
  \A n \in 1 .. Len(Feature) : \A k \in 1 .. Len(Feature[n]) :
    LET steps == Feature[n]
    IN  steps[k].do = "check" => \A i \in SinceWrite(steps, k) :
          steps[i].ptrs \cap steps[k].ptrs = {} \/ steps[i].kind = steps[k].kind
ASSUME MaxRunsAssumption == MaxRuns \in Nat \ {0}

VARIABLES
  pc,         \* the scenario and the step a run is at; step 0 is the Background
  runs,       \* how often the run was started
  failed,     \* history: a scenario of the current run failed
  disturbed   \* history: during the current run a fault hit it, or the store
              \* was changed by someone else

feature == <<pc, runs, failed, disturbed>>
featureVars == <<vars, feature>>

Start == [scenario |-> 1, step |-> 0]

FeatureTypeOK ==
  /\ TypeOK
  /\ pc \in [Run -> [scenario : 1 .. Len(Feature) + 1, step : Nat]]
  /\ runs \in [Run -> 1 .. MaxRuns]
  /\ failed \in [Run -> BOOLEAN] /\ disturbed \in [Run -> BOOLEAN]
  /\ \A r \in Run : (scenario[r] = "running") = (pc[r].step > 0)

FeatureInit ==
  /\ Init
  /\ pc = [r \in Run |-> Start]
  /\ runs = [r \in Run |-> 1]
  /\ failed = [r \in Run |-> FALSE]
  /\ disturbed = [r \in Run |-> FALSE]

-----------------------------------------------------------------------------
Finished(r) == pc[r].scenario > Len(Feature)
Steps(r)    == Feature[pc[r].scenario]
InStep(r)   == ~Finished(r) /\ pc[r].step \in 1 .. Len(Steps(r))
Step(r)     == Steps(r)[pc[r].step]

(* The step definition behave finds for the text of step s.               *)
Execute(r, s) ==
  \/ s.do = "fetch token"     /\ FetchToken(r)
  \/ s.do = "save token"      /\ SaveToken(r)
  \/ s.do = "load token"      /\ LoadToken(r)
  \/ s.do = "delete all"      /\ (RemoveAllPointers(r) \/ DeleteNext(r))
  \/ s.do = "check"           /\ (CheckPointers(r, s.kind, s.ptrs) \/ CheckNext(r))
  \/ s.do = "create pointers" /\ CreatingPointers(r, s.ptrs, s.ptr)
  \/ s.do = "create did"      /\ CreateDid(r, s.did, s.ptr)
  \/ s.do = "remove pointer"  /\ RemovePointer(r, s.ptr)
  \/ s.do = "remove did"      /\ RemoveDid(r, s.ptr)
  \/ s.do = "read zones"      /\ RequestsZones(r)
  \/ s.do = "read pointer"    /\ RequestsPointer(r, s.ptr)
  \/ s.do = "read did"        /\ ReadPointersDid(r, s.ptr)
  \/ s.do = "get http"        /\ GetHttp(r, s.code)
  \/ s.do = "content"         /\ ContentMatches(r, s.body)

NextScenario_NoBackground(r) ==   \* mutant: the Background is run once only
  [scenario |-> pc[r].scenario + 1, step |-> 1]

NextScenario(r) == [scenario |-> pc[r].scenario + 1, step |-> 0]
NextStep(r)     == [scenario |-> pc[r].scenario, step |-> pc[r].step + 1]

(* After a step: the same step while its loop has pointers left, the next   *)
(* scenario when this one is over or failed, else the next step.            *)
Advance(r) ==
  pc' = [pc EXCEPT ![r] = IF scenario'[r] = "idle" THEN NextScenario(r)
                          ELSE IF loop'[r].kind # "none" THEN pc[r]
                          ELSE NextStep(r)]

Record(r, fails, faulty) ==
  /\ failed' = [failed EXCEPT ![r] = @ \/ fails]
  /\ disturbed' = [q \in Run |-> \/ disturbed[q]
                                 \/ q = r /\ faulty
                                 \/ q # r /\ store' # store]
  /\ UNCHANGED runs

RunStep(r) ==
  /\ ~Finished(r)
  /\ \/ pc[r].step = 0 /\ BeginScenario(r) /\ Record(r, FALSE, FALSE)
     \/ InStep(r) /\ Execute(r, Step(r)) /\ Record(r, scenario'[r] = "idle", FALSE)
     \/ pc[r].step > Len(Steps(r)) /\ EndScenario(r) /\ Record(r, FALSE, FALSE)
  /\ Advance(r)

-----------------------------------------------------------------------------
(* Faults, and starting a run again.                                       *)

NotUpStep(r) == ~Finished(r) /\ NotUp(r) /\ Advance(r) /\ Record(r, TRUE, TRUE)

(* The writes the step under way may be waiting for.                       *)
Sent(r) ==
  LET s == Step(r)
  IN  CASE s.do = "create pointers" -> {PutSchemes(s.ptr, s.ptrs)}
        [] s.do = "create did"      -> {PutDid(s.ptr, s.did)}
        [] s.do = "remove pointer"  -> {DeleteSchemes(s.ptr)}
        [] s.do = "remove did"      -> {DeleteDid(s.ptr)}
        [] s.do = "delete all" /\ loop[r].kind = "delete all" -> UnderWay(r)
        [] OTHER                    -> {}

(* Mutant: the client sends a request that timed out once more.            *)
StepTimesOut_Resends(r) ==
  /\ InStep(r) /\ Authorised(r) /\ Fault
  /\ \E w \in Sent(r) : Store(w) /\ late' = late \cup {w}
  /\ known' = Remembered
  /\ UNCHANGED <<scenario, token, file, response, loop, runs>>
  /\ pc' = pc /\ failed' = failed /\ disturbed' = [q \in Run |-> TRUE]

(* Only a step that sends a request can time out.                          *)
Requesting(r) ==
  InStep(r) /\ Step(r).do \notin {"save token", "load token", "get http", "content"}

StepTimesOut(r) ==
  /\ Requesting(r)
  /\ \E W \in {{}} \cup {{w} : w \in Sent(r)} : TimesOut(r, W)
  /\ Advance(r) /\ Record(r, TRUE, TRUE)

TokenLost(r) ==
  /\ ~Finished(r)
  /\ TokenExpires(r) \/ TspaFeatureSaves(r)
  /\ Record(r, FALSE, TRUE)
  /\ UNCHANGED pc

LateWriteLands ==
  /\ LateLands
  /\ disturbed' = [q \in Run |-> disturbed[q] \/ store' # store]
  /\ UNCHANGED <<pc, runs, failed>>

(* A run is interrupted, or is over, and is started again.                  *)
Restart(r) ==
  /\ runs[r] < MaxRuns /\ pc[r] # Start
  /\ IF Running(r) THEN Abort(r) ELSE UNCHANGED vars
  /\ runs' = [runs EXCEPT ![r] = @ + 1]
  /\ pc' = [pc EXCEPT ![r] = Start]
  /\ failed' = [failed EXCEPT ![r] = FALSE]
  /\ disturbed' = [disturbed EXCEPT ![r] = FALSE]

AllFinished == \A r \in Run : Finished(r)
Stop == AllFinished /\ UNCHANGED featureVars

FeatureNext ==
  \/ \E r \in Run : RunStep(r) \/ NotUpStep(r) \/ StepTimesOut(r) \/ TokenLost(r)
                      \/ Restart(r)
  \/ LateWriteLands
  \/ Stop

(* A behave process that is not interrupted goes on: each of its requests   *)
(* is answered or times out.                                               *)
Fairness == \A r \in Run : WF_featureVars(RunStep(r))

FeatureSpec == FeatureInit /\ [][FeatureNext]_featureVars /\ Fairness

-----------------------------------------------------------------------------
(* A scenario fails only if a fault hit the run or somebody else changed    *)
(* the store during it.  The feature starts by cleaning the domain, so what *)
(* an interrupted run left behind is not a reason.                          *)
FailureExplained == \A r \in Run : failed[r] => disturbed[r]

(* A run that nothing disturbed leaves no pointer and no DID behind, and    *)
(* nothing of what it found when it started.                                *)
UndisturbedRunLeavesNothing ==
  \A r \in Run : Finished(r) /\ ~disturbed[r] =>
    Exists = {} /\ \A p \in Pointer : dids[p] = NoDid

(* However runs overlap, fail each other's scenarios and are interrupted,   *)
(* once all of them have come to their end no pointer is left.              *)
NoPointerLeftBehind == AllFinished /\ faults = 0 => Exists = {}

(* A step writes what the Givens of its scenario have cleared.  A check and   *)
(* the write it is for are requests of their own: when the write is sent,   *)
(* each pointer of each list checked before it was looked at, and is as it   *)
(* was found unless the run wrote itself since or somebody else did.        *)
Checked(r) == SinceWrite(Steps(r), pc[r].step)

StillAsFound(r, p, kind) ==
  IF known[r][p] = "unknown" THEN disturbed[r]
  ELSE (kind = "exists") = (p \in Exists)

WritesAsChecked ==
  \A r \in Run : InStep(r) /\ Step(r).do \in Writing =>
    \A i \in Checked(r) : \A p \in Steps(r)[i].ptrs : StillAsFound(r, p, Steps(r)[i].kind)

(* Every run that is not over gets to the end of its feature: no failure,   *)
(* loop or interruption keeps it from there.                                *)
RunEnds == \A r \in Run : ~Finished(r) ~> Finished(r)
=============================================================================
