---------------------------- MODULE TspaFeature ----------------------------
(***************************************************************************)
(* Runs of the features that write to the TSPA: the steps of                *)
(* src/steps/tspa.py and src/steps/keycloak.py, executed by behave in the   *)
(* order of TspaScript.  A run is a behave process in a checkout of its own; *)
(* several share the TSPA server.  What earlier, interrupted runs may have   *)
(* left there, and in the token file, is where a run starts.                *)
(***************************************************************************)
EXTENDS TspaScript, FiniteSets

CONSTANTS Feature,     \* the scenarios of a run (see TspaScript, TcrScript)
          Run,
          Leftover,    \* what earlier runs may have left in the TSPA
          MaxFaults    \* bound on what goes wrong outside the runs

ASSUME FeatureAssumption   == Len(Feature) \in Nat
ASSUME StepsAssumption ==
  \A i \in 1 .. Len(Feature) :
    LET steps == Feature[i].steps
    IN  /\ Len(steps) \in Nat
        /\ \A j \in 1 .. Len(steps) : steps[j].do = "send" => steps[j].request \in Request
ASSUME LeftoverAssumption  == Leftover \subseteq [Pointer -> Entry]
ASSUME MaxFaultsAssumption == MaxFaults \in Nat

VARIABLES
  pc,         \* the scenario and the step a run is at; step 0 is the Background
  token,      \* context.keycloak.last_token
  file,       \* the token file of the run's checkout
  response,   \* context.requests_response
  late,       \* requests that timed out and the TSPA may still perform
  faults,
  failed,     \* history: the features of which a scenario failed
  disturbed,  \* history: a fault hit the run, or someone else changed the TSPA
  dirty       \* history: a list of features 03.1 or 03.2 was there at the start

runVars == <<pc, token, file, response, failed>>
vars == <<entry, runVars, late, faults, disturbed, dirty>>

NoResponse == [status |-> 0, message |-> ""]
Places     == [scenario : 1 .. Len(Feature) + 1, step : Nat]
Start      == [scenario |-> 1, step |-> 0]

Finished(r) == pc[r].scenario > Len(Feature)
Current(r)  == Feature[pc[r].scenario]
InStep(r)   == ~Finished(r) /\ pc[r].step \in 1 .. Len(Current(r).steps)
Step(r)     == Current(r).steps[pc[r].step]

(* There is a list of features 03.1 or 03.2.                                *)
Dirty(found) == \E p \in Pointer \ {"1-europe", "alice", "bob"} : found[p].list # "none"

(* Between two scenarios nothing is left in the context.                    *)
TypeOK ==
  /\ entry \in [Pointer -> Entry]
  /\ pc \in [Run -> Places]
  /\ token \in [Run -> {"none", "tspa", "zm", "expired"}]
  /\ file  \in [Run -> {"none", "tspa", "zm", "expired"}]
  /\ \A r \in Run : response[r].status \in {0, 200, 201, 400, 401, 500}
  /\ late \subseteq Request
  /\ faults \in 0 .. MaxFaults
  /\ failed \in [Run -> SUBSET {Feature[i].of : i \in 1 .. Len(Feature)}]
  /\ disturbed \in [Run -> BOOLEAN] /\ dirty \in [Run -> BOOLEAN]
  /\ \A r \in Run : pc[r].step = 0 => token[r] = "none" /\ response[r] = NoResponse

Init ==
  /\ entry \in Leftover
  /\ pc = [r \in Run |-> Start]
  /\ token = [r \in Run |-> "none"]
  /\ file \in [Run -> {"none", "zm", "expired"}]
  /\ response = [r \in Run |-> NoResponse]
  /\ late = {} /\ faults = 0
  /\ failed = [r \in Run |-> {}]
  /\ disturbed = [r \in Run |-> FALSE]
  /\ dirty = [r \in Run |-> Dirty(entry)]

-----------------------------------------------------------------------------
(* Whatever changes the TSPA disturbs the runs that did not do it.          *)
Disturbs(R) == disturbed' = [q \in Run |-> disturbed[q] \/ (q \in R /\ entry' # entry)]

Proceed(r) == /\ pc' = [pc EXCEPT ![r].step = @ + 1]
              /\ UNCHANGED failed

Leave_KeepsToken(r) ==   \* mutant: the context layer is not popped
  /\ pc' = [pc EXCEPT ![r] = [scenario |-> @.scenario + 1, step |-> 0]]
  /\ response' = [response EXCEPT ![r] = NoResponse]
  /\ UNCHANGED <<entry, file, token>>
(* The rest of the scenario is skipped and its context layer popped.        *)
Leave(r) ==
  /\ pc' = [pc EXCEPT ![r] = [scenario |-> @.scenario + 1, step |-> 0]]
  /\ token' = [token EXCEPT ![r] = "none"]
  /\ response' = [response EXCEPT ![r] = NoResponse]
  /\ UNCHANGED <<entry, file>>

Fails_Stops(r) ==   \* mutant: behave --stop
  /\ pc' = [pc EXCEPT ![r] = [scenario |-> Len(Feature) + 1, step |-> 0]]
  /\ failed' = [failed EXCEPT ![r] = @ \cup {Current(r).of}]
  /\ UNCHANGED <<entry, file, token, response>>
Fails(r) == Leave(r) /\ failed' = [failed EXCEPT ![r] = @ \cup {Current(r).of}]

Background(r) ==
  /\ ~Finished(r) /\ pc[r].step = 0
  /\ token' = [token EXCEPT ![r] = "none"]
  /\ Proceed(r)
  /\ UNCHANGED <<entry, file, response>>

FetchToken(r) ==
  /\ Step(r).do = "fetch token"
  /\ token' = [token EXCEPT ![r] = "tspa"]
  /\ Proceed(r)
  /\ UNCHANGED <<entry, file, response>>

SaveToken(r) ==
  /\ Step(r).do = "save token"
  /\ file' = [file EXCEPT ![r] = token[r]]
  /\ Proceed(r)
  /\ UNCHANGED <<entry, token, response>>

(* Mutant: the token is loaded but not given to the KeycloakServer.         *)
LoadToken_Lost(r) ==
  /\ Step(r).do = "load token"
  /\ IF file[r] = "none" THEN Fails(r)
     ELSE Proceed(r) /\ UNCHANGED <<entry, token, file, response>>

LoadToken(r) ==
  /\ Step(r).do = "load token"
  /\ IF file[r] = "none" THEN Fails(r)
     ELSE /\ token' = [token EXCEPT ![r] = file[r]]
          /\ Proceed(r)
          /\ UNCHANGED <<entry, file, response>>

(* One When step of steps/tspa.py.                                         *)
SendRequest(r) ==
  /\ Step(r).do = "send"
  /\ LET q == Step(r).request
     IN  IF token[r] = "tspa"
         THEN /\ Perform(q)
              /\ \E a \in Answers(q, entry[q.ptr]) : response' = [response EXCEPT ![r] = a]
         ELSE /\ UNCHANGED entry
              /\ response' = [response EXCEPT ![r] = [status |-> 401, message |-> ""]]
  /\ Proceed(r)
  /\ UNCHANGED <<token, file>>

Judge_Retries(r) ==   \* mutant: an assertion that fails is tried again
  LET s == Step(r)
  IN  /\ s.do \in {"status", "content"}
      /\ IF \/ s.do = "status"  /\ response[r].status = s.code
            \/ s.do = "content" /\ response[r].message = s.message
         THEN Proceed(r) /\ UNCHANGED <<entry, token, file, response>>
         ELSE UNCHANGED <<pc, failed, entry, token, file, response>>
Judge(r) ==
  LET s == Step(r)
  IN  /\ s.do \in {"status", "content"}
      /\ IF \/ s.do = "status"  /\ response[r].status = s.code
            \/ s.do = "content" /\ response[r].message = s.message
         THEN Proceed(r) /\ UNCHANGED <<entry, token, file, response>>
         ELSE Fails(r)

EndScenario(r) ==
  /\ ~Finished(r) /\ pc[r].step > Len(Current(r).steps)
  /\ Leave(r) /\ UNCHANGED failed

RunStep(r) ==
  /\ \/ Background(r)
     \/ InStep(r) /\ (FetchToken(r) \/ SaveToken(r) \/ LoadToken(r) \/ SendRequest(r)
                        \/ Judge(r))
     \/ EndScenario(r)
  /\ Disturbs(Run \ {r})
  /\ UNCHANGED <<late, faults, dirty>>

-----------------------------------------------------------------------------
(* Faults.                                                                 *)

Fault(r) == /\ ~Finished(r)
            /\ faults < MaxFaults /\ faults' = faults + 1
            /\ disturbed' = [disturbed EXCEPT ![r] = TRUE]
            /\ UNCHANGED dirty

(* TSPA Keycloak or the TSPA server is not up.                              *)
NotUp(r) == pc[r].step = 0 /\ Fault(r) /\ Fails(r) /\ UNCHANGED late

(* A request to Keycloak or to the TSPA fails or raises after its timeout;   *)
(* the TSPA may perform its own later.                                      *)
TimesOut(r) ==
  /\ Fault(r) /\ InStep(r) /\ Step(r).do \in {"fetch token", "send"}
  /\ \/ UNCHANGED late
     \/ /\ Step(r).do = "send" /\ token[r] = "tspa"
        /\ late' = late \cup {Step(r).request}
  /\ Fails(r)

LateLands ==
  /\ \E q \in late : Perform(q) /\ late' = late \ {q}
  /\ Disturbs(Run)
  /\ UNCHANGED <<runVars, faults, dirty>>

(* The token's lifetime ends, or a ZM feature started in the same checkout  *)
(* saves its realm's token over it.                                        *)
TokenLost(r) ==
  /\ Fault(r)
  /\ \/ /\ file' = [file EXCEPT ![r] = "expired"]
        /\ token' = [token EXCEPT ![r] = IF @ = "tspa" THEN "expired" ELSE @]
     \/ file' = [file EXCEPT ![r] = "zm"] /\ UNCHANGED token
  /\ UNCHANGED <<entry, pc, response, failed, late>>

(* Scenario [03] of feature 01.1, in another job on the same domain,        *)
(* deletes a pointer and with it the DID bound to it.                       *)
CleanAllElsewhere ==
  /\ faults < MaxFaults /\ faults' = faults + 1
  /\ \E p \in Pointer :
       /\ entry[p].published
       /\ entry' = [entry EXCEPT ![p].published = FALSE, ![p].did = "none"]
  /\ Disturbs(Run)
  /\ UNCHANGED <<runVars, late, dirty>>

AllFinished == \A r \in Run : Finished(r)
Stop == AllFinished /\ UNCHANGED vars

Next == \/ \E r \in Run : RunStep(r) \/ NotUp(r) \/ TimesOut(r) \/ TokenLost(r)
        \/ LateLands \/ CleanAllElsewhere \/ Stop

(* behave goes on with the next step: each request is answered or times out. *)
Fairness == \A r \in Run : WF_vars(RunStep(r))

Spec == Init /\ [][Next]_vars /\ Fairness

-----------------------------------------------------------------------------
(* A scenario fails only if a fault hit the run or someone else changed the *)
(* TSPA during it, or if a list of 03.1 or 03.2 was there to start with.     *)
(* Provisioning removes what it is going to create, so it may be repeated    *)
(* after any other run, whatever that left.                                *)
FailureExplained ==
  \A r \in Run : failed[r] # {} => disturbed[r] \/ (dirty[r] /\ "04.0" \notin failed[r])

(* Runs that end leave the TCR's test data, complete, and nothing else,      *)
(* whatever they started with and whether or not their scenarios failed:     *)
(* when nobody disturbed them, and also when they disturbed only each other. *)
TestDataOnly ==
  AllFinished /\ (faults = 0 \/ \A r \in Run : ~disturbed[r]) => entry = TestData

(* However two runs overlap and fail each other's scenarios, with no fault    *)
(* the TSPA comes to hold the test data, and keeps it: no failure keeps a    *)
(* run from its provisioning, and the last one is not undone.               *)
DataSettles == [](faults = 0) => <>[](entry = TestData)
=============================================================================
