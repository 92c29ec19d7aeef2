------------------------- MODULE TspaFeatureProofs -------------------------
(***************************************************************************)
(* What holds of every feature that writes to the TSPA, with any scenarios,  *)
(* runs, leftovers and faults.                                              *)
(***************************************************************************)
EXTENDS TspaFeature, TLAPS

Tokens   == {"none", "tspa", "zm", "expired"}
Statuses == {0, 200, 201, 400, 401, 500}
Ofs      == {Feature[i].of : i \in 1 .. Len(Feature)}

-----------------------------------------------------------------------------
(* The places of a run.                                                     *)

LEMMA LengthIsNat == Len(Feature) \in Nat
BY FeatureAssumption

LEMMA Inside ==
  ASSUME NEW n, NEW last \in Nat, n \in 1 .. last + 1, ~(n > last)
  PROVE  n \in 1 .. last /\ n + 1 \in 1 .. last + 1
OBVIOUS

LEMMA PlaceTypes ==
  ASSUME NEW place \in Places
  PROVE  /\ place.scenario \in 1 .. Len(Feature) + 1 /\ place.step \in Nat
         /\ place.step + 1 \in Nat
         /\ [place EXCEPT !.step = @ + 1] \in Places
         /\ [place EXCEPT !.step = @ + 1].scenario = place.scenario
         /\ [place EXCEPT !.step = @ + 1].step = place.step + 1
BY DEF Places

LEMMA Running ==
  ASSUME pc \in [Run -> Places], NEW r \in Run, ~Finished(r)
  PROVE  /\ pc[r].scenario \in 1 .. Len(Feature)
         /\ [scenario |-> pc[r].scenario + 1, step |-> 0] \in Places
         /\ Current(r).of \in Ofs
<1>1. pc[r] \in Places
  OBVIOUS
<1>2. pc[r].scenario \in 1 .. Len(Feature) + 1
  BY <1>1, PlaceTypes
<1>3. ~(pc[r].scenario > Len(Feature))
  BY DEF Finished
<1>4. pc[r].scenario \in 1 .. Len(Feature) /\ pc[r].scenario + 1 \in 1 .. Len(Feature) + 1
  BY <1>2, <1>3, LengthIsNat, Inside
<1>5. [scenario |-> pc[r].scenario + 1, step |-> 0] \in Places
  BY <1>4 DEF Places
<1>6. Current(r).of \in Ofs
  BY <1>4 DEF Current, Ofs
<1> QED BY <1>4, <1>5, <1>6

LEMMA AfterNotFirst == \A n \in Nat : n + 1 # 0
OBVIOUS

(* What a step sends is a request of the client.                            *)
LEMMA StepSends ==
  ASSUME pc \in [Run -> Places], NEW r \in Run, InStep(r), Step(r).do = "send"
  PROVE  Step(r).request \in Request
<1>1. pc[r].scenario \in 1 .. Len(Feature)
  BY Running DEF InStep
<1>2. pc[r].step \in 1 .. Len(Feature[pc[r].scenario].steps)
  BY DEF InStep, Current
<1> QED BY <1>1, <1>2, StepsAssumption DEF Step, Current

-----------------------------------------------------------------------------
(* The server.                                                             *)

(* A request leaves an entry.                                              *)
LEMMA PerformedType ==
  ASSUME NEW q \in Request, NEW e \in Entry
  PROVE  Performed(q, e) \in Entry
<1> USE DEF Entry, Lists, Providers
<1>1. CASE q.op \in {"publish tsp", "update tsp"}
  <2>1. q.body \in {"Company-A", "XYZ"}
    BY <1>1 DEF Request, Removes, Inits
  <2> QED BY <1>1, <2>1 DEF Performed, After
<1>2. CASE q.op = "create did"
  <2>1. Accepts(q, e) => q.body \in Did
    BY <1>2, GoodDidAssumption DEF Accepts, Inits, Removes
  <2> QED BY <1>2, <2>1 DEF Performed, After
<1>3. CASE q.op \notin {"publish tsp", "update tsp", "create did"}
  BY <1>3 DEF Performed, After
<1> QED BY <1>1, <1>2, <1>3

LEMMA PerformKeepsType ==
  ASSUME entry \in [Pointer -> Entry], NEW q \in Request, Perform(q)
  PROVE  entry' \in [Pointer -> Entry]
<1>1. q.ptr \in Pointer
  BY DEF Request
<1>2. Performed(q, entry[q.ptr]) \in Entry
  BY <1>1, PerformedType
<1> QED BY <1>1, <1>2 DEF Perform

LEMMA AnswerStatus ==
  ASSUME NEW q, NEW e, NEW a \in Answers(q, e)
  PROVE  a.status \in Statuses
BY DEF Answers, Statuses
-----------------------------------------------------------------------------
(* Type correctness, one action after the other.                            *)

(* Between two scenarios nothing is left in the context.                    *)
Layered == \A r \in Run : pc[r].step = 0 => token[r] = "none" /\ response[r] = NoResponse

(* What only a run changes.                                                *)
RunTypes ==
  /\ entry \in [Pointer -> Entry]
  /\ pc \in [Run -> Places]
  /\ token \in [Run -> Tokens] /\ file \in [Run -> Tokens]
  /\ \A r \in Run : response[r].status \in Statuses
  /\ DOMAIN response = Run
  /\ failed \in [Run -> SUBSET Ofs]
  /\ Layered

BookTypes ==
  /\ late \subseteq Request
  /\ faults \in 0 .. MaxFaults
  /\ disturbed \in [Run -> BOOLEAN] /\ dirty \in [Run -> BOOLEAN]

Typed == RunTypes /\ BookTypes

LEMMA TypedIsTypeOK == Typed => TypeOK
BY DEF Typed, RunTypes, BookTypes, Layered, TypeOK, Tokens, Statuses, Ofs

LEMMA InitTyped == Init => Typed
<1> SUFFICES ASSUME Init PROVE Typed
  OBVIOUS
<1>1. entry \in [Pointer -> Entry]
  BY LeftoverAssumption DEF Init
<1>2. Start \in Places
  BY LengthIsNat DEF Start, Places
<1>3. pc \in [Run -> Places] /\ failed \in [Run -> SUBSET Ofs]
  BY <1>2 DEF Init
<1>4. token \in [Run -> Tokens] /\ file \in [Run -> Tokens]
  BY DEF Init, Tokens
<1>5. (\A r \in Run : response[r].status \in Statuses) /\ DOMAIN response = Run
  BY DEF Init, NoResponse, Statuses
<1>6. BookTypes
  <2>1. 0 \in 0 .. MaxFaults
    BY MaxFaultsAssumption
  <2>2. faults = 0 /\ late = {}
    BY DEF Init
  <2>3. disturbed \in [Run -> BOOLEAN] /\ dirty \in [Run -> BOOLEAN]
    <3>1. Dirty(entry) \in BOOLEAN
      BY DEF Dirty
    <3>2. disturbed = [r \in Run |-> FALSE] /\ dirty = [r \in Run |-> Dirty(entry)]
      BY DEF Init
    <3> QED BY <3>1, <3>2, Zenon
  <2> QED BY <2>1, <2>2, <2>3 DEF BookTypes
<1>7. Layered
  BY DEF Init, Layered
<1> QED BY <1>1, <1>3, <1>4, <1>5, <1>6, <1>7 DEF Typed, RunTypes

LEMMA ProceedTyped ==
  ASSUME RunTypes, NEW r \in Run, Proceed(r)
  PROVE  pc' \in [Run -> Places] /\ failed' \in [Run -> SUBSET Ofs]
<1>1. [pc[r] EXCEPT !.step = @ + 1] \in Places
  BY PlaceTypes DEF RunTypes
<1>2. pc' = [pc EXCEPT ![r] = [pc[r] EXCEPT !.step = @ + 1]]
  BY DEF Proceed
<1> QED BY <1>1, <1>2 DEF RunTypes, Proceed

LEMMA LeaveTyped ==
  ASSUME RunTypes, NEW r \in Run, ~Finished(r), Leave(r),
         UNCHANGED failed \/ Fails(r)
  PROVE  RunTypes'
<1>1. pc' = [pc EXCEPT ![r] = [scenario |-> pc[r].scenario + 1, step |-> 0]]
  BY DEF Leave
<1>2. pc' \in [Run -> Places]
  BY <1>1, Running DEF RunTypes
<1>3. token' \in [Run -> Tokens] /\ file' \in [Run -> Tokens]
      /\ entry' \in [Pointer -> Entry]
  <2>1. token' = [token EXCEPT ![r] = "none"] /\ UNCHANGED <<entry, file>>
    BY DEF Leave
  <2>2. "none" \in Tokens
    BY DEF Tokens
  <2> QED BY <2>1, <2>2 DEF RunTypes
<1>4. (\A q \in Run : response'[q].status \in Statuses) /\ DOMAIN response' = Run
  <2>1. response' = [response EXCEPT ![r] = NoResponse]
    BY DEF Leave
  <2>2. NoResponse.status \in Statuses
    BY DEF NoResponse, Statuses
  <2> QED BY <2>1, <2>2 DEF RunTypes
<1>5. failed' \in [Run -> SUBSET Ofs]
  <2>1. Current(r).of \in Ofs
    BY Running DEF RunTypes
  <2>2. Fails(r) => failed' = [failed EXCEPT ![r] = @ \cup {Current(r).of}]
    BY DEF Fails
  <2> HIDE DEF Ofs
  <2> QED BY <2>1, <2>2 DEF RunTypes
<1>6. Layered'
  BY <1>1 DEF Leave, RunTypes, Layered
<1> QED BY <1>2, <1>3, <1>4, <1>5, <1>6 DEF RunTypes

LEMMA FailsTyped ==
  ASSUME RunTypes, NEW r \in Run, ~Finished(r), Fails(r)
  PROVE  RunTypes'
BY LeaveTyped DEF Fails

(* A step after which the run goes on, and what it may change.              *)
LEMMA StepTyped ==
  ASSUME RunTypes, NEW r \in Run, Proceed(r),
         entry' \in [Pointer -> Entry],
         NEW t \in Tokens, token' = token \/ token' = [token EXCEPT ![r] = t],
         NEW f \in Tokens, file' = file \/ file' = [file EXCEPT ![r] = f],
         NEW a, a.status \in Statuses,
         response' = response \/ response' = [response EXCEPT ![r] = a]
  PROVE  RunTypes'
<1>1. pc' \in [Run -> Places] /\ failed' \in [Run -> SUBSET Ofs]
  BY ProceedTyped
<1>2. token' \in [Run -> Tokens] /\ file' \in [Run -> Tokens]
  BY DEF RunTypes
<1>3. (\A q \in Run : response'[q].status \in Statuses) /\ DOMAIN response' = Run
  BY DEF RunTypes
<1>4. Layered'
  <2> SUFFICES ASSUME NEW q \in Run, pc'[q].step = 0
               PROVE  token'[q] = "none" /\ response'[q] = NoResponse
    BY DEF Layered
  <2>1. pc[r] \in Places /\ pc' = [pc EXCEPT ![r] = [pc[r] EXCEPT !.step = @ + 1]]
    BY DEF RunTypes, Proceed
  <2>2. [pc[r] EXCEPT !.step = @ + 1].step # 0
    BY <2>1, PlaceTypes, AfterNotFirst
  <2>3. q # r /\ pc'[q] = pc[q]
    BY <2>1, <2>2 DEF RunTypes
  <2> QED BY <2>3 DEF RunTypes, Layered
<1> QED BY <1>1, <1>2, <1>3, <1>4 DEF RunTypes

LEMMA SendTyped ==
  ASSUME RunTypes, NEW r \in Run, InStep(r), SendRequest(r)
  PROVE  RunTypes'
<1> DEFINE q == Step(r).request
<1>1. q \in Request
  BY StepSends DEF SendRequest, RunTypes
<1>2. Proceed(r) /\ token' = token /\ file' = file
  BY DEF SendRequest
<1>3. CASE token[r] = "tspa"
  <2>1. Perform(q)
    BY <1>3 DEF SendRequest
  <2>2. PICK a \in Answers(q, entry[q.ptr]) : response' = [response EXCEPT ![r] = a]
    BY <1>3 DEF SendRequest
  <2>3. entry' \in [Pointer -> Entry]
    BY <1>1, <2>1, PerformKeepsType DEF RunTypes
  <2>4. a.status \in Statuses
    BY AnswerStatus
  <2>5. "none" \in Tokens
    BY DEF Tokens
  <2> QED BY <1>2, <2>2, <2>3, <2>4, <2>5, StepTyped
<1>4. CASE token[r] # "tspa"
  <2> DEFINE a == [status |-> 401, message |-> ""]
  <2>1. entry' = entry /\ response' = [response EXCEPT ![r] = a]
    BY <1>4 DEF SendRequest
  <2>2. a.status \in Statuses /\ "none" \in Tokens
    BY DEF Statuses, Tokens
  <2>3. entry' \in [Pointer -> Entry]
    BY <2>1 DEF RunTypes
  <2> HIDE DEF a
  <2> QED BY <1>2, <2>1, <2>2, <2>3, StepTyped
<1> QED BY <1>3, <1>4

LEMMA RunStepTyped ==
  ASSUME RunTypes, NEW r \in Run, RunStep(r)
  PROVE  RunTypes'
<1>0. /\ entry \in [Pointer -> Entry] /\ token[r] \in Tokens /\ file[r] \in Tokens
      /\ {"none", "tspa"} \subseteq Tokens
      /\ NoResponse.status \in Statuses
  BY DEF RunTypes, Tokens, NoResponse, Statuses
<1>1. CASE Background(r)
  BY <1>0, <1>1, StepTyped DEF Background
<1>2. CASE InStep(r) /\ FetchToken(r)
  BY <1>0, <1>2, StepTyped DEF FetchToken
<1>3. CASE InStep(r) /\ SaveToken(r)
  BY <1>0, <1>3, StepTyped DEF SaveToken
<1>4. CASE InStep(r) /\ LoadToken(r)
  <2>1. CASE file[r] = "none"
    BY <1>4, <2>1, FailsTyped DEF LoadToken, InStep
  <2>2. CASE file[r] # "none"
    BY <1>0, <1>4, <2>2, StepTyped DEF LoadToken
  <2> QED BY <2>1, <2>2
<1>5. CASE InStep(r) /\ SendRequest(r)
  BY <1>5, SendTyped
<1>6. CASE InStep(r) /\ Judge(r)
  <2>1. \/ Proceed(r) /\ UNCHANGED <<entry, token, file, response>>
        \/ Fails(r)
    BY <1>6 DEF Judge
  <2>2. CASE Proceed(r) /\ UNCHANGED <<entry, token, file, response>>
    BY <1>0, <2>2, StepTyped
  <2>3. CASE Fails(r)
    BY <1>6, <2>3, FailsTyped DEF InStep
  <2> QED BY <2>1, <2>2, <2>3
<1>7. CASE EndScenario(r)
  BY <1>7, LeaveTyped DEF EndScenario
<1> QED BY <1>1, <1>2, <1>3, <1>4, <1>5, <1>6, <1>7 DEF RunStep

LEMMA DisturbsTyped ==
  ASSUME disturbed \in [Run -> BOOLEAN], NEW R, Disturbs(R)
  PROVE  disturbed' \in [Run -> BOOLEAN]
BY Zenon DEF Disturbs

LEMMA FaultTyped ==
  ASSUME BookTypes, NEW r \in Run, Fault(r), late' \subseteq Request
  PROVE  BookTypes'
<1>1. faults' \in 0 .. MaxFaults
  BY MaxFaultsAssumption DEF Fault, BookTypes
<1>2. disturbed' \in [Run -> BOOLEAN] /\ dirty' = dirty
  BY DEF Fault, BookTypes
<1> QED BY <1>1, <1>2 DEF BookTypes

LEMMA TimesOutTyped ==
  ASSUME Typed, NEW r \in Run, TimesOut(r)
  PROVE  Typed'
<1>1. Fault(r) /\ InStep(r) /\ Fails(r) /\ ~Finished(r)
  BY DEF TimesOut, InStep
<1>2. Step(r).do = "send" => Step(r).request \in Request
  BY <1>1, StepSends DEF Typed, RunTypes
<1>3. late' \subseteq Request
  BY <1>2 DEF TimesOut, Typed, BookTypes
<1> QED BY <1>1, <1>3, FailsTyped, FaultTyped DEF Typed

LEMMA TokenLostTyped ==
  ASSUME Typed, NEW r \in Run, TokenLost(r)
  PROVE  Typed'
<1>1. Fault(r) /\ UNCHANGED <<entry, pc, response, failed, late>>
  BY DEF TokenLost
<1>2. token' \in [Run -> Tokens] /\ file' \in [Run -> Tokens]
  BY DEF TokenLost, Typed, RunTypes, Tokens
<1>3. Layered'
  BY <1>1 DEF TokenLost, Typed, RunTypes, Layered
<1>5. RunTypes'
  BY <1>1, <1>2, <1>3 DEF Typed, RunTypes
<1>4. BookTypes'
  BY <1>1, FaultTyped DEF Typed, BookTypes
<1> QED BY <1>4, <1>5 DEF Typed

LEMMA LateLandsTyped ==
  ASSUME Typed, LateLands
  PROVE  Typed'
<1>1. PICK q \in late : Perform(q) /\ late' = late \ {q}
  BY DEF LateLands
<1>2. entry' \in [Pointer -> Entry]
  BY <1>1, PerformKeepsType DEF Typed, BookTypes, RunTypes
<1>3. UNCHANGED <<runVars, faults, dirty>> /\ Disturbs(Run)
  BY DEF LateLands
<1>4. RunTypes'
  BY <1>2, <1>3 DEF Typed, RunTypes, Layered, runVars
<1>5. disturbed' \in [Run -> BOOLEAN]
  BY <1>3, DisturbsTyped DEF Typed, BookTypes
<1> QED BY <1>1, <1>3, <1>4, <1>5 DEF Typed, BookTypes

LEMMA CleanAllTyped ==
  ASSUME Typed, CleanAllElsewhere
  PROVE  Typed'
<1>1. PICK p \in Pointer :
        entry' = [entry EXCEPT ![p].published = FALSE, ![p].did = "none"]
  BY DEF CleanAllElsewhere
<1>2. entry' \in [Pointer -> Entry]
  BY <1>1 DEF Typed, RunTypes, Entry
<1>3. UNCHANGED <<runVars, late, dirty>> /\ Disturbs(Run)
  BY DEF CleanAllElsewhere
<1>4. RunTypes'
  BY <1>2, <1>3 DEF Typed, RunTypes, Layered, runVars
<1>5. faults' \in 0 .. MaxFaults
  BY MaxFaultsAssumption DEF CleanAllElsewhere, Typed, BookTypes
<1>6. disturbed' \in [Run -> BOOLEAN]
  BY <1>3, DisturbsTyped DEF Typed, BookTypes
<1> QED BY <1>3, <1>4, <1>5, <1>6 DEF Typed, BookTypes

LEMMA NextTyped ==
  ASSUME Typed, [Next]_vars
  PROVE  Typed'
<1>1. ASSUME NEW r \in Run, RunStep(r) PROVE Typed'
  <2>1. RunTypes'
    BY <1>1, RunStepTyped DEF Typed
  <2>2. UNCHANGED <<late, faults, dirty>> /\ Disturbs(Run \ {r})
    BY <1>1 DEF RunStep
  <2>3. disturbed' \in [Run -> BOOLEAN]
    BY <2>2, DisturbsTyped DEF Typed, BookTypes
  <2> QED BY <2>1, <2>2, <2>3 DEF Typed, BookTypes
<1>2. ASSUME NEW r \in Run, NotUp(r) PROVE Typed'
  <2>1. Fault(r) /\ Fails(r) /\ ~Finished(r) /\ late' = late
    BY <1>2 DEF NotUp, Fault
  <2> QED BY <2>1, FailsTyped, FaultTyped DEF Typed, BookTypes
<1>3. ASSUME NEW r \in Run, TimesOut(r) PROVE Typed'
  BY <1>3, TimesOutTyped
<1>4. ASSUME NEW r \in Run, TokenLost(r) PROVE Typed'
  BY <1>4, TokenLostTyped
<1>5. CASE LateLands
  BY <1>5, LateLandsTyped
<1>6. CASE CleanAllElsewhere
  BY <1>6, CleanAllTyped
<1>7. CASE Stop \/ UNCHANGED vars
  BY <1>7 DEF Stop, vars, runVars, Typed, RunTypes, Layered, BookTypes
<1> QED BY <1>1, <1>2, <1>3, <1>4, <1>5, <1>6, <1>7 DEF Next

(* In every state of any number of runs of any features, every run is at a    *)
(* step of its features, the TSPA holds entries of the kind the features know, *)
(* and what is still to land there is a request of the client.              *)
THEOREM TypesCorrect == Spec => []TypeOK
<1>1. Init => Typed
  BY InitTyped
<1>2. Typed /\ [Next]_vars => Typed'
  BY NextTyped
<1> QED BY <1>1, <1>2, TypedIsTypeOK, PTL DEF Spec

-----------------------------------------------------------------------------
(* What a step leaves of the other runs.                                    *)

Untouched(r) ==
  /\ pc'[r] = pc[r] /\ token'[r] = token[r] /\ file'[r] = file[r]
  /\ response'[r] = response[r] /\ failed'[r] = failed[r]

LEMMA LeavesOthers ==
  ASSUME Typed, NEW r \in Run, NEW q \in Run \ {r}, Fails(r) \/ (Leave(r) /\ UNCHANGED failed)
  PROVE  Untouched(q)
BY DEF Typed, RunTypes, Fails, Leave, Untouched

LEMMA StepsAlone ==
  ASSUME Typed, NEW r \in Run, NEW q \in Run \ {r}, RunStep(r)
  PROVE  Untouched(q)
<1> DEFINE moves == /\ Proceed(r)
                    /\ token' = token \/ \E t : token' = [token EXCEPT ![r] = t]
                    /\ file' = file \/ \E f : file' = [file EXCEPT ![r] = f]
                    /\ response' = response \/ \E a : response' = [response EXCEPT ![r] = a]
<1>1. ASSUME moves PROVE Untouched(q)
  BY <1>1 DEF Typed, RunTypes, Proceed, Untouched
<1>2. CASE Background(r) \/ FetchToken(r) \/ SaveToken(r)
  <2>1. moves
    BY <1>2 DEF Background, FetchToken, SaveToken
  <2> QED BY <1>1, <2>1
<1>3. CASE LoadToken(r) \/ Judge(r)
  <2>1. moves \/ Fails(r)
    BY <1>3 DEF LoadToken, Judge
  <2> HIDE DEF moves
  <2> QED BY <1>1, <2>1, LeavesOthers
<1>4. CASE SendRequest(r)
  <2>1. moves
    BY <1>4 DEF SendRequest
  <2> QED BY <1>1, <2>1
<1>5. CASE EndScenario(r)
  BY <1>5, LeavesOthers DEF EndScenario
<1> QED BY <1>2, <1>3, <1>4, <1>5 DEF RunStep

(* A step of a run goes on in its scenario or leaves it.                     *)
LEMMA GoesOrLeaves ==
  ASSUME NEW r \in Run, RunStep(r)
  PROVE  Proceed(r) \/ Leave(r)
<1>1. CASE Background(r) \/ FetchToken(r) \/ SaveToken(r) \/ SendRequest(r)
  BY <1>1 DEF Background, FetchToken, SaveToken, SendRequest
<1>2. CASE LoadToken(r) \/ Judge(r)
  BY <1>2 DEF LoadToken, Judge, Fails
<1>3. CASE EndScenario(r)
  BY <1>3 DEF EndScenario
<1> QED BY <1>1, <1>2, <1>3 DEF RunStep
=============================================================================
