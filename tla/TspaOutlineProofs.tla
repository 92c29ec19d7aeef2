------------------------- MODULE TspaOutlineProofs -------------------------
(***************************************************************************)
(* Runs of any features that have an outline keep to it, in any number and    *)
(* whatever goes wrong.                                                     *)
(***************************************************************************)
EXTENDS TspaOutline, TspaFeatureProofs

-----------------------------------------------------------------------------
(* The places of a run and those of the outline.                            *)

LEMMA OfPositions ==
  ASSUME NEW k \in Positions
  PROVE  /\ k.scenario \in 1 .. Len(Feature) + 1 /\ k.step \in Nat
         /\ k.scenario > Len(Feature) <=> k = End
         /\ k # End => /\ k.scenario \in 1 .. Len(Feature)
                       /\ k = [scenario |-> k.scenario, step |-> k.step]
                       /\ k.step \in 0 .. Len(StepsAt(k)) + 1
                       /\ Len(StepsAt(k)) \in Nat
<1>1. CASE k = End
  BY <1>1, LengthIsNat DEF End
<1>2. CASE k # End
  <2>1. PICK i \in 1 .. Len(Feature) :
          k \in [scenario : {i}, step : 0 .. Len(Feature[i].steps) + 1]
    BY <1>2 DEF Positions
  <2>2. k.scenario = i /\ k.step \in 0 .. Len(Feature[i].steps) + 1
        /\ k = [scenario |-> k.scenario, step |-> k.step]
    BY <2>1
  <2>3. Len(Feature[i].steps) \in Nat
    BY StepsAssumption
  <2>4. i \in 1 .. Len(Feature) + 1 /\ ~(i > Len(Feature))
    BY LengthIsNat
  <2>5. k.step \in Nat
    BY <2>2, <2>3
  <2> QED BY <1>2, <2>2, <2>3, <2>4, <2>5 DEF StepsAt
<1> QED BY <1>1, <1>2

LEMMA Counted ==
  ASSUME NEW n \in Nat, NEW k \in 0 .. n + 1
  PROVE  /\ k > n <=> k = n + 1
         /\ k > n \/ k = 0 \/ k \in 1 .. n
         /\ ~(k > n) => k + 1 \in 0 .. n + 1
         /\ k \in 1 .. n => ~(k > n) /\ k # 0
OBVIOUS

LEMMA APosition ==
  ASSUME NEW i \in 1 .. Len(Feature), NEW j \in 0 .. Len(Feature[i].steps) + 1
  PROVE  [scenario |-> i, step |-> j] \in Positions
BY DEF Positions

LEMMA NextPositions ==
  ASSUME NEW k \in Positions, k # End
  PROVE  /\ ~Over(k) => On(k) \in Positions
         /\ Off(k) \in Positions
         /\ Stepping(k) => ~Over(k) /\ k.step # 0
         /\ Over(k) \/ Stepping(k) \/ k.step = 0
<1> DEFINE n == Len(StepsAt(k))
<1>1. /\ k.scenario \in 1 .. Len(Feature) /\ k.step \in 0 .. n + 1 /\ n \in Nat
      /\ k = [scenario |-> k.scenario, step |-> k.step]
  BY OfPositions
<1>2. /\ k.step > n \/ k.step = 0 \/ k.step \in 1 .. n
      /\ ~(k.step > n) => k.step + 1 \in 0 .. n + 1
      /\ k.step \in 1 .. n => ~(k.step > n) /\ k.step # 0
  BY <1>1, Counted
<1>3. On(k) = [scenario |-> k.scenario, step |-> k.step + 1]
  BY <1>1 DEF On
<1>4. ~Over(k) => On(k) \in Positions
  BY <1>1, <1>2, <1>3, APosition DEF Over, StepsAt
<1>5. Off(k) \in Positions
  <2>1. CASE k.scenario = Len(Feature)
    BY <2>1 DEF Positions, End, Off
  <2>2. CASE k.scenario # Len(Feature)
    <3>1. k.scenario + 1 \in 1 .. Len(Feature)
      BY <1>1, <2>2, LengthIsNat
    <3>2. Len(Feature[k.scenario + 1].steps) \in Nat
      BY <3>1, StepsAssumption
    <3>3. 0 \in 0 .. Len(Feature[k.scenario + 1].steps) + 1
      BY <3>2
    <3> QED BY <3>1, <3>3, APosition DEF Off
  <2> QED BY <2>1, <2>2
<1> QED BY <1>2, <1>4, <1>5 DEF Over, Stepping

LEMMA NotOver ==
  ASSUME NEW k \in Positions, k # End, k.step = 0 \/ Stepping(k)
  PROVE  ~Over(k) /\ (Stepping(k) => k.step # 0)
<1>1. Len(StepsAt(k)) \in Nat
  BY OfPositions
<1>2. k.step = 0 => ~Over(k)
  BY <1>1 DEF Over
<1> QED BY <1>2, NextPositions

LEMMA StartIsPosition == Start \in Positions
<1>1. CASE Len(Feature) = 0
  BY <1>1 DEF Positions, End, Start
<1>2. CASE Len(Feature) # 0
  <2>1. 1 \in 1 .. Len(Feature)
    BY <1>2, LengthIsNat
  <2>2. Len(Feature[1].steps) \in Nat
    BY <2>1, StepsAssumption
  <2>3. 0 \in 0 .. Len(Feature[1].steps) + 1
    BY <2>2
  <2> QED BY <2>1, <2>3, APosition DEF Start
<1> QED BY <1>1, <1>2

(* What the operators of TspaFeature say at a position.                     *)
LEMMA AtPosition ==
  ASSUME AtPositions, NEW r \in Run
  PROVE  /\ pc[r] \in Positions
         /\ Finished(r) <=> pc[r] = End
         /\ InStep(r) => ~Finished(r) /\ Stepping(pc[r])
         /\ Step(r) = StepAt(pc[r]) /\ Current(r) = Feature[pc[r].scenario]
         /\ pc[r].step > Len(Current(r).steps) <=> Over(pc[r])
<1>1. pc[r] \in Positions
  BY DEF AtPositions
<1>2. Finished(r) <=> pc[r] = End
  BY <1>1, OfPositions DEF Finished
<1> QED
  BY <1>1, <1>2 DEF InStep, Stepping, Step, StepAt, StepsAt, Current, Over

(* A run that goes on in its scenario, or leaves it, comes to a position.    *)
LEMMA MovePositions ==
  ASSUME AtPositions, NEW r \in Run, ~Finished(r),
         Leave(r) \/ (Proceed(r) /\ (pc[r].step = 0 \/ InStep(r)))
  PROVE  AtPositions'
<1>1. pc[r] \in Positions /\ pc[r] # End /\ (InStep(r) => Stepping(pc[r]))
  BY AtPosition
<1>2. CASE Leave(r)
  <2>1. pc' = [pc EXCEPT ![r] = Off(pc[r])]
    BY <1>2 DEF Leave, Off
  <2> QED BY <1>1, <2>1, NextPositions DEF AtPositions
<1>3. CASE Proceed(r) /\ (pc[r].step = 0 \/ InStep(r))
  <2>1. pc' = [pc EXCEPT ![r] = On(pc[r])]
    BY <1>3 DEF Proceed, On
  <2>2. On(pc[r]) \in Positions
    BY <1>1, <1>3, NotOver, NextPositions
  <2> QED BY <2>1, <2>2 DEF AtPositions
<1> QED BY <1>2, <1>3

-----------------------------------------------------------------------------
(* The outline and one step.                                                *)

LEMMA FitsIncluded ==
  ASSUME NEW n, NEW o, Includes(n, o), NEW found, NEW t, NEW f, NEW a,
         Fits(o, found, t, f, a)
  PROVE  Fits(n, found, t, f, a)
BY DEF Includes, Fits

LEMMA OutlineLeads ==
  ASSUME NEW mode \in Modes, NEW k \in Positions, k # End
  PROVE  Leads(mode, k)
BY OutlineAssumption

(* A run that goes on to the next step.                                     *)
LEMMA GoesOnFits ==
  ASSUME AtPositions, NEW r \in Run, ~Finished(r), NEW mode \in Modes,
         Proceed(r),
         pc[r].step = 0 \/ (Stepping(pc[r]) /\ StepAt(pc[r]).do \in TspaSteps),
         Fits(Onward(pc[r], Outline(mode, pc[r])), entry', token'[r], file'[r], response'[r])
  PROVE  FitsAt(mode, r)' /\ pc'[r] = On(pc[r]) /\ AtPositions'
<1> DEFINE k == pc[r]
<1>1. k \in Positions /\ k # End
  BY AtPosition
<1>2. pc' = [pc EXCEPT ![r] = On(k)]
  BY DEF Proceed, On
<1>3. On(k) \in Positions
  BY <1>1, NotOver, NextPositions
<1>4. pc'[r] = On(k) /\ AtPositions'
  BY <1>2, <1>3 DEF AtPositions
<1>5. Includes(Outline(mode, On(k)), Onward(k, Outline(mode, k)))
  BY <1>1, OutlineLeads DEF Leads
<1>6. Fits(Outline(mode, On(k)), entry', token'[r], file'[r], response'[r])
  BY <1>5, FitsIncluded
<1> QED BY <1>4, <1>6 DEF FitsAt

(* A run that goes on to the next scenario.                                 *)
LEMMA LeavesFits ==
  ASSUME Typed, AtPositions, NEW r \in Run, ~Finished(r), NEW mode \in Modes,
         FitsAt(mode, r), Leave(r),
         Includes(Outline(mode, Off(pc[r])), Skipped(Outline(mode, pc[r])))
  PROVE  FitsAt(mode, r)' /\ pc'[r] = Off(pc[r]) /\ AtPositions'
<1> DEFINE k == pc[r]
<1>1. k \in Positions /\ k # End
  BY AtPosition
<1>2. pc' = [pc EXCEPT ![r] = Off(k)]
  BY DEF Leave, Off
<1>3. Off(k) \in Positions
  BY <1>1, NextPositions
<1>4. pc'[r] = Off(k) /\ AtPositions'
  BY <1>2, <1>3 DEF AtPositions
<1>5. /\ entry' = entry /\ file' = file
      /\ token'[r] = "none" /\ response'[r] = NoResponse
  BY DEF Leave, Typed, RunTypes
<1>6. Fits(Skipped(Outline(mode, k)), entry', token'[r], file'[r], response'[r])
  BY <1>5 DEF FitsAt, Fits, Skipped, Finds
<1>7. Fits(Outline(mode, Off(k)), entry', token'[r], file'[r], response'[r])
  BY <1>6, FitsIncluded
<1> QED BY <1>4, <1>7 DEF FitsAt

(* A scenario that fails is one that may.                                   *)
LEMMA FailsFits ==
  ASSUME Typed, AtPositions, NEW r \in Run, InStep(r), NEW mode \in Modes,
         FitsAt(mode, r), Fails(r), CanFail(Step(r), Outline(mode, pc[r]))
  PROVE  /\ FitsAt(mode, r)' /\ AtPositions' /\ pc'[r] = Off(pc[r])
         /\ Excused(mode, pc[r])
         /\ failed' = [failed EXCEPT ![r] = @ \cup {Feature[pc[r].scenario].of}]
<1>1. /\ pc[r] \in Positions /\ pc[r] # End /\ Stepping(pc[r]) /\ ~Finished(r)
      /\ Step(r) = StepAt(pc[r]) /\ Current(r) = Feature[pc[r].scenario]
  BY AtPosition
<1>2. /\ Excused(mode, pc[r])
      /\ Includes(Outline(mode, Off(pc[r])), Skipped(Outline(mode, pc[r])))
  BY <1>1, OutlineLeads DEF Leads
<1>3. Leave(r) /\ failed' = [failed EXCEPT ![r] = @ \cup {Feature[pc[r].scenario].of}]
  BY <1>1 DEF Fails
<1> QED BY <1>1, <1>2, <1>3, LeavesFits

(* What a request makes of what the run found.                              *)
LEMMA SendFits ==
  ASSUME Typed, NEW r \in Run, NEW o, SendRequest(r), Step(r).request \in Request,
         Fits(o, entry, token[r], file[r], response[r])
  PROVE  Fits(SendMakes(Step(r).request, o), entry', token'[r], file'[r], response'[r])
<1> DEFINE q == Step(r).request
           m == SendMakes(q, o)
           found == o.found[q.ptr]
<1>1. /\ q.ptr \in Pointer /\ entry[q.ptr] \in found
      /\ token[r] \in o.token /\ file[r] \in o.file
      /\ \A p \in Pointer : entry[p] \in o.found[p]
  BY DEF Fits, Request
<1>2. token'[r] = token[r] /\ file'[r] = file[r]
  BY DEF SendRequest
<1>3. m.token = o.token /\ m.file = o.file
  BY DEF SendMakes, Finds
<1>4. \A p \in Pointer \ {q.ptr} : m.found[p] = o.found[p]
  BY DEF SendMakes, Finds
<1>5. m.found[q.ptr] = (IF "tspa" \in o.token THEN {Performed(q, e) : e \in found} ELSE {})
                         \cup (IF o.token # {"tspa"} THEN found ELSE {})
  BY <1>1 DEF SendMakes, Finds
<1>6. m.answer = (IF "tspa" \in o.token THEN UNION {Answers(q, e) : e \in found} ELSE {})
                   \cup (IF o.token # {"tspa"} THEN {NotAuthorised} ELSE {})
  BY DEF SendMakes, Finds
<1>7. DOMAIN response = Run
  BY DEF Typed, RunTypes
<1> HIDE DEF m, q, found
<1>8. CASE token[r] = "tspa"
  <2>1. entry' = [entry EXCEPT ![q.ptr] = Performed(q, @)] /\ DOMAIN entry = Pointer
    BY <1>8 DEF SendRequest, Perform, Typed, RunTypes, q
  <2>2. PICK a \in Answers(q, entry[q.ptr]) : response' = [response EXCEPT ![r] = a]
    BY <1>8 DEF SendRequest, q
  <2>3. "tspa" \in o.token
    BY <1>1, <1>8
  <2>4. Performed(q, entry[q.ptr]) \in m.found[q.ptr]
    BY <1>1, <1>5, <2>3
  <2>5. \A p \in Pointer : entry'[p] \in m.found[p]
    BY <1>1, <1>4, <2>1, <2>4
  <2>6. response'[r] \in m.answer
    BY <1>1, <1>6, <1>7, <2>2, <2>3
  <2> QED BY <1>1, <1>2, <1>3, <2>5, <2>6 DEF Fits, m, q
<1>9. CASE token[r] # "tspa"
  <2>1. entry' = entry /\ response' = [response EXCEPT ![r] = NotAuthorised]
    BY <1>9 DEF SendRequest, NotAuthorised
  <2>2. o.token # {"tspa"}
    BY <1>1, <1>9
  <2>3. \A p \in Pointer : entry'[p] \in m.found[p]
    BY <1>1, <1>4, <1>5, <2>1, <2>2
  <2>4. response'[r] \in m.answer
    BY <1>6, <1>7, <2>1, <2>2
  <2> QED BY <1>1, <1>2, <1>3, <2>3, <2>4 DEF Fits, m, q
<1> QED BY <1>8, <1>9

(* Every step of a run leads along the outline.                             *)
LEMMA OwnStepFits ==
  ASSUME Typed, AtPositions, NEW r \in Run, NEW mode \in Modes, FitsAt(mode, r), RunStep(r)
  PROVE  /\ FitsAt(mode, r)' /\ AtPositions'
         /\ \/ failed' = failed
            \/ /\ Excused(mode, pc[r])
               /\ failed' = [failed EXCEPT ![r] = @ \cup {Feature[pc[r].scenario].of}]
<1> DEFINE k == pc[r]
           o == Outline(mode, k)
           s == Step(r)
<1>0. /\ k \in Positions /\ (Finished(r) <=> k = End)
      /\ InStep(r) => Stepping(k) /\ ~Finished(r)
      /\ s = StepAt(k)
      /\ k.step > Len(Current(r).steps) <=> Over(k)
  BY AtPosition
<1>1. Fits(o, entry, token[r], file[r], response[r])
  BY DEF FitsAt
<1>2. \A a, b : Proceed(r) => failed' = failed
  BY DEF Proceed
<1>3. k # End /\ Stepping(k) => k.step # 0
  BY <1>0, NotOver
<1>4. /\ DOMAIN token = Run /\ DOMAIN file = Run /\ DOMAIN response = Run
  BY DEF Typed, RunTypes
<1> HIDE DEF o, s
<1>5. CASE Background(r)
  <2>1. ~Finished(r) /\ k.step = 0 /\ Proceed(r) /\ token'[r] = "none"
        /\ UNCHANGED <<entry, file, response>>
    BY <1>5, <1>4 DEF Background
  <2>2. Fits(Onward(k, o), entry', token'[r], file'[r], response'[r])
    BY <1>1, <2>1 DEF Fits, Onward, Finds
  <2> QED BY <1>2, <2>1, <2>2, GoesOnFits DEF o
<1>6. ASSUME InStep(r), Proceed(r), s.do \in TspaSteps,
             Fits(StepMakes(s, o), entry', token'[r], file'[r], response'[r])
      PROVE  FitsAt(mode, r)' /\ AtPositions' /\ failed' = failed
  <2>1. Fits(Onward(k, o), entry', token'[r], file'[r], response'[r])
    BY <1>0, <1>3, <1>6 DEF Onward
  <2> QED BY <1>0, <1>2, <1>6, <2>1, GoesOnFits DEF o
<1>7. ASSUME InStep(r), Fails(r), CanFail(s, o)
      PROVE  /\ FitsAt(mode, r)' /\ AtPositions' /\ Excused(mode, k)
             /\ failed' = [failed EXCEPT ![r] = @ \cup {Feature[k.scenario].of}]
  BY <1>7, FailsFits DEF o, s
<1>8. CASE InStep(r) /\ FetchToken(r)
  <2>1. s.do = "fetch token" /\ Proceed(r) /\ token'[r] = "tspa"
        /\ UNCHANGED <<entry, file, response>>
    BY <1>8, <1>4 DEF FetchToken, s
  <2>2. StepMakes(s, o) = Finds(o.found, {"tspa"}, o.file, o.answer)
    BY <2>1 DEF StepMakes
  <2>3. Fits(Finds(o.found, {"tspa"}, o.file, o.answer), entry', token'[r], file'[r], response'[r])
    BY <1>1, <2>1 DEF Fits, Finds
  <2> QED BY <1>6, <1>8, <2>1, <2>2, <2>3 DEF TspaSteps
<1>9. CASE InStep(r) /\ SaveToken(r)
  <2>1. s.do = "save token" /\ Proceed(r) /\ file'[r] = token[r]
        /\ UNCHANGED <<entry, token, response>>
    BY <1>9, <1>4 DEF SaveToken, s
  <2>2. StepMakes(s, o) = Finds(o.found, o.token, o.token, o.answer)
    BY <2>1 DEF StepMakes
  <2>3. Fits(Finds(o.found, o.token, o.token, o.answer), entry', token'[r], file'[r], response'[r])
    BY <1>1, <2>1 DEF Fits, Finds
  <2> QED BY <1>6, <1>9, <2>1, <2>2, <2>3 DEF TspaSteps
<1>10. CASE InStep(r) /\ LoadToken(r)
  <2>1. s.do = "load token"
    BY <1>10 DEF LoadToken, s
  <2>2. StepMakes(s, o) = Finds(o.found, o.file \ {"none"}, o.file \ {"none"}, o.answer)
    BY <2>1 DEF StepMakes
  <2>3. CASE file[r] = "none"
    <3>1. Fails(r)
      BY <1>10, <2>3 DEF LoadToken
    <3>2. CanFail(s, o)
      BY <1>1, <2>1, <2>3 DEF Fits, CanFail
    <3> QED BY <1>7, <1>10, <3>1, <3>2
  <2>4. CASE file[r] # "none"
    <3>1. Proceed(r) /\ token'[r] = file[r] /\ UNCHANGED <<entry, file, response>>
      BY <1>10, <1>4, <2>4 DEF LoadToken
    <3>2. Fits(StepMakes(s, o), entry', token'[r], file'[r], response'[r])
      BY <1>1, <2>2, <2>4, <3>1 DEF Fits, Finds
    <3> QED BY <1>6, <1>10, <2>1, <3>1, <3>2 DEF TspaSteps
  <2> QED BY <2>3, <2>4
<1>11. CASE InStep(r) /\ SendRequest(r)
  <2>1. s.do = "send" /\ Proceed(r)
    BY <1>11 DEF SendRequest, s
  <2>2. s.request \in Request
    BY <1>11, <2>1, StepSends DEF Typed, RunTypes, s
  <2>3. Fits(SendMakes(s.request, o), entry', token'[r], file'[r], response'[r])
    BY <1>1, <1>11, <2>2, SendFits DEF s
  <2>4. StepMakes(s, o) = SendMakes(s.request, o)
    BY <2>1 DEF StepMakes
  <2> QED BY <1>6, <1>11, <2>1, <2>3, <2>4 DEF TspaSteps
<1>12. CASE InStep(r) /\ Judge(r)
  <2>1. /\ s.do \in {"status", "content"}
        /\ IF Agrees(s, response[r])
           THEN Proceed(r) /\ UNCHANGED <<entry, token, file, response>>
           ELSE Fails(r)
    BY <1>12 DEF Judge, Agrees, s
  <2>2. StepMakes(s, o) =
          Finds(o.found, o.token, o.file, {a \in o.answer : Agrees(s, a)})
    BY <2>1 DEF StepMakes
  <2>3. CASE Agrees(s, response[r])
    <3>1. Fits(StepMakes(s, o), entry', token'[r], file'[r], response'[r])
      BY <1>1, <2>1, <2>2, <2>3 DEF Fits, Finds
    <3> QED BY <1>6, <1>12, <2>1, <2>3, <3>1 DEF TspaSteps
  <2>4. CASE ~Agrees(s, response[r])
    <3>1. CanFail(s, o)
      BY <1>1, <2>1, <2>4 DEF Fits, CanFail
    <3> QED BY <1>7, <1>12, <2>1, <2>4, <3>1
  <2> QED BY <2>3, <2>4
<1>13. CASE EndScenario(r)
  <2>1. ~Finished(r) /\ Over(k) /\ Leave(r) /\ failed' = failed
    BY <1>0, <1>13 DEF EndScenario
  <2>2. Includes(Outline(mode, Off(k)), Skipped(Outline(mode, k)))
    BY <1>0, <2>1, OutlineLeads DEF Leads
  <2> QED BY <2>1, <2>2, LeavesFits
<1> QED BY <1>5, <1>8, <1>9, <1>10, <1>11, <1>12, <1>13 DEF RunStep

(* The courses a step may take, as SettlesAssumption tells them apart.        *)
Course(k, o, r) ==
  \/ /\ Over(k) \/ (Stepping(k) /\ CanFail(StepAt(k), o))
     /\ pc'[r] = Off(k) /\ entry' = entry
  \/ /\ ~Over(k) /\ (Sends(k) => o.token # {"tspa"})
     /\ pc'[r] = On(k) /\ entry' = entry
  \/ /\ Sends(k) /\ "tspa" \in o.token
     /\ pc'[r] = On(k) /\ Perform(StepAt(k).request)

LEMMA ProceedGoesOn ==
  ASSUME AtPositions, NEW r \in Run, Proceed(r)
  PROVE  pc'[r] = On(pc[r])
BY DEF AtPositions, Proceed, On

LEMMA FailsGoesOff ==
  ASSUME AtPositions, NEW r \in Run, Leave(r)
  PROVE  pc'[r] = Off(pc[r]) /\ entry' = entry
BY DEF AtPositions, Leave, Off

LEMMA OwnStepCourse ==
  ASSUME AtPositions, NEW r \in Run, NEW mode, FitsAt(mode, r), RunStep(r)
  PROVE  Course(pc[r], Outline(mode, pc[r]), r)
<1> DEFINE k == pc[r]
           o == Outline(mode, k)
           s == Step(r)
<1>0. /\ k \in Positions /\ (Finished(r) <=> k = End)
      /\ InStep(r) => Stepping(k) /\ ~Finished(r)
      /\ s = StepAt(k)
      /\ k.step > Len(Current(r).steps) <=> Over(k)
  BY AtPosition
<1>1. token[r] \in o.token /\ file[r] \in o.file /\ response[r] \in o.answer
  BY DEF FitsAt, Fits
<1>2. k # End => /\ Stepping(k) => ~Over(k) /\ k.step # 0
                 /\ k.step = 0 => ~Over(k)
  BY <1>0, NotOver
<1>3. ASSUME Proceed(r), entry' = entry, ~Over(k), Sends(k) => o.token # {"tspa"}
      PROVE  Course(k, o, r)
  BY <1>3, ProceedGoesOn DEF Course
<1>4. ASSUME Fails(r), InStep(r), CanFail(s, o) PROVE Course(k, o, r)
  <2>1. pc'[r] = Off(k) /\ entry' = entry
    BY <1>4, FailsGoesOff DEF Fails
  <2> QED BY <1>0, <1>4, <2>1 DEF Course
<1>5. Sends(k) => s.do = "send"
  BY <1>0 DEF Sends
<1>a. InStep(r) => ~Over(k)
  BY <1>0, <1>2
<1> SUFFICES Course(k, o, r)
  OBVIOUS
<1> HIDE DEF o, s
<1>6. CASE Background(r)
  <2>1. Proceed(r) /\ entry' = entry /\ ~Finished(r) /\ k.step = 0
    BY <1>6 DEF Background
  <2>2. ~Over(k) /\ ~Sends(k)
    BY <1>0, <1>2, <2>1 DEF Sends
  <2> QED BY <1>3, <2>1, <2>2
<1>7. CASE InStep(r) /\ (FetchToken(r) \/ SaveToken(r))
  <2>1. Proceed(r) /\ entry' = entry /\ s.do # "send"
    BY <1>7 DEF FetchToken, SaveToken, s
  <2>2. ~Over(k) /\ ~Sends(k)
    BY <1>5, <1>7, <1>a, <2>1
  <2> QED BY <1>3, <2>1, <2>2
<1>8. CASE InStep(r) /\ LoadToken(r)
  <2>1. s.do = "load token"
    BY <1>8 DEF LoadToken, s
  <2>2. CASE file[r] = "none"
    <3>1. Fails(r) /\ CanFail(s, o)
      BY <1>1, <1>8, <2>1, <2>2 DEF LoadToken, CanFail
    <3> QED BY <1>4, <1>8, <3>1
  <2>3. CASE file[r] # "none"
    <3>1. Proceed(r) /\ entry' = entry
      BY <1>8, <2>3 DEF LoadToken
    <3>2. ~Over(k) /\ ~Sends(k)
      BY <1>5, <1>8, <1>a, <2>1
    <3> QED BY <1>3, <3>1, <3>2
  <2> QED BY <2>2, <2>3
<1>9. CASE InStep(r) /\ SendRequest(r)
  <2>1. Sends(k) /\ Proceed(r)
    BY <1>0, <1>9 DEF SendRequest, Sends, s
  <2>2. CASE token[r] = "tspa"
    <3>1. Perform(StepAt(k).request) /\ "tspa" \in o.token
      BY <1>0, <1>1, <1>9, <2>2 DEF SendRequest, s
    <3> QED BY <2>1, <3>1, ProceedGoesOn DEF Course
  <2>3. CASE token[r] # "tspa"
    <3>1. entry' = entry /\ o.token # {"tspa"}
      BY <1>1, <1>9, <2>3 DEF SendRequest
    <3>2. ~Over(k)
      BY <1>9, <1>a
    <3> QED BY <1>3, <2>1, <3>1, <3>2
  <2> QED BY <2>2, <2>3
<1>10. CASE InStep(r) /\ Judge(r)
  <2>1. /\ s.do \in {"status", "content"}
        /\ IF Agrees(s, response[r])
           THEN Proceed(r) /\ UNCHANGED <<entry, token, file, response>>
           ELSE Fails(r)
    BY <1>10 DEF Judge, Agrees, s
  <2>2. CASE Agrees(s, response[r])
    <3>1. ~Over(k) /\ ~Sends(k)
      BY <1>5, <1>10, <1>a, <2>1
    <3> QED BY <1>3, <2>1, <2>2, <3>1
  <2>3. CASE ~Agrees(s, response[r])
    <3>1. CanFail(s, o)
      BY <1>1, <2>1, <2>3 DEF CanFail
    <3> QED BY <1>4, <1>10, <2>1, <2>3, <3>1
  <2> QED BY <2>2, <2>3
<1>11. CASE EndScenario(r)
  <2>1. Over(k) /\ Leave(r)
    BY <1>0, <1>11 DEF EndScenario
  <2>2. pc'[r] = Off(k) /\ entry' = entry
    BY <2>1, FailsGoesOff
  <2> QED BY <2>1, <2>2 DEF Course
<1> QED BY <1>6, <1>7, <1>8, <1>9, <1>10, <1>11 DEF RunStep

-----------------------------------------------------------------------------
(* The invariants hold at the start.                                        *)

LEMMA InitFits ==
  ASSUME Init, NEW r \in Run, NEW mode \in {"shared", Mode(Dirty(entry))}
  PROVE  FitsAt(mode, r)
<1>1. /\ entry \in Leftover /\ pc[r] = Start /\ token[r] = "none"
      /\ file[r] \in {"none", "zm", "expired"} /\ response[r] = NoResponse
  BY DEF Init
<1>2. Fits(Outline(mode, Start), entry, "none", file[r], NoResponse)
  BY <1>1, OutlineAssumption
<1> QED BY <1>1, <1>2 DEF FitsAt

LEMMA InitOutline == Init => OutlineInv
<1> SUFFICES ASSUME Init PROVE OutlineInv
  OBVIOUS
<1>1. AtPositions
  BY StartIsPosition DEF Init, AtPositions
<1>2. KeepsToOutline
  <2>1. \A r \in Run : failed[r] = {} /\ dirty[r] = Dirty(entry)
    BY DEF Init
  <2> QED BY <2>1, InitFits DEF KeepsToOutline
<1>3. SharesOutline
  BY InitFits DEF SharesOutline, Init
<1>4. SomeoneSettles
  <2>1. PICK r \in Run : TRUE
    BY RunAssumption
  <2>2. entry \in Leftover /\ pc[r] = Start
    BY DEF Init
  <2>3. \A p \in Pointer : entry[p] \in Settles(pc[r], p)
    BY <2>2, SettlesAssumption
  <2> QED BY <2>3 DEF SomeoneSettles
<1> QED BY <1>1, <1>2, <1>3, <1>4 DEF OutlineInv

-----------------------------------------------------------------------------
(* A run that has the TSPA to itself.                                       *)

KeepsTo(r) ==
  ~disturbed[r] =>
    /\ FitsAt(Mode(dirty[r]), r)
    /\ failed[r] # {} => dirty[r] /\ failed[r] \subseteq {"03.1", "03.2"}

(* Nothing happened to the run, unless it is disturbed now.                  *)
LEMMA StaysOnOutline ==
  ASSUME NEW r \in Run, KeepsTo(r), Untouched(r), dirty' = dirty,
         ~disturbed'[r] => ~disturbed[r] /\ entry' = entry
  PROVE  KeepsTo(r)'
BY DEF KeepsTo, Untouched, FitsAt

LEMMA DisturbsWhat ==
  ASSUME Typed, NEW R, Disturbs(R), NEW r \in Run
  PROVE  /\ ~disturbed'[r] => ~disturbed[r]
         /\ ~disturbed'[r] /\ r \in R => entry' = entry
BY DEF Disturbs, Typed, BookTypes

LEMMA RunStepKeeps ==
  ASSUME Typed, AtPositions, KeepsToOutline, NEW r \in Run, RunStep(r)
  PROVE  AtPositions' /\ KeepsToOutline'
<1>0. dirty' = dirty /\ Disturbs(Run \ {r}) /\ dirty[r] \in BOOLEAN
      /\ failed \in [Run -> SUBSET Ofs]
  BY DEF RunStep, Typed, BookTypes, RunTypes
<1>1. AtPositions'
  <2>1. ~Finished(r)
    BY DEF RunStep, Background, InStep, EndScenario
  <2>2. Leave(r) \/ (Proceed(r) /\ (pc[r].step = 0 \/ InStep(r)))
    BY GoesOrLeaves DEF RunStep, Background, EndScenario
  <2> QED BY <2>1, <2>2, MovePositions
<1>2. KeepsTo(r)'
  <2> SUFFICES ASSUME ~disturbed'[r], NEW d \in BOOLEAN, d = dirty[r] PROVE KeepsTo(r)'
    BY <1>0 DEF KeepsTo
  <2>1. ~disturbed[r]
    BY <1>0, DisturbsWhat
  <2> DEFINE mode == Mode(d)
             of == Feature[pc[r].scenario].of
  <2>2. FitsAt(mode, r) /\ (failed[r] # {} => dirty[r] /\ failed[r] \subseteq {"03.1", "03.2"})
    <3>1. /\ FitsAt(Mode(dirty[r]), r)
          /\ failed[r] # {} => dirty[r] /\ failed[r] \subseteq {"03.1", "03.2"}
      BY <2>1 DEF KeepsToOutline
    <3> QED BY <3>1
  <2>3. mode \in Modes /\ mode # "shared" /\ (mode = "dirty" => d)
    BY DEF Mode, Modes
  <2>4. /\ FitsAt(mode, r)'
        /\ \/ failed' = failed
           \/ Excused(mode, pc[r]) /\ failed' = [failed EXCEPT ![r] = @ \cup {of}]
    <3> HIDE DEF mode
    <3>1. /\ FitsAt(mode, r)'
          /\ \/ failed' = failed
             \/ Excused(mode, pc[r]) /\ failed' = [failed EXCEPT ![r] = @ \cup {of}]
      BY <2>2, <2>3, OwnStepFits
    <3> QED BY <3>1
  <2>5. Excused(mode, pc[r]) => d /\ of \in {"03.1", "03.2"}
    BY <2>3 DEF Excused
  <2>6. failed'[r] # {} => dirty[r] /\ failed'[r] \subseteq {"03.1", "03.2"}
    <3> HIDE DEF mode, of
    <3>1. CASE failed' = failed
      BY <2>2, <3>1
    <3>2. CASE Excused(mode, pc[r]) /\ failed' = [failed EXCEPT ![r] = @ \cup {of}]
      BY <1>0, <2>2, <2>5, <3>2
    <3> QED BY <2>4, <3>1, <3>2
  <2>7. FitsAt(Mode(dirty[r]), r)'
    BY <1>0, <2>4
  <2> QED BY <1>0, <2>6, <2>7 DEF KeepsTo
<1>3. \A q \in Run \ {r} : KeepsTo(q)'
  <2> SUFFICES ASSUME NEW q \in Run \ {r} PROVE KeepsTo(q)'
    OBVIOUS
  <2>1. Untouched(q)
    BY StepsAlone
  <2>2. ~disturbed'[q] => ~disturbed[q] /\ entry' = entry
    BY <1>0, DisturbsWhat
  <2>3. KeepsTo(q)
    BY DEF KeepsToOutline, KeepsTo
  <2> QED BY <1>0, <2>1, <2>2, <2>3, StaysOnOutline
<1> QED BY <1>1, <1>2, <1>3 DEF KeepsToOutline, KeepsTo

(* A fault disturbs the run it hits, and touches no other.                   *)
LEMMA FaultKeeps ==
  ASSUME Typed, KeepsToOutline, NEW r \in Run, Fault(r), entry' = entry,
         \A q \in Run \ {r} : Untouched(q)
  PROVE  KeepsToOutline'
<1> SUFFICES ASSUME NEW q \in Run PROVE KeepsTo(q)'
  BY DEF KeepsToOutline, KeepsTo
<1>1. disturbed' = [disturbed EXCEPT ![r] = TRUE] /\ dirty' = dirty /\ DOMAIN disturbed = Run
  BY DEF Fault, Typed, BookTypes
<1>2. CASE q = r
  BY <1>1, <1>2 DEF KeepsTo
<1>3. CASE q # r
  <2>1. KeepsTo(q) /\ Untouched(q)
    BY <1>3 DEF KeepsToOutline, KeepsTo
  <2>2. disturbed'[q] = disturbed[q]
    BY <1>1, <1>3
  <2> QED BY <1>1, <2>1, <2>2, StaysOnOutline
<1> QED BY <1>2, <1>3

LEMMA FaultsKeep ==
  ASSUME Typed, AtPositions, KeepsToOutline, NEW r \in Run,
         NotUp(r) \/ TimesOut(r) \/ TokenLost(r)
  PROVE  AtPositions' /\ KeepsToOutline'
<1>1. Fault(r)
  BY DEF NotUp, TimesOut, TokenLost
<1>2. CASE Fails(r)
  <2>1. entry' = entry /\ \A q \in Run \ {r} : Untouched(q)
    BY <1>2, LeavesOthers DEF Fails, Leave
  <2>2. AtPositions'
    BY <1>1, <1>2, MovePositions DEF Fails, Fault
  <2> QED BY <1>1, <2>1, <2>2, FaultKeeps
<1>3. CASE TokenLost(r)
  <2>1. /\ UNCHANGED <<entry, pc, response, failed>>
        /\ \E f : file' = [file EXCEPT ![r] = f]
        /\ token' = token \/ \E t : token' = [token EXCEPT ![r] = t]
    BY <1>3 DEF TokenLost
  <2>2. \A q \in Run \ {r} : Untouched(q)
    BY <2>1 DEF Untouched, Typed, RunTypes
  <2>3. AtPositions'
    BY <2>1 DEF AtPositions
  <2> QED BY <1>1, <2>1, <2>2, <2>3, FaultKeeps
<1> QED BY <1>2, <1>3 DEF NotUp, TimesOut

(* A change by nobody's step disturbs every run.                             *)
LEMMA OthersKeep ==
  ASSUME Typed, AtPositions, KeepsToOutline, LateLands \/ CleanAllElsewhere
  PROVE  AtPositions' /\ KeepsToOutline'
<1>1. UNCHANGED <<runVars, dirty>> /\ Disturbs(Run)
  BY DEF LateLands, CleanAllElsewhere
<1>2. AtPositions'
  BY <1>1 DEF AtPositions, runVars
<1>3. ASSUME NEW q \in Run PROVE KeepsTo(q)'
  <2>1. KeepsTo(q) /\ Untouched(q)
    BY <1>1 DEF KeepsToOutline, KeepsTo, Untouched, runVars
  <2>2. ~disturbed'[q] => ~disturbed[q] /\ entry' = entry
    BY <1>1, DisturbsWhat
  <2> QED BY <1>1, <2>1, <2>2, StaysOnOutline
<1> QED BY <1>2, <1>3 DEF KeepsToOutline, KeepsTo

LEMMA NextKeeps ==
  ASSUME Typed, AtPositions, KeepsToOutline, [Next]_vars
  PROVE  AtPositions' /\ KeepsToOutline'
<1>1. ASSUME NEW r \in Run, RunStep(r) PROVE AtPositions' /\ KeepsToOutline'
  BY <1>1, RunStepKeeps
<1>2. ASSUME NEW r \in Run, NotUp(r) \/ TimesOut(r) \/ TokenLost(r)
      PROVE  AtPositions' /\ KeepsToOutline'
  BY <1>2, FaultsKeep
<1>3. CASE UNCHANGED vars
  BY <1>3 DEF AtPositions, KeepsToOutline, FitsAt, vars, runVars
<1> QED BY <1>1, <1>2, <1>3, OthersKeep DEF Next, Stop

-----------------------------------------------------------------------------
(* Runs that disturb each other only.                                       *)

Shares(r) == FitsAt("shared", r)

(* What another run may send, the outline of this one tolerates.              *)
LEMMA OthersTolerated ==
  ASSUME Typed, AtPositions, NEW q \in Run, Shares(q), Untouched(q),
         NEW k \in Positions, k # End, Sends(k), Perform(StepAt(k).request)
  PROVE  Shares(q)'
<1> DEFINE b == StepAt(k).request
           o == Outline("shared", pc[q])
<1>1. pc[q] \in Positions
  BY AtPosition
<1>2. \A e \in o.found[b.ptr] : Performed(b, e) \in o.found[b.ptr]
  BY <1>1, OutlineAssumption DEF Tolerates
<1>3. entry' = [entry EXCEPT ![b.ptr] = Performed(b, @)] /\ DOMAIN entry = Pointer
  BY DEF Perform, Typed, RunTypes
<1>4. Fits(o, entry, token[q], file[q], response[q])
  BY DEF Shares, FitsAt
<1> HIDE DEF b, o
<1>5. \A p \in Pointer : entry'[p] \in o.found[p]
  BY <1>2, <1>3, <1>4 DEF Fits
<1>6. Fits(o, entry', token'[q], file'[q], response'[q])
  BY <1>4, <1>5 DEF Fits, Untouched
<1> QED BY <1>6 DEF Shares, FitsAt, Untouched, o

LEMMA RunStepShares ==
  ASSUME Typed, AtPositions, NEW r \in Run, RunStep(r), \A q \in Run : Shares(q)
  PROVE  \A q \in Run : Shares(q)'
<1>1. FitsAt("shared", r) /\ "shared" \in Modes
  BY DEF Shares, Modes
<1>2. Shares(r)'
  BY <1>1, OwnStepFits DEF Shares
<1>3. ASSUME NEW q \in Run \ {r} PROVE Shares(q)'
  <2>1. Shares(q) /\ Untouched(q)
    BY StepsAlone
  <2>2. CASE entry' = entry
    BY <2>1, <2>2 DEF Shares, FitsAt, Untouched
  <2>3. CASE entry' # entry
    <3>1. Course(pc[r], Outline("shared", pc[r]), r)
      BY <1>1, OwnStepCourse
    <3>2. Sends(pc[r]) /\ Perform(StepAt(pc[r]).request)
      BY <2>3, <3>1 DEF Course
    <3>3. pc[r] \in Positions /\ pc[r] # End
      BY AtPosition DEF RunStep, Background, InStep, EndScenario
    <3> QED BY <2>1, <3>2, <3>3, OthersTolerated
  <2> QED BY <2>2, <2>3
<1> QED BY <1>2, <1>3

(* With no fault there has been none, and nothing else happens than steps.     *)
LEMMA StepsOnly ==
  ASSUME Typed, [Next]_vars, faults' = 0
  PROVE  faults = 0 /\ ((\E r \in Run : RunStep(r)) \/ LateLands \/ UNCHANGED vars)
<1>1. faults \in Nat
  BY MaxFaultsAssumption DEF Typed, BookTypes
<1>2. faults' # faults + 1 
  BY <1>1
<1>3. ~CleanAllElsewhere /\ \A r \in Run : ~NotUp(r) /\ ~TimesOut(r) /\ ~TokenLost(r)
  BY <1>2 DEF CleanAllElsewhere, NotUp, TimesOut, TokenLost, Fault
<1>4. (\E r \in Run : RunStep(r)) \/ LateLands \/ UNCHANGED vars
  BY <1>3 DEF Next, Stop
<1>5. faults = faults'
  BY <1>4 DEF RunStep, LateLands, vars
<1> QED BY <1>4, <1>5

LEMMA NextShares ==
  ASSUME Typed, AtPositions, SharesOutline, [Next]_vars
  PROVE  SharesOutline'
<1> SUFFICES ASSUME faults' = 0
             PROVE  late' = {} /\ \A r \in Run : Shares(r)'
  BY DEF SharesOutline, Shares
<1>1. faults = 0 /\ ((\E r \in Run : RunStep(r)) \/ LateLands \/ UNCHANGED vars)
  BY StepsOnly
<1>2. late = {} /\ \A r \in Run : Shares(r)
  BY <1>1 DEF SharesOutline, Shares
<1>3. ~LateLands
  BY <1>2 DEF LateLands
<1>4. CASE \E r \in Run : RunStep(r)
  BY <1>2, <1>4, RunStepShares DEF RunStep
<1>5. CASE UNCHANGED vars
  BY <1>2, <1>5 DEF Shares, FitsAt, vars, runVars
<1> QED BY <1>1, <1>3, <1>4, <1>5

Settled == \A p \in Pointer : \E r \in Run : entry[p] \in Settles(pc[r], p)

(* Whatever step a run takes, what was to become the test data still is.     *)
LEMMA RunStepSettles ==
  ASSUME Typed, AtPositions, NEW r \in Run, RunStep(r), FitsAt("shared", r), Settled
  PROVE  Settled'
<1> DEFINE k == pc[r]
           o == Outline("shared", k)
<1>1. k \in Positions /\ k # End
  BY AtPosition DEF RunStep, Background, InStep, EndScenario
<1>2. Course(k, o, r)
  BY OwnStepCourse
<1>3. \A q \in Run \ {r} : pc'[q] = pc[q]
  BY StepsAlone DEF Untouched
<1>4. ASSUME Gives(k, pc'[r]), entry' = entry PROVE Settled'
  BY <1>3, <1>4 DEF Settled, Gives
<1>5. /\ Over(k) \/ (Stepping(k) /\ CanFail(StepAt(k), o)) => Gives(k, Off(k))
      /\ ~Over(k) /\ (Sends(k) => o.token # {"tspa"}) => Gives(k, On(k))
      /\ Sends(k) /\ "tspa" \in o.token => SendSettles(k)
  BY <1>1, SettlesAssumption
<1>6. ASSUME SendSettles(k), pc'[r] = On(k), Sends(k), Perform(StepAt(k).request)
      PROVE  Settled'
  <2> DEFINE b == StepAt(k).request
             found == o.found[b.ptr]
  <2>1. entry' = [entry EXCEPT ![b.ptr] = Performed(b, @)] /\ DOMAIN entry = Pointer
    BY <1>6 DEF Perform, Typed, RunTypes
  <2>2. ASSUME NEW p \in Pointer \ {b.ptr}
        PROVE  \E q \in Run : entry'[p] \in Settles(pc'[q], p)
    <3>1. Settles(k, p) \subseteq Settles(On(k), p)
      BY <1>6 DEF SendSettles
    <3>2. PICK q \in Run : entry[p] \in Settles(pc[q], p)
      BY DEF Settled
    <3>3. entry'[p] = entry[p]
      BY <2>1
    <3> QED BY <1>3, <1>6, <3>1, <3>2, <3>3
  <2>3. ASSUME b.ptr \in Pointer
        PROVE  \E q \in Run : entry'[b.ptr] \in Settles(pc'[q], b.ptr)
    <3>1. entry[b.ptr] \in found
      BY <2>3 DEF FitsAt, Fits
    <3>2. PICK q \in Run : entry[b.ptr] \in Settles(pc[q], b.ptr)
      BY <2>3 DEF Settled
    <3>3. pc[q] \in Positions
      BY AtPosition
    <3>4. Performed(b, entry[b.ptr])
            \in Settles(On(k), b.ptr) \cup (IF pc[q] = k THEN {} ELSE Settles(pc[q], b.ptr))
      BY <1>6, <3>1, <3>2, <3>3 DEF SendSettles
    <3>5. entry'[b.ptr] = Performed(b, entry[b.ptr])
      BY <2>1, <2>3
    <3>6. CASE entry'[b.ptr] \in Settles(On(k), b.ptr)
      BY <1>6, <3>6
    <3>7. CASE pc[q] # k /\ entry'[b.ptr] \in Settles(pc[q], b.ptr)
      BY <1>3, <3>7
    <3> QED BY <3>4, <3>5, <3>6, <3>7
  <2> QED BY <2>2, <2>3 DEF Settled
<1> QED BY <1>2, <1>4, <1>5, <1>6 DEF Course

LEMMA NextSettles ==
  ASSUME Typed, AtPositions, SharesOutline, SomeoneSettles, [Next]_vars
  PROVE  SomeoneSettles'
<1> SUFFICES ASSUME faults' = 0 PROVE Settled'
  BY DEF SomeoneSettles, Settled
<1>1. faults = 0 /\ ((\E r \in Run : RunStep(r)) \/ LateLands \/ UNCHANGED vars)
  BY StepsOnly
<1>2. late = {} /\ Settled /\ \A r \in Run : FitsAt("shared", r)
  BY <1>1 DEF SharesOutline, SomeoneSettles, Settled
<1>3. ~LateLands
  BY <1>2 DEF LateLands
<1>4. CASE \E r \in Run : RunStep(r)
  BY <1>2, <1>4, RunStepSettles
<1>5. CASE UNCHANGED vars
  BY <1>2, <1>5 DEF Settled, vars, runVars
<1> QED BY <1>1, <1>3, <1>4, <1>5

-----------------------------------------------------------------------------
(* Every run, from any start, in any number, keeps to the outline: alone it   *)
(* finds what its mode allows, and with others, while nothing else goes       *)
(* wrong, what the shared mode does; and someone is going to settle every     *)
(* pointer (src/features/03.1, 03.2, 04.0; src/steps/tspa.py).               *)
THEOREM OutlineKept == Spec => []OutlineInv
<1>1. Init => Typed /\ OutlineInv
  BY InitTyped, InitOutline
<1>2. Typed /\ OutlineInv /\ [Next]_vars => (Typed /\ OutlineInv)'
  BY NextTyped, NextKeeps, NextShares, NextSettles DEF OutlineInv
<1> QED BY <1>1, <1>2, PTL DEF Spec

(* A scenario fails only if a fault hit the run, someone else changed the      *)
(* TSPA during it, or the TSPA was dirty and it is one of 03.1 or 03.2        *)
(* (src/steps/tspa.py: every assertion of a status or of a content).          *)
THEOREM FailuresExplained == Spec => []FailureExplained
<1>1. OutlineInv => FailureExplained
  BY DEF OutlineInv, KeepsToOutline, FailureExplained
<1> QED BY <1>1, OutlineKept, PTL

(* What a run that found the TSPA alone, or runs that met only each other,     *)
(* leave behind is the test data and nothing else.                          *)
THEOREM TestDataIsLeft == Spec => []TestDataOnly
<1>1. Typed /\ OutlineInv => TestDataOnly
  <2> SUFFICES ASSUME Typed, OutlineInv, AllFinished, faults = 0 \/ \A r \in Run : ~disturbed[r]
               PROVE  entry = TestData
    BY DEF TestDataOnly
  <2>1. \A r \in Run : pc[r] = End
    BY AtPosition DEF AllFinished, OutlineInv
  <2>2. PICK r \in Run : TRUE
    BY RunAssumption
  <2>3. \A p \in Pointer : entry[p] = TestData[p]
    <3>1. CASE faults = 0
      BY <2>1, <3>1, SettlesAssumption DEF OutlineInv, SomeoneSettles
    <3>2. CASE ~disturbed[r]
      <4>1. FitsAt(Mode(dirty[r]), r) /\ Mode(dirty[r]) \in {"clean", "dirty"}
        BY <3>2 DEF OutlineInv, KeepsToOutline, Mode
      <4> QED BY <2>1, <4>1, OutlineAssumption DEF FitsAt, Fits
    <3> QED BY <3>1, <3>2
  <2>4. entry \in [Pointer -> Entry] /\ DOMAIN TestData = Pointer
    BY DEF Typed, RunTypes, TestData
  <2> QED BY <2>3, <2>4 DEF TestData
<1>2. Spec => []Typed
  BY InitTyped, NextTyped, PTL DEF Spec
<1> QED BY <1>1, <1>2, OutlineKept, PTL
=============================================================================
