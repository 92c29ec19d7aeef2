------------------------- MODULE ZoneOutlineProofs -------------------------
(***************************************************************************)
(* Runs of any feature that has an outline keep to it, in any number, however *)
(* often they are started and whatever goes wrong.                          *)
(***************************************************************************)
EXTENDS ZoneOutline, ZoneFeatureProofs

-----------------------------------------------------------------------------
(* The places of a run and those of the outline.                            *)

LEMMA ScenarioLength ==
  ASSUME NEW i \in 1 .. Len(Feature)
  PROVE  Feature[i] \in Seq(StepTexts) /\ Len(Feature[i]) \in Nat
<1>1. Feature[i] \in Seq(StepTexts)
  BY FeatureAssumption
<1> QED BY <1>1

LEMMA OfPositions ==
  ASSUME NEW k \in Positions
  PROVE  /\ k.scenario \in 1 .. Len(Feature) + 1 /\ k.step \in Nat
         /\ k.scenario > Len(Feature) <=> k = End
         /\ k # End => /\ k.scenario \in 1 .. Len(Feature)
                       /\ k.step \in 0 .. Len(Feature[k.scenario]) + 1
                       /\ Len(Feature[k.scenario]) \in Nat
<1>1. CASE k = End
  BY <1>1, LengthType DEF End
<1>2. CASE k # End
  <2>1. PICK i \in 1 .. Len(Feature) : k \in [scenario : {i}, step : 0 .. Len(Feature[i]) + 1]
    BY <1>2 DEF Positions
  <2>2. k.scenario = i /\ k.step \in 0 .. Len(Feature[i]) + 1
    BY <2>1
  <2>3. Len(Feature[i]) \in Nat
    BY ScenarioLength
  <2>4. i \in 1 .. Len(Feature) + 1 /\ ~(i > Len(Feature))
    BY LengthType
  <2>5. k.step \in Nat
    BY <2>2, <2>3
  <2> QED BY <1>2, <2>2, <2>3, <2>4, <2>5
<1> QED BY <1>1, <1>2

LEMMA Numbered ==
  ASSUME NEW n \in Nat, NEW k \in 0 .. n + 1
  PROVE  /\ k > n \/ k = 0 \/ k \in 1 .. n
         /\ ~(k > n) => k + 1 \in 0 .. n + 1
         /\ k \in 1 .. n => ~(k > n) /\ k # 0
         /\ k = 0 => ~(k > n)
OBVIOUS

LEMMA APosition ==
  ASSUME NEW i \in 1 .. Len(Feature), NEW j \in 0 .. Len(Feature[i]) + 1
  PROVE  [scenario |-> i, step |-> j] \in Positions
BY DEF Positions

LEMMA FirstPosition ==
  ASSUME NEW i \in 1 .. Len(Feature) + 1
  PROVE  [scenario |-> i, step |-> 0] \in Positions
<1>1. CASE i \in 1 .. Len(Feature)
  <2>1. 0 \in 0 .. Len(Feature[i]) + 1
    BY <1>1, ScenarioLength
  <2> QED BY <1>1, <2>1, APosition
<1>2. CASE i \notin 1 .. Len(Feature)
  <2>1. i = Len(Feature) + 1
    BY <1>2, LengthType
  <2> QED BY <2>1 DEF Positions, End
<1> QED BY <1>1, <1>2

LEMMA NextPositions ==
  ASSUME NEW k \in Positions, k # End
  PROVE  /\ ~Over(k) => On(k) \in Positions
         /\ Off(k) \in Positions
         /\ Stepping(k) => ~Over(k) /\ k.step # 0
         /\ k.step = 0 => ~Over(k)
         /\ Over(k) \/ Stepping(k) \/ k.step = 0
<1> DEFINE n == Len(Feature[k.scenario])
<1>1. k.scenario \in 1 .. Len(Feature) /\ k.step \in 0 .. n + 1 /\ n \in Nat
  BY OfPositions
<1>2. /\ k.step > n \/ k.step = 0 \/ k.step \in 1 .. n
      /\ ~(k.step > n) => k.step + 1 \in 0 .. n + 1
      /\ k.step \in 1 .. n => ~(k.step > n) /\ k.step # 0
      /\ k.step = 0 => ~(k.step > n)
  BY <1>1, Numbered
<1>3. ~Over(k) => On(k) \in Positions
  BY <1>1, <1>2, APosition DEF Over, On
<1>4. k.scenario + 1 \in 1 .. Len(Feature) + 1
  BY <1>1, LengthType
<1>5. Off(k) \in Positions
  BY <1>4, FirstPosition DEF Off
<1> QED BY <1>2, <1>3, <1>5 DEF Over, Stepping

LEMMA StartIsPosition == Start \in Positions
<1>1. 1 \in 1 .. Len(Feature) + 1
  BY LengthType
<1> QED BY <1>1, FirstPosition DEF Start

(* What the operators of ZoneFeature say at a position.                     *)
LEMMA AtPosition ==
  ASSUME AtPositions, NEW r \in Run
  PROVE  /\ pc[r] \in Positions
         /\ Finished(r) <=> pc[r] = End
         /\ InStep(r) => ~Finished(r) /\ Stepping(pc[r])
         /\ Step(r) = StepAt(pc[r]) /\ NextScenario(r) = Off(pc[r]) /\ NextStep(r) = On(pc[r])
         /\ pc[r].step > Len(Steps(r)) <=> Over(pc[r])
<1>1. pc[r] \in Positions
  BY DEF AtPositions
<1>2. Finished(r) <=> pc[r] = End
  BY <1>1, OfPositions DEF Finished
<1> QED
  BY <1>1, <1>2 DEF InStep, Stepping, Step, StepAt, Steps, Over, NextScenario, NextStep, On, Off

-----------------------------------------------------------------------------
(* How a run moves.                                                        *)

Goes(r, to) == pc' = [pc EXCEPT ![r] = to]
Leaves(r)   == Leave(r) /\ Goes(r, Off(pc[r]))

LEMMA LeavesAt ==
  ASSUME TypeOK, AtPositions, NEW r \in Run, Leave(r), Advance(r)
  PROVE  Leaves(r)
<1>1. scenario'[r] = "idle"
  BY LeaveEnds
<1> QED BY <1>1, AtPosition DEF Advance, Leaves, Goes

(* The Background, the end of a scenario, or a step, which fails, passes or   *)
(* has a loop under way.                                                   *)
Begins(r) == pc[r].step = 0 /\ BeginScenario(r) /\ Goes(r, On(pc[r]))
Passing(r) ==
  /\ InStep(r) /\ Execute(r, Step(r)) /\ scenario'[r] = "running"
  /\ loop'[r].kind = "none" /\ Goes(r, On(pc[r]))
Looping(r) ==
  /\ InStep(r) /\ Execute(r, Step(r)) /\ scenario'[r] = "running"
  /\ loop'[r].kind # "none" /\ Goes(r, pc[r])
Failing(r) == InStep(r) /\ Execute(r, Step(r)) /\ Leaves(r)
Ending(r)  == Over(pc[r]) /\ Leaves(r)

(* A step that does not go on with the scenario fails it.                   *)
LEMMA IdleLeaves ==
  ASSUME TypeOK, NEW r \in Run, NEW s, Execute(r, s), scenario'[r] # "running"
  PROVE  Fails(r)
<1>1. ASSUME Running(r) PROVE scenario' # scenario
  BY <1>1 DEF Running
<1>2. Fails(r) \/ (Running(r) /\ scenario' = scenario)
  <2>1. CASE s.do \in {"fetch token", "save token", "load token"}
    <3>1. FetchToken(r) \/ SaveToken(r) \/ LoadToken(r)
      BY <2>1, Zenon DEF Execute
    <3> QED BY <3>1 DEF FetchToken, SaveToken, LoadToken, Ready
  <2>2. CASE s.do \in {"delete all", "check"}
    <3>1. \/ RemoveAllPointers(r) \/ DeleteNext(r) \/ CheckNext(r)
          \/ CheckPointers(r, s.kind, s.ptrs)
      BY <2>2, Zenon DEF Execute
    <3> QED BY <3>1 DEF RemoveAllPointers, DeleteNext, CheckNext, CheckPointers, Ready
  <2>3. CASE s.do \notin {"fetch token", "save token", "load token", "delete all", "check"}
    <3>1. \/ CreatingPointers(r, s.ptrs, s.ptr) \/ CreateDid(r, s.did, s.ptr)
          \/ RemovePointer(r, s.ptr) \/ RemoveDid(r, s.ptr)
          \/ RequestsZones(r) \/ RequestsPointer(r, s.ptr) \/ ReadPointersDid(r, s.ptr)
          \/ GetHttp(r, s.code) \/ ContentMatches(r, s.body)
      BY <2>3, Zenon DEF Execute
    <3> QED BY <3>1 DEF CreatingPointers, CreateDid, RemovePointer, RemoveDid, Requests,
                 RequestsZones, RequestsPointer, ReadPointersDid, Reads, GetHttp,
                 ContentMatches, vars, runVars, Ready
  <2> QED BY <2>1, <2>2, <2>3
<1> QED BY <1>1, <1>2

LEMMA RunMoves ==
  ASSUME TypeOK, TypeOK', FeatureInv, AtPositions, NEW r \in Run, RunStep(r)
  PROVE  Begins(r) \/ Passing(r) \/ Looping(r) \/ Failing(r) \/ Ending(r)
<1>1. Advance(r)
  BY DEF RunStep
<1>2. CASE pc[r].step = 0 /\ BeginScenario(r)
  <2>1. scenario'[r] = "running" /\ loop' = loop /\ ~Running(r)
    BY <1>2 DEF BeginScenario, TypeOK, Running
  <2>2. loop'[r].kind = "none"
    BY <2>1, IdleHasNoLoop
  <2> QED BY <1>1, <1>2, <2>1, <2>2, AtPosition DEF Advance, Begins, Goes
<1>3. CASE InStep(r) /\ Execute(r, Step(r))
  <2>1. CASE scenario'[r] = "running"
    BY <1>1, <1>3, <2>1, AtPosition DEF Advance, Passing, Looping, Goes
  <2>2. CASE scenario'[r] # "running"
    BY <1>1, <1>3, <2>2, IdleLeaves, LeavesAt DEF Failing, Fails
  <2> QED BY <2>1, <2>2
<1>4. CASE pc[r].step > Len(Steps(r)) /\ EndScenario(r)
  BY <1>1, <1>4, LeavesAt, AtPosition DEF EndScenario, Fails, Ending
<1> QED BY <1>2, <1>3, <1>4 DEF RunStep

LEMMA GoesPositions ==
  ASSUME AtPositions, NEW r \in Run, NEW to \in Positions, Goes(r, to)
  PROVE  /\ AtPositions' /\ pc'[r] = to
         /\ \A q \in Run \ {r} : pc'[q] = pc[q]
BY DEF AtPositions, Goes

LEMMA RunStepPositions ==
  ASSUME TypeOK, TypeOK', FeatureInv, AtPositions, NEW r \in Run, RunStep(r)
  PROVE  /\ AtPositions'
         /\ \A q \in Run \ {r} : pc'[q] = pc[q]
         /\ Begins(r) \/ Passing(r) => pc'[r] = On(pc[r])
         /\ Failing(r) \/ Ending(r) => pc'[r] = Off(pc[r])
         /\ Looping(r) => pc'[r] = pc[r]
<1>1. pc[r] \in Positions /\ pc[r] # End
  BY AtPosition DEF RunStep
<1>2. /\ Off(pc[r]) \in Positions /\ ~Over(pc[r]) => On(pc[r]) \in Positions
      /\ Off(pc[r]) \in Positions
  BY <1>1, NextPositions
<1>3. Begins(r) \/ Passing(r) => On(pc[r]) \in Positions
  BY <1>1, <1>2, AtPosition, NextPositions DEF Begins, Passing
<1>4. CASE Begins(r) \/ Passing(r)
  <2>1. Goes(r, On(pc[r]))
    BY <1>4 DEF Begins, Passing
  <2>2. AtPositions' /\ pc'[r] = On(pc[r]) /\ \A q \in Run \ {r} : pc'[q] = pc[q]
    BY <1>3, <1>4, <2>1, GoesPositions
  <2>3. ~Looping(r) /\ ~(Failing(r) \/ Ending(r))
    <3>1. Leaves(r) => scenario'[r] = "idle"
      BY LeaveEnds DEF Leaves
    <3>2. Begins(r) => scenario'[r] = "running" /\ ~InStep(r)
      BY <1>1, AtPosition, NextPositions DEF Begins, BeginScenario, TypeOK
    <3> QED BY <1>4, <3>1, <3>2 DEF Looping, Failing, Ending, Passing
  <2> QED BY <2>2, <2>3
<1>5. CASE Looping(r)
  <2>1. AtPositions' /\ pc'[r] = pc[r] /\ \A q \in Run \ {r} : pc'[q] = pc[q]
    BY <1>1, <1>5, GoesPositions DEF Looping
  <2>2. ~(Failing(r) \/ Ending(r)) /\ ~Begins(r) /\ ~Passing(r)
    <3>1. Leaves(r) => scenario'[r] = "idle"
      BY LeaveEnds DEF Leaves
    <3>2. Begins(r) => ~InStep(r)
      BY <1>1, AtPosition, NextPositions DEF Begins
    <3> QED BY <1>5, <3>1, <3>2 DEF Looping, Failing, Ending, Passing
  <2> QED BY <2>1, <2>2
<1>6. CASE Failing(r) \/ Ending(r)
  <2>1. Goes(r, Off(pc[r])) /\ scenario'[r] = "idle"
    BY <1>6, LeaveEnds DEF Failing, Ending, Leaves
  <2>2. AtPositions' /\ pc'[r] = Off(pc[r]) /\ \A q \in Run \ {r} : pc'[q] = pc[q]
    BY <1>2, <2>1, GoesPositions
  <2>3. ~Begins(r) /\ ~Passing(r) /\ ~Looping(r)
    BY <2>1 DEF Begins, Passing, Looping, BeginScenario, TypeOK
  <2> QED BY <2>2, <2>3
<1> QED BY <1>4, <1>5, <1>6, RunMoves

-----------------------------------------------------------------------------
(* What a step leaves in the store is what the outline says.                 *)

LEMMA ListingFits ==
  ASSUME NEW o, StoreFits(o, schemes, dids)
  PROVE  Exists \in Listings(o)
<1>1. \A p \in Pointer : schemes[p] \in o.schemes[p] /\ (p \in Exists <=> schemes[p] # {})
  BY DEF StoreFits, Exists
<1>2. Exists \in SUBSET Pointer
  BY DEF Exists
<1> QED BY <1>1, <1>2 DEF Listings

LEMMA WriteFits ==
  ASSUME TypeOK, NEW w \in Write, Store(w), NEW o, StoreFits(o, schemes, dids),
         NEW p \in Pointer
  PROVE  schemes'[p] \in SchemesAfter(w, o, p) /\ dids'[p] \in DidsAfter(w, o, p)
<1> USE WriteType
<1>1. schemes[p] \in o.schemes[p] /\ dids[p] \in o.dids[p] /\ schemes[w.ptr] \in o.schemes[w.ptr]
  BY DEF StoreFits
<1>2. schemes \in [Pointer -> SUBSET Pointer] /\ dids \in [Pointer -> Did \cup {NoDid}]
  BY DEF TypeOK, StoreTypeOK
<1>3. CASE w.op = "put schemes"
  BY <1>1, <1>2, <1>3 DEF Store, Accepts, store, SchemesAfter, DidsAfter
<1>4. CASE w.op = "put did"
  BY <1>1, <1>2, <1>4 DEF Store, Accepts, store, SchemesAfter, DidsAfter
<1>5. CASE w.op = "delete did"
  BY <1>1, <1>2, <1>5 DEF Store, Accepts, store, SchemesAfter, DidsAfter
<1>6. CASE w.op = "delete schemes"
  <2>1. schemes'[p] \in SchemesAfter(w, o, p)
    BY <1>1, <1>2, <1>6 DEF Store, Accepts, store, SchemesAfter
  <2> DEFINE S == schemes[w.ptr]
             New(T) == IF T # {} /\ p \in T \cup {w.ptr} THEN {NoDid} ELSE o.dids[p]
  <2>2. dids'[p] \in New(S)
    BY <1>1, <1>2, <1>6 DEF Store, Accepts, store
  <2>3. DidsAfter(w, o, p) = UNION {New(T) : T \in o.schemes[w.ptr]}
    BY <1>6 DEF DidsAfter
  <2> HIDE DEF S, New
  <2>4. S \in o.schemes[w.ptr]
    BY <1>1 DEF S
  <2> QED BY <2>1, <2>2, <2>3, <2>4
<1> QED BY <1>3, <1>4, <1>5, <1>6

LEMMA StatusFits ==
  ASSUME NEW w \in Write, NEW o, StoreFits(o, schemes, dids)
  PROVE  Status(w) \in Statuses(w, o)
<1>1. /\ w.op \in {"put schemes", "put did", "delete schemes", "delete did"}
      /\ schemes[w.ptr] \in o.schemes[w.ptr] /\ dids[w.ptr] \in o.dids[w.ptr]
  BY WriteType DEF StoreFits
<1>2. CASE w.op \in {"put schemes", "put did"}
  BY <1>2 DEF Status, Accepts, Statuses
<1>3. CASE w.op = "delete schemes"
  <2> DEFINE F(S) == IF S # {} THEN 204 ELSE 404
  <2>1. Statuses(w, o) = {F(S) : S \in o.schemes[w.ptr]}
    BY <1>3 DEF Statuses
  <2>2. Status(w) = F(schemes[w.ptr])
    BY <1>3 DEF Status, Accepts
  <2> HIDE DEF F
  <2> QED BY <1>1, <2>1, <2>2
<1>4. CASE w.op = "delete did"
  <2> DEFINE F(d) == IF d # NoDid THEN 204 ELSE 404
  <2>1. Statuses(w, o) = {F(d) : d \in o.dids[w.ptr]}
    BY <1>4 DEF Statuses
  <2>2. Status(w) = F(dids[w.ptr])
    BY <1>4 DEF Status, Accepts
  <2> HIDE DEF F
  <2> QED BY <1>1, <2>1, <2>2
<1> QED BY <1>1, <1>2, <1>3, <1>4

LEMMA FitsMakes ==
  ASSUME NEW s, NEW o, NEW S, NEW D, NEW t, NEW f, NEW a,
         \A p \in Pointer : S[p] \in SchemesMade(s, o, p) /\ D[p] \in DidsMade(s, o, p),
         t \in TokenAfter(s, o), f \in FileAfter(s, o), a \in ResponseAfter(s, o)
  PROVE  Fits(StepMakes(s, o), S, D, t, f, a)
BY DEF StepMakes, Finds, Fits, StoreFits

LEMMA FitsIncluded ==
  ASSUME NEW n, NEW o, NEW S, NEW D, NEW t, NEW f, NEW a,
         Includes(n, o), Fits(o, S, D, t, f, a)
  PROVE  Fits(n, S, D, t, f, a)
BY DEF Includes, Fits, StoreFits

(* A step that is no write leaves what may be under a pointer.               *)
LEMMA OtherMakes ==
  ASSUME NEW s, NEW o, s.do \notin Writing, s.do # "delete all",
         NEW S, NEW D, StoreFits(o, S, D)
  PROVE  \A p \in Pointer : S[p] \in SchemesMade(s, o, p) /\ D[p] \in DidsMade(s, o, p)
<1>1. ASSUME NEW p \in Pointer
      PROVE  SchemesMade(s, o, p) = o.schemes[p] /\ DidsMade(s, o, p) = o.dids[p]
  BY Zenon DEF SchemesMade, DidsMade
<1> QED BY <1>1 DEF StoreFits

-----------------------------------------------------------------------------
(* A step that passes for sure does, and what it leaves fits.                *)

LEMMA TokenStepFits ==
  ASSUME TypeOK, NEW r \in Run, NEW s, NEW o, FitsAt(o, r), Passes(s, o), Execute(r, s),
         s.do \in {"fetch token", "save token", "load token"}
  PROVE  FitsAt(StepMakes(s, o), r)' /\ UNCHANGED <<scenario, loop>>
<1>1. /\ s.do = "fetch token" => FetchToken(r)
      /\ s.do = "save token"  => SaveToken(r)
      /\ s.do = "load token"  => LoadToken(r)
  BY Zenon DEF Execute
<1>2. file[r] \in o.file /\ token[r] \in o.token /\ response[r] \in o.response
      /\ StoreFits(o, schemes, dids)
  BY DEF FitsAt, Fits
<1>3. s.do = "load token" => file[r] # "none"
  BY <1>2 DEF Passes
<1>4. UNCHANGED <<store, scenario, loop, response>>
  BY <1>1, <1>3 DEF FetchToken, SaveToken, LoadToken
<1>5. token'[r] \in TokenAfter(s, o) /\ file'[r] \in FileAfter(s, o)
  <2>1. CASE s.do = "fetch token"
    BY <1>1, <1>2, <2>1 DEF FetchToken, TypeOK, TokenAfter, FileAfter
  <2>2. CASE s.do = "save token"
    BY <1>1, <1>2, <2>2 DEF SaveToken, TypeOK, TokenAfter, FileAfter
  <2>3. CASE s.do = "load token"
    BY <1>1, <1>2, <1>3, <2>3 DEF LoadToken, TypeOK, TokenAfter, FileAfter
  <2> QED BY <2>1, <2>2, <2>3
<1>6. ResponseAfter(s, o) = o.response
  BY Zenon DEF ResponseAfter, Writing, Reading
<1>7. \A p \in Pointer : schemes'[p] \in SchemesMade(s, o, p) /\ dids'[p] \in DidsMade(s, o, p)
  <2>1. s.do \notin Writing /\ s.do # "delete all"
    BY DEF Writing
  <2>2. schemes' = schemes /\ dids' = dids
    BY <1>4 DEF store
  <2> QED BY <1>2, <2>1, <2>2, OtherMakes
<1> QED BY <1>2, <1>4, <1>5, <1>6, <1>7, FitsMakes DEF FitsAt

(* The write of a step is one the client can ask for.                        *)
LEMMA StepWrites ==
  ASSUME NEW r, NEW s \in StepTexts, s.do \in Writing
  PROVE  WriteOf(s) \in Write /\ (Execute(r, s) => Requests(r, WriteOf(s)))
<1>1. CASE s.do = "create pointers"
  <2>1. s.ptrs \in (SUBSET Pointer) \ {{}} /\ s.ptr \in Pointer
    BY <1>1, Arguments
  <2>2. WriteOf(s) = PutSchemes(s.ptr, s.ptrs)
    BY <1>1, Zenon DEF WriteOf
  <2>3. Execute(r, s) => CreatingPointers(r, s.ptrs, s.ptr)
    BY <1>1, Zenon DEF Execute
  <2> QED BY <2>1, <2>2, <2>3, PutIsWrite DEF CreatingPointers
<1>2. CASE s.do = "create did"
  <2>1. s.did \in Did /\ s.ptr \in Pointer
    BY <1>2, Arguments
  <2>2. WriteOf(s) = PutDid(s.ptr, s.did)
    BY <1>2, Zenon DEF WriteOf
  <2>3. Execute(r, s) => CreateDid(r, s.did, s.ptr)
    BY <1>2, Zenon DEF Execute
  <2> QED BY <2>1, <2>2, <2>3, PutIsWrite DEF CreateDid
<1>3. CASE s.do = "remove pointer"
  <2>1. s.ptr \in Pointer
    BY <1>3, Arguments
  <2>2. WriteOf(s) = DeleteSchemes(s.ptr)
    BY <1>3, Zenon DEF WriteOf
  <2>3. Execute(r, s) => RemovePointer(r, s.ptr)
    BY <1>3, Zenon DEF Execute
  <2> QED BY <2>1, <2>2, <2>3, DeleteIsWrite DEF RemovePointer
<1>4. CASE s.do = "remove did"
  <2>1. s.ptr \in Pointer
    BY <1>4, Arguments
  <2>2. WriteOf(s) = DeleteDid(s.ptr)
    BY <1>4, Zenon DEF WriteOf
  <2>3. Execute(r, s) => RemoveDid(r, s.ptr)
    BY <1>4, Zenon DEF Execute
  <2> QED BY <2>1, <2>2, <2>3, DeleteIsWrite DEF RemoveDid
<1> QED BY <1>1, <1>2, <1>3, <1>4 DEF Writing

LEMMA WriteStepFits ==
  ASSUME TypeOK, NEW r \in Run, NEW s \in StepTexts, NEW o, FitsAt(o, r), Passes(s, o),
         Execute(r, s), s.do \in Writing
  PROVE  FitsAt(StepMakes(s, o), r)' /\ UNCHANGED <<scenario, loop>>
<1> DEFINE w == WriteOf(s)
<1>1. w \in Write /\ Requests(r, w)
  BY StepWrites
<1>2. file[r] \in o.file /\ token[r] \in o.token /\ StoreFits(o, schemes, dids)
  BY DEF FitsAt, Fits
<1>3. Authorised(r)
  BY <1>2 DEF Passes, Authorises, Authorised
<1>4. Store(w) /\ response'[r] = [status |-> Status(w), body |-> {}]
  BY <1>1, <1>3 DEF Requests, Answer, TypeOK
<1>5. \A p \in Pointer : schemes'[p] \in SchemesMade(s, o, p) /\ dids'[p] \in DidsMade(s, o, p)
  <2> SUFFICES ASSUME NEW p \in Pointer
               PROVE  schemes'[p] \in SchemesMade(s, o, p) /\ dids'[p] \in DidsMade(s, o, p)
    OBVIOUS
  <2>1. SchemesMade(s, o, p) = SchemesAfter(w, o, p) /\ DidsMade(s, o, p) = DidsAfter(w, o, p)
    BY Zenon DEF SchemesMade, DidsMade, Writing
  <2> HIDE DEF w
  <2> QED BY <1>1, <1>2, <1>4, <2>1, WriteFits
<1>6. TokenAfter(s, o) = o.token /\ FileAfter(s, o) = o.file
  BY Zenon DEF TokenAfter, FileAfter, Writing
<1>7. response'[r] \in ResponseAfter(s, o)
  <2>1. ResponseAfter(s, o) = [status : Statuses(w, o), body : {{}}]
    BY Zenon DEF ResponseAfter, Reading, Writing
  <2> HIDE DEF w
  <2>2. Status(w) \in Statuses(w, o)
    BY <1>1, <1>2, StatusFits
  <2> QED BY <1>4, <2>1, <2>2
<1>8. UNCHANGED <<scenario, loop, token, file>>
  BY <1>1 DEF Requests
<1> QED BY <1>2, <1>5, <1>6, <1>7, <1>8, FitsMakes DEF FitsAt

LEMMA ReadStepFits ==
  ASSUME TypeOK, NEW r \in Run, NEW s \in StepTexts, NEW o, FitsAt(o, r), Execute(r, s),
         s.do \in Reading
  PROVE  FitsAt(StepMakes(s, o), r)' /\ UNCHANGED <<scenario, loop>>
<1>1. /\ file[r] \in o.file /\ token[r] \in o.token /\ StoreFits(o, schemes, dids)
      /\ \A p \in Pointer : schemes[p] \in o.schemes[p] /\ dids[p] \in o.dids[p]
  BY DEF FitsAt, Fits, StoreFits
<1>2. PICK body \in Bodies(s, o) : Reads(r, body)
  <2>1. CASE s.do = "read zones"
    <3>1. RequestsZones(r) /\ Bodies(s, o) = Listings(o)
      BY <2>1, Zenon DEF Execute, Bodies
    <3> QED BY <1>1, <3>1, ListingFits DEF RequestsZones
  <2>2. CASE s.do = "read pointer"
    <3>1. RequestsPointer(r, s.ptr) /\ Bodies(s, o) = o.schemes[s.ptr]
      BY <2>2, Zenon DEF Execute, Bodies
    <3>2. s.ptr \in Pointer
      BY <2>2, Arguments
    <3> QED BY <1>1, <3>1, <3>2 DEF RequestsPointer
  <2>3. CASE s.do = "read did"
    <3>1. ReadPointersDid(r, s.ptr) /\ Bodies(s, o) = {{d} \ {NoDid} : d \in o.dids[s.ptr]}
      BY <2>3, Zenon DEF Execute, Bodies
    <3>2. s.ptr \in Pointer
      BY <2>3, Arguments
    <3>3. {dids[s.ptr]} \ {NoDid} \in Bodies(s, o)
      BY <1>1, <3>1, <3>2
    <3> QED BY <3>1, <3>3 DEF ReadPointersDid
  <2> QED BY <2>1, <2>2, <2>3 DEF Reading
<1>3. ResponseAfter(s, o) =
        (IF "zm" \in o.token THEN [status : {200}, body : Bodies(s, o)] ELSE {})
          \cup (IF Authorises(o) THEN {} ELSE [status : {403}, body : {{}}])
  BY Zenon DEF ResponseAfter, Reading, Writing
<1>4. response'[r] \in ResponseAfter(s, o)
  <2>1. CASE Authorised(r)
    <3>1. "zm" \in o.token /\ response'[r] = [status |-> 200, body |-> body]
      BY <1>1, <1>2, <2>1 DEF Authorised, Reads, TypeOK
    <3> QED BY <1>2, <1>3, <3>1
  <2>2. CASE ~Authorised(r)
    <3>1. ~Authorises(o) /\ response'[r] = [status |-> 403, body |-> {}]
      BY <1>1, <1>2, <2>2 DEF Authorised, Reads, TypeOK, Authorises
    <3> QED BY <1>3, <3>1
  <2> QED BY <2>1, <2>2
<1>5. UNCHANGED <<store, scenario, token, file, loop>>
  BY <1>2 DEF Reads
<1>6. TokenAfter(s, o) = o.token /\ FileAfter(s, o) = o.file
  BY Zenon DEF TokenAfter, FileAfter, Reading
<1>7. \A p \in Pointer : schemes'[p] \in SchemesMade(s, o, p) /\ dids'[p] \in DidsMade(s, o, p)
  <2>1. s.do \notin Writing /\ s.do # "delete all"
    BY DEF Writing, Reading
  <2>2. schemes' = schemes /\ dids' = dids
    BY <1>5 DEF store
  <2> QED BY <1>1, <2>1, <2>2, OtherMakes
<1> QED BY <1>1, <1>4, <1>5, <1>6, <1>7, FitsMakes DEF FitsAt

LEMMA ThenStepFits ==
  ASSUME TypeOK, NEW r \in Run, NEW s \in StepTexts, NEW o, FitsAt(o, r), Passes(s, o),
         Execute(r, s), s.do \in {"get http", "content"}
  PROVE  FitsAt(StepMakes(s, o), r)' /\ UNCHANGED <<scenario, loop>>
<1>1. /\ file[r] \in o.file /\ token[r] \in o.token /\ response[r] \in o.response
      /\ StoreFits(o, schemes, dids)
  BY DEF FitsAt, Fits
<1>2. UNCHANGED vars
  <2>1. /\ s.do = "get http" => GetHttp(r, s.code)
        /\ s.do = "content"  => ContentMatches(r, s.body)
    BY Zenon DEF Execute
  <2>2. /\ s.do = "get http" => response[r].status = s.code
        /\ s.do = "content"  => response[r].status # 0 /\ response[r].body = s.body
    BY <1>1 DEF Passes
  <2> QED BY <2>1, <2>2 DEF GetHttp, ContentMatches
<1>3. UNCHANGED <<schemes, dids, scenario, token, file, loop, response>>
  BY <1>2 DEF vars, runVars, store
<1>4. TokenAfter(s, o) = o.token /\ FileAfter(s, o) = o.file /\ ResponseAfter(s, o) = o.response
  BY Zenon DEF TokenAfter, FileAfter, ResponseAfter, Reading, Writing
<1>5. \A p \in Pointer : schemes'[p] \in SchemesMade(s, o, p) /\ dids'[p] \in DidsMade(s, o, p)
  <2>1. s.do \notin Writing /\ s.do # "delete all"
    BY DEF Writing
  <2> QED BY <1>1, <1>3, <2>1, OtherMakes
<1> QED BY <1>1, <1>3, <1>4, <1>5, FitsMakes DEF FitsAt

-----------------------------------------------------------------------------
(* The steps that loop.                                                     *)

LEMMA IterateLoop ==
  ASSUME TypeOK, NEW r \in Run, NEW p \in loop[r].left, Iterate(r, p), loop[r].kind # "none"
  PROVE  /\ loop'[r].kind # "none" => /\ loop'[r].kind = loop[r].kind
                                      /\ loop'[r].left = loop[r].left \ {p}
         /\ loop'[r].kind = "none" => loop[r].left \ {p} = {}
<1> DEFINE rest == loop[r].left \ {p}
<1>1. loop'[r] = IF rest = {} THEN NoLoop ELSE [kind |-> loop[r].kind, left |-> rest]
  BY DEF Iterate, TypeOK
<1> HIDE DEF rest
<1>2. /\ loop'[r].kind # "none" => loop'[r].kind = loop[r].kind /\ loop'[r].left = rest
      /\ loop'[r].kind = "none" => rest = {}
  BY <1>1 DEF NoLoop
<1> QED BY <1>2 DEF rest

LEMMA CheckStepFits ==
  ASSUME TypeOK, NEW r \in Run, NEW s \in StepTexts, NEW o, FitsAt(o, r), Checking(s, r),
         Passes(s, o), Execute(r, s), s.do = "check"
  PROVE  FitsAt(o, r)' /\ FitsAt(StepMakes(s, o), r)' /\ Checking(s, r)'
           /\ UNCHANGED scenario /\ loop'[r].kind # "delete all"
<1>1. /\ file[r] \in o.file /\ token[r] \in o.token /\ response[r] \in o.response
      /\ StoreFits(o, schemes, dids)
  BY DEF FitsAt, Fits
<1>2. /\ s.kind \in {"exists", "not exists"} /\ s.ptrs \subseteq Pointer
      /\ CheckPointers(r, s.kind, s.ptrs) \/ CheckNext(r)
  <2>1. CheckPointers(r, s.kind, s.ptrs) \/ CheckNext(r)
    BY Zenon DEF Execute
  <2> QED BY <2>1, Arguments
<1>3. Checking(s, r)' /\ UNCHANGED <<store, scenario, token, file, response>>
        /\ loop'[r].kind # "delete all"
  <2>1. CASE CheckPointers(r, s.kind, s.ptrs)
    BY <1>2, <2>1 DEF CheckPointers, Checking, TypeOK
  <2>2. CASE CheckNext(r)
    <3>1. loop[r].kind = s.kind /\ loop[r].left \subseteq s.ptrs
      BY <2>2 DEF CheckNext, Checking
    <3>2. PICK p \in loop[r].left :
            IF Authorised(r) /\ (loop[r].kind = "exists") = (schemes[p] # {})
            THEN Iterate(r, p) /\ UNCHANGED <<store, scenario, token, file, response>>
            ELSE Fails(r)
      BY <2>2 DEF CheckNext
    <3>3. Authorised(r)
      BY <1>1 DEF Passes, Authorises, Authorised
    <3>4. (s.kind = "exists") = (schemes[p] # {})
      <4>1. p \in s.ptrs /\ schemes[p] \in o.schemes[p]
        BY <1>1, <1>2, <3>1, <3>2 DEF StoreFits
      <4> QED BY <4>1 DEF Passes
    <3>5. Iterate(r, p) /\ UNCHANGED <<store, scenario, token, file, response>>
      BY <3>1, <3>2, <3>3, <3>4
    <3> QED BY <1>2, <3>1, <3>5, IterateLoop DEF Checking
  <2> QED BY <1>2, <2>1, <2>2
<1>4. schemes' = schemes /\ dids' = dids
  BY <1>3 DEF store
<1>5. TokenAfter(s, o) = o.token /\ FileAfter(s, o) = o.file /\ ResponseAfter(s, o) = o.response
  BY Zenon DEF TokenAfter, FileAfter, ResponseAfter, Reading, Writing
<1>6. \A p \in Pointer : schemes'[p] \in SchemesMade(s, o, p) /\ dids'[p] \in DidsMade(s, o, p)
  <2>1. s.do \notin Writing /\ s.do # "delete all"
    BY DEF Writing
  <2> QED BY <1>1, <1>4, <2>1, OtherMakes
<1> QED BY <1>1, <1>3, <1>4, <1>5, <1>6, FitsMakes DEF FitsAt

LEMMA ListedLoop ==
  ASSUME NEW E, NEW l, l = IF E = {} THEN NoLoop ELSE [kind |-> "delete all", left |-> E]
  PROVE  /\ E = {} => l.kind = "none"
         /\ E # {} => l.kind = "delete all" /\ l.left = E
BY DEF NoLoop

LEMMA ListStepFits ==
  ASSUME TypeOK, NEW r \in Run, NEW s, NEW o, NEW n, Includes(n, StepMakes(s, o)),
         FitsAt(o, r), Passes(s, o), RemoveAllPointers(r), s.do = "delete all"
  PROVE  /\ UNCHANGED scenario
         /\ IF loop'[r].kind = "none" THEN FitsAt(n, r)'
            ELSE loop'[r].kind = "delete all" /\ Deleting(n, r)'
<1> DEFINE Gone == [p \in Pointer |-> {}]
<1>1. /\ file[r] \in o.file /\ token[r] \in o.token /\ StoreFits(o, schemes, dids)
      /\ token[r] = "zm" /\ Authorised(r)
  BY DEF FitsAt, Fits, Passes, Authorises, Authorised
<1>2. /\ response'[r] = [status |-> 200, body |-> Exists]
      /\ loop'[r] = IF Exists = {} THEN NoLoop ELSE [kind |-> "delete all", left |-> Exists]
      /\ UNCHANGED <<store, scenario, token, file>>
  BY <1>1 DEF RemoveAllPointers, TypeOK
<1>3. schemes' = schemes /\ dids' = dids /\ Exists' = Exists
  BY <1>2 DEF store, Exists
<1>4. TokenAfter(s, o) = o.token /\ FileAfter(s, o) = o.file
      /\ ResponseAfter(s, o) = [status : {200}, body : Listings(o)]
  BY Zenon DEF TokenAfter, FileAfter, ResponseAfter, Reading, Writing
<1>5. \A p \in Pointer : Gone[p] \in SchemesMade(s, o, p) /\ dids'[p] \in DidsMade(s, o, p)
  <2> SUFFICES ASSUME NEW p \in Pointer
               PROVE  Gone[p] \in SchemesMade(s, o, p) /\ dids'[p] \in DidsMade(s, o, p)
    OBVIOUS
  <2>1. SchemesMade(s, o, p) = {{}} /\ DidsMade(s, o, p) = o.dids[p] \cup {NoDid}
    BY Zenon DEF SchemesMade, DidsMade, Writing
  <2> QED BY <1>1, <1>3, <2>1 DEF StoreFits
<1>6. response'[r] \in ResponseAfter(s, o)
  BY <1>1, <1>2, <1>4, ListingFits
<1> HIDE DEF Gone
<1>7. Fits(StepMakes(s, o), Gone, dids', token'[r], file'[r], response'[r])
  BY <1>1, <1>2, <1>4, <1>5, <1>6, FitsMakes
<1>8. Fits(n, Gone, dids', token'[r], file'[r], response'[r])
  BY <1>7, FitsIncluded
<1> DEFINE E == Exists
<1>9. Exists' = E /\ loop'[r] = IF E = {} THEN NoLoop ELSE [kind |-> "delete all", left |-> E]
  BY <1>2, <1>3
<1> HIDE DEF E
<1>10. CASE E = {}
  <2>1. \A p \in Pointer : schemes'[p] = Gone[p]
    BY <1>3, <1>10 DEF Gone, Exists, E
  <2>2. FitsAt(n, r)'
    BY <1>8, <2>1 DEF FitsAt, Fits, StoreFits
  <2>3. loop'[r].kind = "none"
    BY <1>9, <1>10, ListedLoop
  <2> QED BY <1>2, <2>2, <2>3
<1>11. CASE E # {}
  <2>1. loop'[r].kind = "delete all" /\ loop'[r].left = E
    BY <1>9, <1>11, ListedLoop
  <2>2. Deleting(n, r)'
    BY <1>1, <1>2, <1>8, <1>9, <2>1 DEF Deleting, Gone
  <2> QED BY <1>2, <2>1, <2>2
<1> QED BY <1>10, <1>11

LEMMA DeleteStepFits ==
  ASSUME TypeOK, NEW r \in Run, NEW s, NEW o, NEW n, Includes(n, StepMakes(s, o)),
         Deleting(n, r), DeleteNext(r), s.do = "delete all"
  PROVE  /\ UNCHANGED scenario
         /\ IF loop'[r].kind = "none" THEN FitsAt(n, r)'
            ELSE loop'[r].kind = "delete all" /\ Deleting(n, r)'
<1> DEFINE Gone == [p \in Pointer |-> {}]
<1>1. /\ Fits(n, Gone, dids, token[r], file[r], response[r]) /\ token[r] = "zm"
      /\ loop[r].left = Exists /\ loop[r].kind = "delete all"
  BY DEF Deleting, DeleteNext
<1>2. PICK x \in Exists :
        IF Answer(r, DeleteSchemes(x)) = 204
        THEN /\ Store(DeleteSchemes(x)) /\ Iterate(r, x)
             /\ UNCHANGED <<scenario, token, file, response>>
        ELSE Fails(r)
  BY <1>1 DEF DeleteNext
<1>3. x \in Pointer /\ schemes[x] # {}
  BY <1>2 DEF Exists
<1>4. Answer(r, DeleteSchemes(x)) = 204
  BY <1>1, <1>3 DEF Answer, Authorised, Status, Accepts, DeleteSchemes
<1>5. Store(DeleteSchemes(x)) /\ Iterate(r, x) /\ UNCHANGED <<scenario, token, file, response>>
  BY <1>2, <1>4
<1>6. /\ schemes' = [schemes EXCEPT ![x] = {}]
      /\ dids' = [p \in Pointer |-> IF p \in schemes[x] \cup {x} THEN NoDid ELSE dids[p]]
  BY <1>3, <1>5 DEF Store, Accepts, DeleteSchemes
<1>7. Exists' = Exists \ {x}
  BY <1>3, <1>6 DEF Exists, TypeOK, StoreTypeOK
<1>8. \A p \in Pointer : NoDid \in n.dids[p] /\ dids[p] \in n.dids[p] /\ {} \in n.schemes[p]
  <2> SUFFICES ASSUME NEW p \in Pointer
               PROVE  NoDid \in n.dids[p] /\ dids[p] \in n.dids[p] /\ {} \in n.schemes[p]
    OBVIOUS
  <2>1. SchemesMade(s, o, p) = {{}} /\ DidsMade(s, o, p) = o.dids[p] \cup {NoDid}
    BY Zenon DEF SchemesMade, DidsMade, Writing
  <2>2. /\ SchemesMade(s, o, p) \subseteq n.schemes[p]
        /\ DidsMade(s, o, p) \subseteq n.dids[p]
    BY DEF Includes, StepMakes, Finds
  <2> QED BY <1>1, <2>1, <2>2 DEF Fits, StoreFits
<1>9. \A p \in Pointer : dids'[p] \in n.dids[p]
  BY <1>6, <1>8
<1>10. token'[r] = token[r] /\ file'[r] = file[r] /\ response'[r] = response[r]
       /\ token[r] \in n.token /\ file[r] \in n.file /\ response[r] \in n.response
  BY <1>1, <1>5 DEF Fits
<1>11. /\ loop'[r].kind # "none" => loop'[r].kind = "delete all" /\ loop'[r].left = Exists'
       /\ loop'[r].kind = "none" => Exists' = {}
  BY <1>1, <1>5, <1>7, IterateLoop
<1>12. CASE loop'[r].kind = "none"
  <2>1. \A p \in Pointer : schemes'[p] = {}
    BY <1>11, <1>12 DEF Exists
  <2> QED BY <1>5, <1>8, <1>9, <1>10, <1>12, <2>1 DEF FitsAt, Fits, StoreFits
<1>13. CASE loop'[r].kind # "none"
  <2>1. Fits(n, Gone, dids', token'[r], file'[r], response'[r])
    BY <1>8, <1>9, <1>10 DEF Fits, StoreFits
  <2> HIDE DEF Gone
  <2>2. Deleting(n, r)'
    BY <1>1, <1>10, <1>11, <1>13, <2>1 DEF Deleting, Gone
  <2> QED BY <1>5, <1>11, <1>13, <2>2
<1> QED BY <1>12, <1>13

-----------------------------------------------------------------------------
(* The context of a run is its own, and gone when no scenario is running.    *)

LEMMA LeaveContext ==
  ASSUME TypeOK, NEW r \in Run, Leave(r)
  PROVE  /\ token'[r] = "none" /\ response'[r] = NoResponse /\ file' = file
         /\ schemes' = schemes /\ dids' = dids
         /\ \A q \in Run \ {r} : token'[q] = token[q] /\ response'[q] = response[q]
BY DEF Leave, TypeOK, store

LEMMA ContextFrame ==
  ASSUME TypeOK, NEW r \in Run, StepOf(r), NEW q \in Run \ {r}
  PROVE  token'[q] = token[q] /\ file'[q] = file[q] /\ response'[q] = response[q]
<1>0. Leave(r) => token'[q] = token[q] /\ file'[q] = file[q] /\ response'[q] = response[q]
  BY LeaveContext
<1>1. CASE TokenStep(r)
  BY <1>0, <1>1 DEF TokenStep, BeginScenario, EndScenario, FetchToken, SaveToken, LoadToken,
                    Fails, TypeOK
<1>2. CASE WriteStep(r)
  <2>1. PICK w \in Write : Requests(r, w)
    BY <1>2, WriteStepIsRequest
  <2> QED BY <2>1 DEF Requests, TypeOK
<1>3. CASE ReadStep(r)
  <2>1. \/ Fails(r) \/ UNCHANGED vars
        \/ \E body : Reads(r, body)
    BY <1>3 DEF ReadStep, RequestsZones, RequestsPointer, ReadPointersDid, GetHttp,
                ContentMatches
  <2>2. CASE \E body : Reads(r, body)
    BY <2>2 DEF Reads, TypeOK
  <2> QED BY <1>0, <2>1, <2>2 DEF Fails, vars, runVars
<1>4. CASE LoopStep(r)
  <2>1. CASE Fails(r)
    BY <1>0, <2>1 DEF Fails
  <2>2. CASE ~Fails(r)
    BY <1>4, <2>2 DEF LoopStep, RemoveAllPointers, DeleteNext, CheckNext, CheckPointers, TypeOK
  <2> QED BY <2>1, <2>2
<1>5. CASE FaultStep(r)
  BY <1>0, <1>5 DEF FaultStep, NotUp, TokenExpires, TspaFeatureSaves, Abort, TimesOut, Fails,
                    runVars, TypeOK
<1> QED BY <1>1, <1>2, <1>3, <1>4, <1>5 DEF StepOf

(* When a step of r leaves r idle, it ended r's scenario or none was running. *)
LEMMA IdleStep ==
  ASSUME TypeOK, NEW r \in Run, StepOf(r), scenario'[r] = "idle"
  PROVE  Leave(r) \/ (scenario[r] = "idle" /\ response' = response
                        /\ (token[r] = "none" => token'[r] = "none"))
<1> DEFINE Goal == Leave(r) \/ (scenario[r] = "idle" /\ response' = response
                                  /\ (token[r] = "none" => token'[r] = "none"))
<1>0. Running(r) /\ scenario' = scenario => Goal
  BY DEF Running
<1>1. CASE TokenStep(r)
  BY <1>0, <1>1 DEF TokenStep, BeginScenario, EndScenario, FetchToken, SaveToken, LoadToken,
                    Fails, TypeOK, Ready
<1>2. CASE WriteStep(r)
  BY <1>0, <1>2, WriteStepIsRequest DEF Requests, Ready
<1>3. CASE ReadStep(r)
  BY <1>0, <1>3 DEF ReadStep, RequestsZones, RequestsPointer, ReadPointersDid, GetHttp,
                    ContentMatches, Reads, Ready, Fails, vars, runVars
<1>4. CASE LoopStep(r)
  BY <1>0, <1>4 DEF LoopStep, RemoveAllPointers, DeleteNext, CheckNext, CheckPointers, Ready,
                    Fails
<1>5. CASE FaultStep(r)
  BY <1>5 DEF FaultStep, NotUp, TokenExpires, TspaFeatureSaves, Abort, TimesOut, Fails,
              runVars, TypeOK
<1> QED BY <1>1, <1>2, <1>3, <1>4, <1>5 DEF StepOf

LEMMA IdleStaysBare ==
  ASSUME TypeOK, IdleIsBare, [Next]_vars
  PROVE  IdleIsBare'
<1>1. ASSUME NEW r \in Run, StepOf(r), NEW q \in Run, scenario'[q] = "idle"
      PROVE  token'[q] = "none" /\ response'[q] = NoResponse
  <2>1. CASE q = r
    BY <1>1, <2>1, IdleStep, LeaveContext DEF IdleIsBare
  <2>2. CASE q # r
    BY <1>1, <2>2, StepFrame, ContextFrame DEF IdleIsBare
  <2> QED BY <2>1, <2>2
<1>2. ASSUME LateLands \/ UNCHANGED vars PROVE IdleIsBare'
  BY <1>2 DEF LateLands, vars, runVars, IdleIsBare
<1>3. (\E r \in Run : StepOf(r)) \/ LateLands \/ UNCHANGED vars
  BY DEF Next, StepOf
<1> QED BY <1>1, <1>2, <1>3 DEF IdleIsBare

-----------------------------------------------------------------------------
(* The store stays within what a run may start with.                        *)

LEMMA ExecuteStore ==
  ASSUME TypeOK, NEW r \in Run, NEW s \in StepTexts, Execute(r, s)
  PROVE  \/ UNCHANGED store
         \/ s.do \in Writing /\ Store(WriteOf(s))
         \/ s.do = "delete all" /\ \E p \in Pointer : Store(DeleteSchemes(p))
<1>1. CASE s.do \in Writing
  BY <1>1, StepWrites DEF Requests
<1>2. CASE s.do \in {"fetch token", "save token", "load token"}
  <2>1. FetchToken(r) \/ SaveToken(r) \/ LoadToken(r)
    BY <1>2, Zenon DEF Execute
  <2> QED BY <2>1 DEF FetchToken, SaveToken, LoadToken, Fails, Leave
<1>3. CASE s.do = "delete all"
  <2>1. RemoveAllPointers(r) \/ DeleteNext(r)
    BY <1>3, Zenon DEF Execute
  <2>2. CASE RemoveAllPointers(r)
    BY <2>2 DEF RemoveAllPointers, Fails, Leave
  <2>3. CASE DeleteNext(r)
    BY <1>3, <2>3, LoopLeftType DEF DeleteNext, Fails, Leave
  <2> QED BY <2>1, <2>2, <2>3
<1>4. CASE s.do = "check"
  <2>1. CheckPointers(r, s.kind, s.ptrs) \/ CheckNext(r)
    BY <1>4, Zenon DEF Execute
  <2> QED BY <2>1 DEF CheckPointers, CheckNext, Fails, Leave
<1>5. CASE s.do \notin Writing \cup {"fetch token", "save token", "load token", "delete all", "check"}
  <2>1. \/ RequestsZones(r) \/ RequestsPointer(r, s.ptr) \/ ReadPointersDid(r, s.ptr)
        \/ GetHttp(r, s.code) \/ ContentMatches(r, s.body)
    BY <1>5, Zenon DEF Execute, Writing
  <2> QED BY <2>1 DEF RequestsZones, RequestsPointer, ReadPointersDid, Reads, GetHttp,
               ContentMatches, vars, Fails, Leave
<1> QED BY <1>1, <1>2, <1>3, <1>4, <1>5

LEMMA DeletesForeseen ==
  ASSUME NEW o, NEW p
  PROVE  Foresees(o, DeleteSchemes(p)) /\ Foresees(o, DeleteDid(p))
BY DEF Foresees, DeleteSchemes, DeleteDid

LEMMA WriteInBounds ==
  ASSUME TypeOK, NEW o, StoreFits(o, schemes, dids), NEW w \in Write, Store(w), Foresees(o, w),
         \A p \in Pointer : {} \in o.schemes[p] /\ NoDid \in o.dids[p]
  PROVE  StoreFits(o, schemes, dids)'
<1> USE WriteType
<1>1. \A p \in Pointer : schemes[p] \in o.schemes[p] /\ dids[p] \in o.dids[p]
  BY DEF StoreFits
<1>2. schemes \in [Pointer -> SUBSET Pointer] /\ dids \in [Pointer -> Did \cup {NoDid}]
  BY DEF TypeOK, StoreTypeOK
<1> SUFFICES ASSUME NEW p \in Pointer PROVE schemes'[p] \in o.schemes[p] /\ dids'[p] \in o.dids[p]
  BY DEF StoreFits
<1>3. CASE w.op \in {"put schemes", "put did"}
  BY <1>1, <1>2, <1>3 DEF Store, Accepts, store, Foresees
<1>4. CASE w.op \in {"delete schemes", "delete did"}
  BY <1>1, <1>2, <1>4 DEF Store, store
<1> QED BY <1>3, <1>4

LEMMA EmptyInBounds ==
  \A p \in Pointer : {} \in Foreseen(Start).schemes[p] /\ NoDid \in Foreseen(Start).dids[p]
<1>1. "none" \in Token
  BY DEF Token
<1>2. Fits(Foreseen(Start), [p \in Pointer |-> {}], [p \in Pointer |-> NoDid], "none", "none",
           NoResponse)
  BY <1>1, OutlineAssumption
<1> QED BY <1>2 DEF Fits, StoreFits

(* What a run writes, at once or late, is foreseen.                          *)
LEMMA WritesForeseen ==
  ASSUME FeatureInv, AtPositions, NEW r \in Run, InStep(r)
  PROVE  /\ Step(r) \in StepTexts
         /\ Step(r).do \in Writing =>
              WriteOf(Step(r)) \in Write /\ Foresees(Foreseen(Start), WriteOf(Step(r)))
<1>1. Step(r) \in StepTexts
  BY StepType DEF FeatureInv
<1>2. pc[r] \in Positions \ {End} /\ Stepping(pc[r]) /\ Step(r) = StepAt(pc[r])
  BY AtPosition
<1>3. Step(r).do \in Writing => Foresees(Foreseen(Start), WriteOf(Step(r)))
  BY <1>2, OutlineAssumption
<1> QED BY <1>1, <1>3, StepWrites

LEMMA SentForeseen ==
  ASSUME TypeOK, FeatureInv, AtPositions, NEW r \in Run, InStep(r), NEW w \in Sent(r)
  PROVE  Foresees(Foreseen(Start), w)
<1> DEFINE s == Step(r)
<1>1. CASE s.do \in Writing
  <2>1. Sent(r) = {WriteOf(s)}
    BY <1>1, Zenon DEF Sent, WriteOf, Writing
  <2> QED BY <1>1, <2>1, WritesForeseen
<1>2. CASE s.do \notin Writing
  <2>1. CASE s.do = "delete all" /\ loop[r].kind = "delete all"
    <3>1. Sent(r) = UnderWay(r)
      BY <2>1, Zenon DEF Sent
    <3>2. PICK p \in loop[r].left : w = DeleteSchemes(p)
      BY <2>1, <3>1 DEF UnderWay
    <3> QED BY <3>2, DeletesForeseen
  <2>2. CASE ~(s.do = "delete all" /\ loop[r].kind = "delete all")
    <3>1. Sent(r) = {}
      BY <1>2, <2>2, Zenon DEF Sent, Writing
    <3> QED BY <3>1
  <2> QED BY <2>1, <2>2
<1> QED BY <1>1, <1>2

LEMMA RunStepStore ==
  ASSUME TypeOK, FeatureInv, AtPositions, NEW r \in Run, RunStep(r)
  PROVE  /\ late' = late /\ faults' = faults
         /\ UNCHANGED store \/ \E w \in Write : Store(w) /\ Foresees(Foreseen(Start), w)
<1>1. CASE InStep(r) /\ Execute(r, Step(r))
  <2> DEFINE s == Step(r)
  <2>1. s \in StepTexts /\ (s.do \in Writing =>
          WriteOf(s) \in Write /\ Foresees(Foreseen(Start), WriteOf(s)))
    BY <1>1, WritesForeseen
  <2>2. \/ UNCHANGED store
        \/ s.do \in Writing /\ Store(WriteOf(s))
        \/ \E p \in Pointer : Store(DeleteSchemes(p))
    BY <1>1, <2>1, ExecuteStore
  <2>3. late' = late /\ faults' = faults
    <3> HIDE DEF s
    <3>1. \/ FetchToken(r) \/ SaveToken(r) \/ LoadToken(r)
          \/ RemoveAllPointers(r) \/ DeleteNext(r)
          \/ CheckPointers(r, s.kind, s.ptrs) \/ CheckNext(r)
          \/ CreatingPointers(r, s.ptrs, s.ptr) \/ CreateDid(r, s.did, s.ptr)
          \/ RemovePointer(r, s.ptr) \/ RemoveDid(r, s.ptr)
          \/ RequestsZones(r) \/ RequestsPointer(r, s.ptr) \/ ReadPointersDid(r, s.ptr)
          \/ GetHttp(r, s.code) \/ ContentMatches(r, s.body)
      BY <1>1, Zenon DEF Execute, s
    <3> QED BY <3>1 DEF FetchToken, SaveToken, LoadToken, RemoveAllPointers, DeleteNext,
                 CheckPointers, CheckNext, CreatingPointers, CreateDid, RemovePointer, RemoveDid,
                 Requests, RequestsZones, RequestsPointer, ReadPointersDid, Reads, GetHttp,
                 ContentMatches, vars, runVars, Fails
  <2> QED BY <2>1, <2>2, <2>3, DeleteIsWrite, DeletesForeseen
<1>2. CASE BeginScenario(r) \/ EndScenario(r)
  BY <1>2 DEF BeginScenario, EndScenario, Fails, Leave
<1> QED BY <1>1, <1>2 DEF RunStep

LEMMA BoundsKept ==
  ASSUME TypeOK, FeatureInv, AtPositions, InBounds, [FeatureNext]_featureVars
  PROVE  InBounds'
<1> DEFINE o == Foreseen(Start)
<1>1. StoreFits(o, schemes, dids) /\ \A w \in late : Foresees(o, w)
  BY DEF InBounds
<1>2. ASSUME UNCHANGED <<schemes, dids>>, \A w \in late' : Foresees(o, w) PROVE InBounds'
  BY <1>1, <1>2 DEF InBounds
<1>3. ASSUME NEW w \in Write, Store(w), Foresees(o, w), late' \subseteq late PROVE InBounds'
  <2> HIDE DEF o
  <2>1. StoreFits(o, schemes, dids)'
    BY <1>1, <1>3, WriteInBounds, EmptyInBounds DEF o
  <2> QED BY <1>1, <1>3, <2>1 DEF InBounds, o
<1>4. ASSUME NEW r \in Run, RunStep(r) PROVE InBounds'
  BY <1>1, <1>2, <1>3, <1>4, RunStepStore DEF store
<1>5. ASSUME NEW r \in Run, NotUpStep(r) \/ TokenLost(r) PROVE InBounds'
  BY <1>1, <1>2, <1>5 DEF NotUpStep, NotUp, TokenLost, TokenExpires, TspaFeatureSaves, store
<1>6. ASSUME NEW r \in Run, StepTimesOut(r) PROVE InBounds'
  <2>1. InStep(r)
    BY <1>6 DEF StepTimesOut, Requesting
  <2>2. PICK W \in {{}} \cup {{w} : w \in Sent(r)} : TimesOut(r, W)
    BY <1>6 DEF StepTimesOut
  <2>3. W \subseteq Sent(r)
    BY <2>2
  <2>4. \A w \in W : Foresees(o, w)
    BY <2>1, <2>3, SentForeseen
  <2> HIDE DEF o
  <2> QED BY <1>1, <1>2, <2>2, <2>4 DEF TimesOut, Leave, store
<1>7. ASSUME NEW r \in Run, Restart(r) PROVE InBounds'
  BY <1>1, <1>2, <1>7 DEF Restart, Abort, Fails, Leave, vars, store
<1>8. CASE LateWriteLands
  <2>1. PICK w \in late : Store(w) /\ late' = late \ {w}
    BY <1>8 DEF LateWriteLands, LateLands
  <2>2. w \in Write
    BY DEF TypeOK
  <2> QED BY <1>1, <1>3, <2>1, <2>2
<1>9. CASE UNCHANGED featureVars
  BY <1>1, <1>2, <1>9 DEF featureVars, vars, store
<1>10. Stop => UNCHANGED featureVars
  BY DEF Stop
<1> QED BY <1>4, <1>5, <1>6, <1>7, <1>8, <1>9, <1>10 DEF FeatureNext

-----------------------------------------------------------------------------
(* Every run stays at the places of the outline.                            *)

LEMMA FaultMoves ==
  ASSUME TypeOK, FeatureInv, AtPositions, NEW r \in Run, NotUpStep(r) \/ StepTimesOut(r)
  PROVE  pc[r] \in Positions \ {End} /\ Goes(r, Off(pc[r]))
<1>1. pc[r] \in Positions /\ pc[r] # End
  BY AtPosition DEF NotUpStep, StepTimesOut, Requesting, InStep
<1>2. scenario'[r] = "idle"
  BY LeaveEnds DEF NotUpStep, NotUp, runVars, StepTimesOut, TimesOut
<1> QED BY <1>1, <1>2, AtPosition DEF NotUpStep, StepTimesOut, Advance, Goes

LEMMA PositionsKept ==
  ASSUME TypeOK, TypeOK', FeatureInv, AtPositions, [FeatureNext]_featureVars
  PROVE  AtPositions'
<1>1. ASSUME NEW r \in Run, NotUpStep(r) \/ StepTimesOut(r) PROVE AtPositions'
  BY <1>1, FaultMoves, NextPositions, GoesPositions
<1>2. ASSUME NEW r \in Run, Restart(r) PROVE AtPositions'
  BY <1>2, StartIsPosition, GoesPositions DEF Restart, Goes
<1>3. ASSUME UNCHANGED pc PROVE AtPositions'
  BY <1>3 DEF AtPositions
<1>4. UNCHANGED featureVars \/ LateWriteLands \/ (\E r \in Run : TokenLost(r)) => UNCHANGED pc
  BY DEF featureVars, feature, LateWriteLands, TokenLost
<1> QED BY <1>1, <1>2, <1>3, <1>4, RunStepPositions DEF FeatureNext, Stop

-----------------------------------------------------------------------------
(* An undisturbed run keeps to the outline: what its own step does.          *)

LEMMA StepKeeps ==
  ASSUME TypeOK, NEW r \in Run, NEW s \in StepTexts, NEW o, NEW n,
         Includes(n, StepMakes(s, o)), Passes(s, o), Execute(r, s),
         loop[r].kind # "none" => s.do \in {"delete all", "check"},
         IF loop[r].kind = "delete all" THEN Deleting(n, r) ELSE FitsAt(o, r) /\ Checking(s, r)
  PROVE  /\ UNCHANGED scenario
         /\ loop'[r].kind = "none" => FitsAt(n, r)'
         /\ loop'[r].kind = "delete all" => Deleting(n, r)'
         /\ loop'[r].kind \notin {"none", "delete all"} => FitsAt(o, r)' /\ Checking(s, r)'
<1>1. FitsAt(StepMakes(s, o), r)' => FitsAt(n, r)'
  BY FitsIncluded DEF FitsAt
<1>2. CASE s.do = "delete all"
  <2>1. RemoveAllPointers(r) \/ DeleteNext(r)
    BY <1>2, Zenon DEF Execute
  <2>2. CASE RemoveAllPointers(r)
    <3>1. loop[r].kind = "none"
      BY <2>2 DEF RemoveAllPointers, Ready
    <3> QED BY <1>2, <2>2, <3>1, ListStepFits
  <2>3. CASE DeleteNext(r)
    <3>1. loop[r].kind = "delete all"
      BY <2>3 DEF DeleteNext
    <3> QED BY <1>2, <2>3, <3>1, DeleteStepFits
  <2> QED BY <2>1, <2>2, <2>3
<1>3. CASE s.do = "check"
  <2>1. loop[r].kind # "delete all"
    <3>1. CheckPointers(r, s.kind, s.ptrs) \/ CheckNext(r)
      BY <1>3, Zenon DEF Execute
    <3> QED BY <3>1 DEF CheckPointers, CheckNext, Ready
  <2> QED BY <1>1, <1>3, <2>1, CheckStepFits
<1>4. CASE s.do \notin {"delete all", "check"}
  <2>1. loop[r].kind = "none" /\ FitsAt(o, r)
    BY <1>4
  <2>2. FitsAt(StepMakes(s, o), r)' /\ UNCHANGED <<scenario, loop>>
    <3>1. CASE s.do \in Writing
      BY <2>1, <3>1, WriteStepFits
    <3>2. CASE s.do \in Reading
      BY <2>1, <3>2, ReadStepFits
    <3>3. CASE s.do \in {"fetch token", "save token", "load token"}
      BY <2>1, <3>3, TokenStepFits
    <3>4. CASE s.do \in {"get http", "content"}
      BY <2>1, <3>4, ThenStepFits
    <3> QED BY <1>4, <3>1, <3>2, <3>3, <3>4 DEF StepTexts, Writing, Reading
  <2> QED BY <1>1, <2>1, <2>2
<1> QED BY <1>2, <1>3, <1>4

(* The outline at a place of a run that is not over.                         *)
LEMMA LeadsAt ==
  ASSUME AtPositions, NEW r \in Run, ~Finished(r)
  PROVE  Leads(pc[r])
BY AtPosition, OutlineAssumption

LEMMA RunStepRecord ==
  ASSUME TypeOK, NEW r \in Run, RunStep(r), disturbed \in [Run -> BOOLEAN],
         failed \in [Run -> BOOLEAN]
  PROVE  /\ failed'[r] => failed[r] \/ (InStep(r) /\ scenario'[r] = "idle")
         /\ \A q \in Run : ~disturbed'[q] => ~disturbed[q] /\ (q # r => UNCHANGED store)
         /\ \A q \in Run \ {r} : failed'[q] = failed[q]
<1>1. \/ Record(r, FALSE, FALSE) \/ (InStep(r) /\ Record(r, scenario'[r] = "idle", FALSE))
  BY Zenon DEF RunStep
<1>2. PICK fails \in BOOLEAN : Record(r, fails, FALSE) /\ (fails => scenario'[r] = "idle" /\ InStep(r))
  BY <1>1
<1>3. failed' = [failed EXCEPT ![r] = @ \/ fails]
  BY <1>2, Zenon DEF Record
<1>4. ASSUME NEW q \in Run, ~disturbed'[q]
      PROVE  ~disturbed[q] /\ (q # r => UNCHANGED store)
  BY <1>2, <1>4 DEF Record
<1> QED BY <1>2, <1>3, <1>4

LEMMA BeginKeeps ==
  ASSUME TypeOK, FeatureInv, AtPositions, NEW r \in Run, RunStep(r), Begins(r), Keeps(r),
         NEW n, n = Foreseen(On(pc[r]))
  PROVE  loop'[r].kind = "none" /\ FitsAt(n, r)'
<1> DEFINE o == Foreseen(pc[r])
<1>1. /\ UNCHANGED <<schemes, dids, file, response, loop>> /\ token'[r] = "none" /\ ~Running(r)
  BY DEF Begins, BeginScenario, TypeOK, store, Running
<1>2. loop[r].kind = "none"
  BY <1>1, IdleHasNoLoop
<1>3. FitsAt(o, r)
  BY <1>2 DEF Keeps
<1>4. Includes(n, Begun(o))
  BY LeadsAt DEF Leads, Begins, RunStep
<1> HIDE DEF o
<1>5. Fits(Begun(o), schemes', dids', token'[r], file'[r], response'[r])
  BY <1>1, <1>3 DEF FitsAt, Fits, Begun, Finds, StoreFits
<1>6. Fits(n, schemes', dids', token'[r], file'[r], response'[r])
  BY <1>4, <1>5, FitsIncluded
<1> QED BY <1>1, <1>2, <1>6 DEF FitsAt

LEMMA EndKeeps ==
  ASSUME TypeOK, FeatureInv, AtPositions, NEW r \in Run, RunStep(r), EndScenario(r), Over(pc[r]),
         Keeps(r), NEW n, n = Foreseen(Off(pc[r]))
  PROVE  loop'[r].kind = "none" /\ FitsAt(n, r)'
<1> DEFINE o == Foreseen(pc[r])
<1>1. Leave(r) /\ loop[r].kind = "none"
  BY DEF EndScenario, Ready, Fails
<1>2. FitsAt(o, r)
  BY <1>1 DEF Keeps
<1>3. Includes(n, Ended(o))
  BY LeadsAt DEF Leads, RunStep
<1> HIDE DEF o
<1>4. Fits(Ended(o), schemes', dids', token'[r], file'[r], response'[r])
  BY <1>1, <1>2, LeaveContext DEF FitsAt, Fits, Ended, Finds, StoreFits
<1>5. Fits(n, schemes', dids', token'[r], file'[r], response'[r])
  BY <1>3, <1>4, FitsIncluded
<1> QED BY <1>1, <1>5, LeaveEnds DEF FitsAt

LEMMA ExecuteKeeps ==
  ASSUME TypeOK, FeatureInv, AtPositions, NEW r \in Run, InStep(r), Execute(r, Step(r)), Keeps(r),
         NEW s, s = Step(r), NEW o, o = Foreseen(pc[r]), NEW n, n = Foreseen(On(pc[r]))
  PROVE  /\ scenario'[r] = "running"
         /\ loop'[r].kind = "none" => FitsAt(n, r)'
         /\ loop'[r].kind = "delete all" => Deleting(n, r)'
         /\ loop'[r].kind \notin {"none", "delete all"} => FitsAt(o, r)' /\ Checking(s, r)'
<1>1. s \in StepTexts
  BY WritesForeseen
<1>2. Passes(s, o) /\ Includes(n, StepMakes(s, o))
  <2>1. Stepping(pc[r]) /\ s = StepAt(pc[r]) /\ ~Finished(r)
    BY AtPosition
  <2> QED BY <2>1, LeadsAt DEF Leads
<1>3. loop[r].kind # "none" => s.do \in {"delete all", "check"}
  BY DEF FeatureInv, LoopIsOfStep
<1>4. IF loop[r].kind = "delete all" THEN Deleting(n, r) ELSE FitsAt(o, r) /\ Checking(s, r)
  BY DEF Keeps
<1>5. scenario[r] = "running"
  BY PlaceType DEF FeatureInv, Placed
<1> QED BY <1>1, <1>2, <1>3, <1>4, <1>5, StepKeeps

LEMMA RunStepKeeps ==
  ASSUME TypeOK, TypeOK', FeatureInv, AtPositions, NEW r \in Run, RunStep(r), Keeps(r)
  PROVE  Keeps(r)'
<1>1. failed'[r] => InStep(r) /\ scenario'[r] = "idle"
  BY RunStepRecord DEF Keeps, FeatureInv, Counted
<1>2. CASE Begins(r)
  <2>1. pc'[r] = On(pc[r]) /\ ~InStep(r)
    BY <1>2, RunStepPositions, AtPosition, NextPositions DEF Begins, RunStep
  <2>2. ASSUME NEW n, n = Foreseen(On(pc[r]))
        PROVE  loop'[r].kind = "none" /\ FitsAt(n, r)'
    BY <1>2, <2>2, BeginKeeps
  <2>3. loop'[r].kind = "none" /\ FitsAt(Foreseen(pc[r]), r)'
    BY <2>1, <2>2
  <2> QED BY <1>1, <2>1, <2>3 DEF Keeps, Checking
<1>3. CASE Passing(r) \/ Looping(r) \/ Failing(r)
  <2>1. InStep(r) /\ Execute(r, Step(r))
    BY <1>3 DEF Passing, Looping, Failing
  <2>2. ASSUME NEW s, s = Step(r), NEW o, o = Foreseen(pc[r]), NEW n, n = Foreseen(On(pc[r]))
        PROVE  /\ scenario'[r] = "running"
               /\ loop'[r].kind = "none" => FitsAt(n, r)'
               /\ loop'[r].kind = "delete all" => Deleting(n, r)'
               /\ loop'[r].kind \notin {"none", "delete all"} => FitsAt(o, r)' /\ Checking(s, r)'
    BY <2>1, <2>2, ExecuteKeeps
  <2>3. scenario'[r] = "running"
    BY <2>2
  <2>4. ~Failing(r)
    BY <2>3, LeaveEnds DEF Failing, Leaves
  <2>5. CASE Passing(r)
    <3>1. pc'[r] = On(pc[r]) /\ loop'[r].kind = "none"
      BY <2>5, RunStepPositions DEF Passing
    <3>2. FitsAt(Foreseen(pc[r]), r)'
      BY <2>2, <3>1
    <3> QED BY <1>1, <2>3, <3>1, <3>2 DEF Keeps, Checking
  <2>6. CASE Looping(r)
    <3>1. pc'[r] = pc[r] /\ loop'[r].kind # "none"
      BY <2>6, RunStepPositions DEF Looping
    <3>2. CASE loop'[r].kind = "delete all"
      <4>1. Deleting(Foreseen(On(pc[r])), r)'
        BY <2>2, <3>1, <3>2
      <4> QED BY <1>1, <2>3, <3>2, <4>1 DEF Keeps
    <3>3. CASE loop'[r].kind # "delete all"
      <4>1. Step(r)' = Step(r)
        BY <3>1 DEF Step, Steps
      <4>2. FitsAt(Foreseen(pc[r]), r)' /\ Checking(Step(r), r)'
        BY <2>2, <3>1, <3>3, <4>1
      <4> QED BY <1>1, <2>3, <3>3, <4>2 DEF Keeps
    <3> QED BY <3>2, <3>3
  <2> QED BY <1>3, <2>4, <2>5, <2>6
<1>4. CASE Ending(r)
  <2>1. pc'[r] = Off(pc[r]) /\ Over(pc[r]) /\ ~Stepping(pc[r]) /\ pc[r].step # 0
    BY <1>4, RunStepPositions, AtPosition, NextPositions DEF Ending, RunStep
  <2>2. EndScenario(r) /\ ~InStep(r)
    BY <2>1, AtPosition DEF RunStep
  <2>3. ASSUME NEW n, n = Foreseen(Off(pc[r]))
        PROVE  loop'[r].kind = "none" /\ FitsAt(n, r)'
    BY <2>1, <2>2, <2>3, EndKeeps
  <2>4. loop'[r].kind = "none" /\ FitsAt(Foreseen(pc[r]), r)'
    BY <2>1, <2>3
  <2> QED BY <1>1, <2>2, <2>4 DEF Keeps, Checking
<1> QED BY <1>2, <1>3, <1>4, RunMoves

(* What the step of another run leaves alone.                               *)
LEMMA OthersKeep ==
  ASSUME NEW q \in Run, Keeps(q), UNCHANGED <<schemes, dids>>, pc'[q] = pc[q],
         failed'[q] = failed[q], loop'[q] = loop[q],
         token'[q] = token[q], file'[q] = file[q], response'[q] = response[q]
  PROVE  Keeps(q)'
BY DEF Keeps, FitsAt, Deleting, Checking, Step, Steps, Exists, Fits, StoreFits

LEMMA RecordFrame ==
  ASSUME NEW r \in Run, NEW fails \in BOOLEAN, NEW faulty \in BOOLEAN, Record(r, fails, faulty),
         disturbed \in [Run -> BOOLEAN], failed \in [Run -> BOOLEAN],
         NEW q \in Run, ~disturbed'[q]
  PROVE  /\ ~disturbed[q] /\ (q = r => ~faulty)
         /\ q # r => UNCHANGED <<schemes, dids>> /\ failed'[q] = failed[q]
BY DEF Record, store

LEMMA RestartKeeps ==
  ASSUME TypeOK, FeatureInv, AtPositions, IdleIsBare, InBounds, NEW r \in Run, Restart(r)
  PROVE  Keeps(r)'
<1>1. /\ loop'[r].kind = "none" /\ token'[r] = "none" /\ response'[r] = NoResponse
      /\ UNCHANGED <<schemes, dids, file>>
  <2>1. CASE Running(r)
    BY <2>1, LeaveEnds, LeaveContext DEF Restart, Abort, Fails
  <2>2. CASE ~Running(r)
    <3>1. scenario[r] = "idle"
      BY <2>2 DEF Running, TypeOK
    <3> QED BY <2>2, <3>1, IdleHasNoLoop DEF Restart, vars, runVars, store, IdleIsBare
  <2> QED BY <2>1, <2>2
<1>2. pc'[r] = Start /\ ~failed'[r]
  BY DEF Restart, AtPositions, FeatureInv, Counted
<1>3. /\ StoreFits(Foreseen(Start), schemes, dids) /\ file[r] \in Foreseen(Start).file
      /\ "none" \in Foreseen(Start).token /\ NoResponse \in Foreseen(Start).response
  <2>1. file[r] \in Token
    BY DEF TypeOK
  <2>2. Fits(Foreseen(Start), [p \in Pointer |-> {}], [p \in Pointer |-> NoDid], "none", file[r],
             NoResponse)
    BY <2>1, OutlineAssumption
  <2> QED BY <2>2 DEF InBounds, Fits
<1>4. FitsAt(Foreseen(pc[r]), r)'
  BY <1>1, <1>2, <1>3 DEF FitsAt, Fits, StoreFits
<1> QED BY <1>1, <1>2, <1>4 DEF Keeps, Checking

LEMMA KeepsKept ==
  ASSUME TypeOK, TypeOK', FeatureInv, AtPositions, IdleIsBare, InBounds, KeepsToOutline,
         [FeatureNext]_featureVars
  PROVE  KeepsToOutline'
<1>0. disturbed \in [Run -> BOOLEAN] /\ failed \in [Run -> BOOLEAN]
  BY DEF FeatureInv, Counted
<1>1. ASSUME NEW r \in Run, RunStep(r) PROVE KeepsToOutline'
  <2> SUFFICES ASSUME NEW q \in Run, ~disturbed'[q] PROVE Keeps(q)'
    BY DEF KeepsToOutline
  <2>1. PICK fails \in BOOLEAN : Record(r, fails, FALSE)
    BY <1>1, Zenon DEF RunStep
  <2>2. ~disturbed[q] /\ (q # r => UNCHANGED <<schemes, dids>> /\ failed'[q] = failed[q])
    BY <1>0, <2>1, RecordFrame
  <2>3. Keeps(q)
    BY <2>2 DEF KeepsToOutline
  <2>4. CASE q = r
    BY <1>1, <2>3, <2>4, RunStepKeeps
  <2>5. CASE q # r
    BY <1>1, <2>2, <2>3, <2>5, RunStepIsStep, StepFrame, ContextFrame, RunStepPositions, OthersKeep
      DEF FeatureInv
  <2> QED BY <2>4, <2>5
<1>2. ASSUME NEW r \in Run, NotUpStep(r) \/ StepTimesOut(r) \/ TokenLost(r) PROVE KeepsToOutline'
  <2> SUFFICES ASSUME NEW q \in Run, ~disturbed'[q] PROVE Keeps(q)'
    BY DEF KeepsToOutline
  <2>1. PICK fails \in BOOLEAN : Record(r, fails, TRUE)
    BY <1>2 DEF NotUpStep, StepTimesOut, TokenLost
  <2>2. q # r /\ ~disturbed[q] /\ UNCHANGED <<schemes, dids>> /\ failed'[q] = failed[q]
    BY <1>0, <2>1, RecordFrame
  <2>3. Keeps(q)
    BY <2>2 DEF KeepsToOutline
  <2>4. StepOf(r)
    BY <1>2, TimeoutIsStep DEF NotUpStep, TokenLost, StepOf, FaultStep, FeatureInv
  <2>5. pc'[q] = pc[q]
    <3>1. NotUpStep(r) \/ StepTimesOut(r) => Goes(r, Off(pc[r])) /\ Off(pc[r]) \in Positions
      BY FaultMoves, NextPositions
    <3> QED BY <1>2, <2>2, <3>1, GoesPositions DEF TokenLost
  <2> QED BY <2>2, <2>3, <2>4, <2>5, StepFrame, ContextFrame, OthersKeep
<1>3. ASSUME NEW r \in Run, Restart(r) PROVE KeepsToOutline'
  <2> SUFFICES ASSUME NEW q \in Run, ~disturbed'[q] PROVE Keeps(q)'
    BY DEF KeepsToOutline
  <2>1. CASE q = r
    BY <1>3, <2>1, RestartKeeps
  <2>2. CASE q # r
    <3>1. ~disturbed[q] /\ pc'[q] = pc[q] /\ failed'[q] = failed[q]
      BY <1>0, <1>3, <2>2 DEF Restart, AtPositions
    <3>2. Keeps(q)
      BY <3>1 DEF KeepsToOutline
    <3>3. /\ UNCHANGED <<schemes, dids>> /\ loop'[q] = loop[q]
          /\ token'[q] = token[q] /\ file'[q] = file[q] /\ response'[q] = response[q]
      <4>1. CASE Running(r)
        <5>1. StepOf(r) /\ Leave(r)
          BY <1>3, <4>1 DEF Restart, StepOf, FaultStep, Abort, Fails
        <5> QED BY <2>2, <5>1, StepFrame, ContextFrame, LeaveContext
      <4>2. CASE ~Running(r)
        BY <1>3, <4>2 DEF Restart, vars, runVars, store
      <4> QED BY <4>1, <4>2
    <3> QED BY <3>1, <3>2, <3>3, OthersKeep
  <2> QED BY <2>1, <2>2
<1>4. ASSUME LateWriteLands \/ UNCHANGED featureVars PROVE KeepsToOutline'
  <2> SUFFICES ASSUME NEW q \in Run, ~disturbed'[q] PROVE Keeps(q)'
    BY DEF KeepsToOutline
  <2>1. ~disturbed[q] /\ UNCHANGED <<schemes, dids>>
    BY <1>4 DEF LateWriteLands, featureVars, vars, feature, store
  <2>2. UNCHANGED <<pc, failed, loop, token, file, response>>
    BY <1>4 DEF LateWriteLands, LateLands, featureVars, vars, runVars, feature
  <2>3. Keeps(q)
    BY <2>1 DEF KeepsToOutline
  <2> QED BY <2>1, <2>2, <2>3, OthersKeep
<1>5. Stop => UNCHANGED featureVars
  BY DEF Stop
<1> QED BY <1>1, <1>2, <1>3, <1>4, <1>5 DEF FeatureNext

-----------------------------------------------------------------------------
(* Without faults: the tokens a run may have, and who clears the pointers.   *)

LEMMA NoFault ==
  ASSUME TypeOK, Fault
  PROVE  faults' # 0
<1>1. faults \in Nat /\ faults' = faults + 1
  BY DEF TypeOK, Fault
<1> QED BY <1>1

(* Which steps fail, and with which tokens.                                 *)
LEMMA ExecuteTokens ==
  ASSUME TypeOK, NEW r \in Run, NEW s \in StepTexts, NEW t, Execute(r, s),
         Has(t, token[r], file[r]), scenario'[r] = "running",
         loop[r].kind # "none" => s.do \in {"delete all", "check"}
  PROVE  token'[r] \in TokenAfter(s, t) /\ file'[r] \in FileAfter(s, t)
<1>0. token[r] \in t.token /\ file[r] \in t.file /\ ~Fails(r)
  BY LeaveEnds DEF Has, Fails
<1>1. CASE s.do \in {"fetch token", "save token", "load token"}
  <2>1. /\ s.do = "fetch token" => FetchToken(r)
        /\ s.do = "save token"  => SaveToken(r)
        /\ s.do = "load token"  => LoadToken(r)
    BY <1>1, Zenon DEF Execute
  <2>2. CASE s.do = "fetch token"
    BY <1>0, <2>1, <2>2 DEF FetchToken, TypeOK, TokenAfter, FileAfter
  <2>3. CASE s.do = "save token"
    BY <1>0, <2>1, <2>3 DEF SaveToken, TypeOK, TokenAfter, FileAfter
  <2>4. CASE s.do = "load token"
    BY <1>0, <2>1, <2>4 DEF LoadToken, TypeOK, TokenAfter, FileAfter
  <2> QED BY <1>1, <2>2, <2>3, <2>4
<1>2. CASE s.do \notin {"fetch token", "save token", "load token"}
  <2>1. TokenAfter(s, t) = t.token /\ FileAfter(s, t) = t.file
    BY <1>2, Zenon DEF TokenAfter, FileAfter
  <2>2. UNCHANGED <<token, file>>
    <3>1. \/ RemoveAllPointers(r) \/ DeleteNext(r)
          \/ CheckPointers(r, s.kind, s.ptrs) \/ CheckNext(r)
          \/ CreatingPointers(r, s.ptrs, s.ptr) \/ CreateDid(r, s.did, s.ptr)
          \/ RemovePointer(r, s.ptr) \/ RemoveDid(r, s.ptr)
          \/ RequestsZones(r) \/ RequestsPointer(r, s.ptr) \/ ReadPointersDid(r, s.ptr)
          \/ GetHttp(r, s.code) \/ ContentMatches(r, s.body)
      BY <1>2, Zenon DEF Execute
    <3> QED BY <1>0, <3>1 DEF RemoveAllPointers, DeleteNext, CheckPointers, CheckNext,
                 CreatingPointers, CreateDid, RemovePointer, RemoveDid, Requests, RequestsZones,
                 RequestsPointer, ReadPointersDid, Reads, GetHttp, ContentMatches, vars, runVars
  <2> QED BY <1>0, <2>1, <2>2
<1> QED BY <1>1, <1>2

LEMMA ExecuteFails ==
  ASSUME TypeOK, NEW r \in Run, NEW s \in StepTexts, NEW t, Execute(r, s), Has(t, token[r], file[r]),
         Leave(r), scenario[r] = "running"
  PROVE  MayFail(s, t)
<1>1. scenario'[r] = "idle" /\ scenario' # scenario
  BY LeaveEnds
<1>2. CASE s.do = "load token"
  <2>1. LoadToken(r)
    BY <1>2, Zenon DEF Execute
  <2> QED BY <1>1, <1>2, <2>1 DEF LoadToken, MayFail, Has
<1>3. CASE s.do \in {"delete all", "check", "get http", "content"}
  BY <1>3 DEF MayFail
<1>4. CASE s.do \notin {"load token", "delete all", "check", "get http", "content"}
  <2>1. \/ FetchToken(r) \/ SaveToken(r)
        \/ CreatingPointers(r, s.ptrs, s.ptr) \/ CreateDid(r, s.did, s.ptr)
        \/ RemovePointer(r, s.ptr) \/ RemoveDid(r, s.ptr)
        \/ RequestsZones(r) \/ RequestsPointer(r, s.ptr) \/ ReadPointersDid(r, s.ptr)
    BY <1>4, Zenon DEF Execute
  <2>2. scenario' = scenario
    BY <2>1 DEF FetchToken, SaveToken, CreatingPointers, CreateDid, RemovePointer, RemoveDid,
                Requests, RequestsZones, RequestsPointer, ReadPointersDid, Reads
  <2> QED BY <1>1, <2>2
<1> QED BY <1>2, <1>3, <1>4

(* What a step of a running scenario creates, and what it deletes for sure.  *)
LEMMA ExecuteCreates ==
  ASSUME TypeOK, NEW r \in Run, NEW s \in StepTexts, Execute(r, s), NEW p \in Exists', p \notin Exists
  PROVE  p \in Created(s) /\ UNCHANGED <<scenario, loop>> /\ Ready(r)
<1>1. p \in Pointer /\ schemes[p] = {} /\ schemes'[p] # {}
  BY DEF Exists
<1>2. schemes \in [Pointer -> SUBSET Pointer]
  BY DEF TypeOK, StoreTypeOK
<1>3. ASSUME NEW w \in Write, Store(w)
      PROVE  w.op = "put schemes" /\ w.ptr = p /\ p \in InDomain
  BY <1>1, <1>2, <1>3, WriteType DEF Store, Accepts, store
<1>4. ~UNCHANGED store
  BY <1>1 DEF store
<1>5. ASSUME NEW q \in Pointer PROVE ~Store(DeleteSchemes(q)) /\ ~Store(DeleteDid(q))
  BY <1>3, DeleteIsWrite DEF DeleteSchemes, DeleteDid
<1>6. s.do \in Writing /\ Store(WriteOf(s))
  BY <1>4, <1>5, ExecuteStore
<1>7. WriteOf(s) \in Write /\ Requests(r, WriteOf(s))
  BY <1>6, StepWrites
<1>8. WriteOf(s).op = "put schemes" /\ WriteOf(s).ptr = p /\ p \in InDomain
  BY <1>3, <1>6, <1>7
<1>9. s.do = "create pointers"
  <2>1. s.do \in {"create did", "remove pointer", "remove did"} => WriteOf(s).op # "put schemes"
    BY Zenon DEF WriteOf, PutDid, DeleteSchemes, DeleteDid
  <2> QED BY <1>6, <1>8, <2>1 DEF Writing
<1>10. p \in Created(s)
  <2>1. WriteOf(s) = PutSchemes(s.ptr, s.ptrs)
    BY <1>9, Zenon DEF WriteOf
  <2>2. PutSchemes(s.ptr, s.ptrs).ptr = s.ptr
    BY DEF PutSchemes
  <2>3. Created(s) = {s.ptr} \cap InDomain
    BY <1>9, Zenon DEF Created
  <2> QED BY <1>8, <2>1, <2>2, <2>3
<1> QED BY <1>7, <1>10 DEF Requests

LEMMA ExecuteDeletes ==
  ASSUME TypeOK, NEW r \in Run, NEW s \in StepTexts, Execute(r, s), NEW t,
         Has(t, token[r], file[r]), NEW p \in Deleted(s, t)
  PROVE  p \notin Exists'
<1>1. s.do = "remove pointer" /\ t.token \subseteq {"zm"} /\ p = s.ptr
  BY DEF Deleted
<1>2. p \in Pointer
  BY <1>1, Arguments
<1>3. RemovePointer(r, p)
  BY <1>1, Zenon DEF Execute
<1>4. token[r] = "zm"
  BY <1>1 DEF Has
<1>5. Store(DeleteSchemes(p))
  BY <1>3, <1>4 DEF RemovePointer, Requests, Authorised
<1>6. schemes'[p] = {}
  BY <1>2, <1>5 DEF Store, DeleteSchemes, Accepts, TypeOK, StoreTypeOK, store
<1> QED BY <1>6 DEF Exists

(* One step of a run, from what it was to clear to what it is to clear then. *)
LEMMA RunStepClears ==
  ASSUME TypeOK, TypeOK', FeatureInv, AtPositions, NEW r \in Run, RunStep(r),
         Has(Tokens(pc[r]), token[r], file[r])
  PROVE  /\ Has(Tokens(pc'[r]), token'[r], file'[r])
         /\ \A p \in Exists' : IF p \in Exists THEN p \in Clears(pc[r]) => p \in Clears(pc'[r])
                                               ELSE p \in Clears(pc'[r])
<1> DEFINE k == pc[r]
           t == Tokens(k)
           s == Step(r)
           to == pc'[r]
<1>1. /\ k \in Positions \ {End} /\ s = StepAt(k)
      /\ InStep(r) => Stepping(k) /\ s \in StepTexts
      /\ token[r] \in t.token /\ file[r] \in t.file
  BY AtPosition, WritesForeseen DEF RunStep, Has
<1>2. CASE Begins(r) \/ Ending(r)
  <2>1. /\ UNCHANGED schemes /\ token'[r] = "none" /\ file' = file
    BY <1>2, LeaveContext DEF Begins, BeginScenario, Ending, Leaves, TypeOK, store
  <2>2. Exists' = Exists
    BY <2>1 DEF Exists
  <2>3. Gets(to, {"none"}, t.file) /\ Clears(k) \subseteq Clears(to)
    <3>1. CASE Begins(r)
      <4>1. k.step = 0 /\ to = On(k)
        BY <3>1, RunStepPositions DEF Begins
      <4> QED BY <1>1, <4>1, TokensAssumption, ClearsAssumption
    <3>2. CASE Ending(r)
      <4>1. Over(k) /\ to = Off(k)
        BY <3>2, RunStepPositions DEF Ending
      <4> QED BY <1>1, <4>1, TokensAssumption, ClearsAssumption
    <3> QED BY <1>2, <3>1, <3>2
  <2> QED BY <1>1, <2>1, <2>2, <2>3 DEF Has, Gets
<1>3. CASE Failing(r)
  <2>1. InStep(r) /\ Execute(r, s) /\ Leave(r) /\ to = Off(k)
    BY <1>3, RunStepPositions DEF Failing, Leaves
  <2>2. scenario[r] = "running"
    BY <2>1, PlaceType DEF FeatureInv, Placed
  <2>3. MayFail(s, t)
    BY <1>1, <2>1, <2>2, ExecuteFails
  <2>4. Gets(to, {"none"}, t.file) /\ Clears(k) \subseteq Clears(to)
    BY <1>1, <2>1, <2>3, TokensAssumption, ClearsAssumption
  <2>5. token'[r] = "none" /\ file' = file /\ Exists' = Exists
    BY <2>1, LeaveContext DEF Exists
  <2> QED BY <1>1, <2>4, <2>5 DEF Has, Gets
<1>4. CASE Passing(r)
  <2>1. InStep(r) /\ Execute(r, s) /\ scenario'[r] = "running" /\ to = On(k)
    BY <1>4, RunStepPositions DEF Passing
  <2>2. loop[r].kind # "none" => s.do \in {"delete all", "check"}
    BY DEF FeatureInv, LoopIsOfStep
  <2>3. token'[r] \in TokenAfter(s, t) /\ file'[r] \in FileAfter(s, t)
    BY <1>1, <2>1, <2>2, ExecuteTokens
  <2>4. Gets(to, TokenAfter(s, t), FileAfter(s, t)) /\ ClearsOn(k)
    BY <1>1, <2>1, TokensAssumption, ClearsAssumption
  <2>5. (Clears(k) \ Deleted(s, t)) \cup Created(s) \subseteq Clears(to)
    BY <1>1, <2>1, <2>4 DEF ClearsOn
  <2>6. ASSUME NEW p \in Exists', p \notin Exists PROVE p \in Created(s)
    BY <1>1, <2>1, <2>6, ExecuteCreates
  <2>7. ASSUME NEW p \in Exists' PROVE p \notin Deleted(s, t)
    BY <1>1, <2>1, <2>7, ExecuteDeletes
  <2> QED BY <2>3, <2>4, <2>5, <2>6, <2>7 DEF Has, Gets
<1>5. CASE Looping(r)
  <2>1. /\ InStep(r) /\ Execute(r, s) /\ scenario'[r] = "running" /\ to = k
        /\ loop'[r].kind # "none"
    BY <1>5, RunStepPositions DEF Looping
  <2>2. s.do \in {"delete all", "check"}
    BY <2>1, ExecuteLoop
  <2>3. token'[r] \in TokenAfter(s, t) /\ file'[r] \in FileAfter(s, t)
    BY <1>1, <2>1, <2>2, ExecuteTokens
  <2>4. TokenAfter(s, t) = t.token /\ FileAfter(s, t) = t.file
    BY <2>2, Zenon DEF TokenAfter, FileAfter
  <2>5. ASSUME NEW p \in Exists' PROVE p \in Exists
    BY <1>1, <2>1, <2>2, <2>5, ExecuteCreates DEF Created
  <2> QED BY <2>1, <2>3, <2>4, <2>5 DEF Has
<1> QED BY <1>2, <1>3, <1>4, <1>5, RunMoves

LEMMA ClearsKept ==
  ASSUME TypeOK, TypeOK', FeatureInv, AtPositions, IdleIsBare, SomeoneClears,
         [FeatureNext]_featureVars
  PROVE  SomeoneClears'
<1> SUFFICES ASSUME faults' = 0
             PROVE  /\ late' = {}
                    /\ \A r \in Run : Has(Tokens(pc'[r]), token'[r], file'[r])
                    /\ \A p \in Exists' : \E r \in Run : p \in Clears(pc'[r])
  BY DEF SomeoneClears
<1>1. ~Fault
  BY NoFault
<1>2. ASSUME faults = 0
      PROVE  /\ late = {} /\ \A r \in Run : Has(Tokens(pc[r]), token[r], file[r])
             /\ \A p \in Exists : \E r \in Run : p \in Clears(pc[r])
  BY <1>2 DEF SomeoneClears
<1>3. ASSUME NEW r \in Run, RunStep(r)
      PROVE  /\ late' = {}
             /\ \A q \in Run : Has(Tokens(pc'[q]), token'[q], file'[q])
             /\ \A p \in Exists' : \E q \in Run : p \in Clears(pc'[q])
  <2>1. late' = late /\ faults = 0
    BY <1>3, RunStepStore
  <2>2. /\ Has(Tokens(pc'[r]), token'[r], file'[r])
        /\ \A p \in Exists' : IF p \in Exists THEN p \in Clears(pc[r]) => p \in Clears(pc'[r])
                                              ELSE p \in Clears(pc'[r])
    BY <1>2, <1>3, <2>1, RunStepClears
  <2>3. ASSUME NEW q \in Run \ {r}
        PROVE  pc'[q] = pc[q] /\ token'[q] = token[q] /\ file'[q] = file[q]
    BY <1>3, RunStepPositions, RunStepIsStep, ContextFrame DEF FeatureInv
  <2>4. ASSUME NEW q \in Run PROVE Has(Tokens(pc'[q]), token'[q], file'[q])
    BY <1>2, <2>1, <2>2, <2>3
  <2>5. ASSUME NEW p \in Exists' PROVE \E q \in Run : p \in Clears(pc'[q])
    <3>1. CASE p \in Exists
      <4>1. PICK q \in Run : p \in Clears(pc[q])
        BY <1>2, <2>1, <3>1
      <4> QED BY <2>2, <2>3, <3>1, <4>1
    <3>2. CASE p \notin Exists
      BY <2>2, <3>2
    <3> QED BY <3>1, <3>2
  <2> QED BY <1>2, <2>1, <2>4, <2>5
<1>4. ASSUME NEW r \in Run, NotUpStep(r) \/ StepTimesOut(r) \/ TokenLost(r) PROVE FALSE
  BY <1>1, <1>4 DEF NotUpStep, NotUp, StepTimesOut, TimesOut, TokenLost, TokenExpires,
                    TspaFeatureSaves
<1>5. ASSUME NEW r \in Run, Restart(r)
      PROVE  /\ late' = {}
             /\ \A q \in Run : Has(Tokens(pc'[q]), token'[q], file'[q])
             /\ \A p \in Exists' : \E q \in Run : p \in Clears(pc'[q])
  <2>1. /\ UNCHANGED <<late, faults, schemes, file>> /\ token'[r] = "none"
        /\ \A q \in Run \ {r} : token'[q] = token[q]
    <3>1. CASE Running(r)
      BY <1>5, <3>1, LeaveContext DEF Restart, Abort, Fails
    <3>2. CASE ~Running(r)
      <4>1. scenario[r] = "idle"
        BY <3>2 DEF Running, TypeOK
      <4> QED BY <1>5, <3>2, <4>1 DEF Restart, vars, runVars, store, IdleIsBare
    <3> QED BY <3>1, <3>2
  <2>2. pc'[r] = Start /\ \A q \in Run \ {r} : pc'[q] = pc[q]
    BY <1>5 DEF Restart, AtPositions
  <2>3. Exists' = Exists /\ file[r] \in Token
    BY <2>1 DEF Exists, TypeOK
  <2>4. Has(Tokens(Start), "none", file[r])
    BY <2>3, TokensAssumption DEF Gets, Has
  <2>5. ASSUME NEW q \in Run PROVE Has(Tokens(pc'[q]), token'[q], file'[q])
    BY <1>2, <2>1, <2>2, <2>4
  <2>6. ASSUME NEW p \in Exists' PROVE \E q \in Run : p \in Clears(pc'[q])
    <3>1. PICK q \in Run : p \in Clears(pc[q])
      BY <1>2, <2>1, <2>3
    <3>2. pc[q] \in Positions
      BY DEF AtPositions
    <3>3. CASE q = r
      BY <2>2, <3>1, <3>2, <3>3, ClearsAssumption
    <3>4. CASE q # r
      BY <2>2, <3>1, <3>4
    <3> QED BY <3>3, <3>4
  <2> QED BY <1>2, <2>1, <2>5, <2>6
<1>6. CASE LateWriteLands
  BY <1>2, <1>6 DEF LateWriteLands, LateLands
<1>7. CASE UNCHANGED featureVars
  BY <1>2, <1>7 DEF featureVars, vars, runVars, feature, store, Exists
<1>8. Stop => UNCHANGED featureVars
  BY DEF Stop
<1> QED BY <1>3, <1>4, <1>5, <1>6, <1>7, <1>8 DEF FeatureNext

-----------------------------------------------------------------------------
(* The outline is kept.                                                     *)

LEMMA OutlineStarts == FeatureInit => ZoneOutlineInv
<1> SUFFICES ASSUME FeatureInit PROVE ZoneOutlineInv
  OBVIOUS
<1>1. PICK s \in Leftover : schemes = s.schemes /\ dids = s.dids
  BY DEF FeatureInit, Init
<1>2. /\ \A r \in Run : /\ scenario[r] = "idle" /\ token[r] = "none"
                        /\ response[r] = NoResponse /\ loop[r].kind = "none"
                        /\ file[r] \in Token
                        /\ pc[r] = Start /\ failed[r] = FALSE
      /\ late = {} /\ pc \in [Run -> {Start}]
  BY DEF FeatureInit, Init, NoLoop, Token
<1>3. AtPositions
  BY <1>2, StartIsPosition DEF AtPositions
<1>4. IdleIsBare
  BY <1>2 DEF IdleIsBare
<1>5. \A f \in Token : Fits(Foreseen(Start), schemes, dids, "none", f, NoResponse)
  BY <1>1, OutlineAssumption
<1>6. InBounds
  <2>1. "none" \in Token
    BY DEF Token
  <2> QED BY <1>2, <1>5, <2>1 DEF InBounds, Fits
<1>7. KeepsToOutline
  <2>1. ASSUME NEW r \in Run PROVE Keeps(r)
    <3>1. FitsAt(Foreseen(pc[r]), r)
      BY <1>2, <1>5 DEF FitsAt
    <3> QED BY <1>2, <3>1 DEF Keeps, Checking
  <2> QED BY <2>1 DEF KeepsToOutline
<1>8. SomeoneClears
  <2>1. \A r \in Run : Has(Tokens(pc[r]), token[r], file[r])
    BY <1>2, TokensAssumption DEF Has, Gets
  <2>2. ASSUME NEW p \in Exists PROVE \E r \in Run : p \in Clears(pc[r])
    <3>1. p \in Clears(Start)
      BY <1>1, ClearsAssumption DEF Exists
    <3>2. PICK r \in Run : TRUE
      BY RunAssumption
    <3> QED BY <1>2, <3>1, <3>2
  <2> QED BY <1>2, <2>1, <2>2 DEF SomeoneClears
<1> QED BY <1>3, <1>4, <1>6, <1>7, <1>8 DEF ZoneOutlineInv

LEMMA OutlineStep ==
  ASSUME TypeOK, TypeOK', FeatureInv, ZoneOutlineInv, [FeatureNext]_featureVars
  PROVE  ZoneOutlineInv'
<1>1. AtPositions' /\ InBounds'
  BY PositionsKept, BoundsKept DEF ZoneOutlineInv
<1>2. IdleIsBare'
  BY FeatureStepIsStep, IdleStaysBare DEF ZoneOutlineInv
<1>3. KeepsToOutline' /\ SomeoneClears'
  BY KeepsKept, ClearsKept DEF ZoneOutlineInv
<1> QED BY <1>1, <1>2, <1>3 DEF ZoneOutlineInv

(* Runs of feature 01.1, in any number, started again at any point and with  *)
(* any faults, keep to its outline: as long as nobody disturbs a run it finds *)
(* in the ZM server and in its context what its place says, and while no      *)
(* fault has happened each pointer that is there is one that some run is     *)
(* going to delete.                                                        *)
THEOREM ZoneOutlineKept == FeatureSpec => []ZoneOutlineInv
<1>1. TypeOK /\ TypeOK' /\ FeatureInv /\ ZoneOutlineInv /\ [FeatureNext]_featureVars
        => ZoneOutlineInv'
  BY OutlineStep
<1> QED BY <1>1, OutlineStarts, FeatureAlways, PTL DEF FeatureSpec

(* A scenario of feature 01.1 fails only when a fault hit its run or someone  *)
(* else changed the store: never for what an earlier run left behind, and     *)
(* never for the order of the feature's own scenarios.                      *)
THEOREM ZoneFailuresExplained == FeatureSpec => []FailureExplained
<1>1. ZoneOutlineInv => FailureExplained
  BY DEF ZoneOutlineInv, KeepsToOutline, Keeps, FailureExplained
<1> QED BY <1>1, ZoneOutlineKept, PTL

(* At the end of the feature a run that nobody disturbed has deleted every   *)
(* pointer and every DID, those it found included (scenarios [16] to [19]).  *)
THEOREM UndisturbedRunsLeaveNothing == FeatureSpec => []UndisturbedRunLeavesNothing
<1>1. TypeOK /\ FeatureInv /\ ZoneOutlineInv => UndisturbedRunLeavesNothing
  <2> SUFFICES ASSUME TypeOK, FeatureInv, ZoneOutlineInv, NEW r \in Run, Finished(r), ~disturbed[r]
               PROVE  Exists = {} /\ \A p \in Pointer : dids[p] = NoDid
    BY DEF UndisturbedRunLeavesNothing
  <2>1. pc[r] = End /\ ~InStep(r)
    BY AtPosition DEF ZoneOutlineInv, InStep
  <2>2. loop[r].kind = "none"
    BY <2>1 DEF FeatureInv, LoopIsOfStep
  <2>3. StoreFits(Foreseen(End), schemes, dids)
    BY <2>1, <2>2 DEF ZoneOutlineInv, KeepsToOutline, Keeps, FitsAt, Fits
  <2>4. \A p \in Pointer : schemes[p] = {} /\ dids[p] = NoDid
    <3>1. \A p \in Pointer :
            Foreseen(End).schemes[p] \subseteq {{}} /\ Foreseen(End).dids[p] \subseteq {NoDid}
      BY OutlineAssumption
    <3> QED BY <2>3, <3>1 DEF StoreFits
  <2> QED BY <2>4 DEF Exists
<1> QED BY <1>1, ZoneOutlineKept, FeatureAlways, PTL

(* However many runs overlap, fail each other's scenarios and are            *)
(* interrupted, when all have come to their end without a fault no pointer is *)
(* left in the ZM server.                                                   *)
THEOREM NoPointersAreLeft == FeatureSpec => []NoPointerLeftBehind
<1>1. ZoneOutlineInv => NoPointerLeftBehind
  <2> SUFFICES ASSUME ZoneOutlineInv, AllFinished, faults = 0, NEW p \in Exists PROVE FALSE
    BY DEF NoPointerLeftBehind
  <2>1. PICK r \in Run : p \in Clears(pc[r])
    BY DEF ZoneOutlineInv, SomeoneClears
  <2>2. pc[r] = End
    BY AtPosition DEF ZoneOutlineInv, AllFinished
  <2> QED BY <2>1, <2>2, ClearsAssumption
<1> QED BY <1>1, ZoneOutlineKept, PTL
=============================================================================
