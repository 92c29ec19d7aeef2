------------------------- MODULE ZoneFeatureProofs -------------------------
(***************************************************************************)
(* What holds of the steps of ZoneSteps for any runs, pointers, DIDs,       *)
(* leftovers and number of faults, and in whatever order a feature file     *)
(* calls them; and that the runs of a feature are behaviours of ZoneSteps,   *)
(* whatever scenarios the feature has and in whatever order, however often   *)
(* a run is interrupted.  What is proved of the steps then holds of the      *)
(* feature.                                                                *)
(***************************************************************************)
EXTENDS ZoneFeature, TLAPS

-----------------------------------------------------------------------------
(* The ZM server.                                                          *)

LEMMA WriteType ==
  ASSUME NEW w \in Write
  PROVE  /\ w.op \in {"put schemes", "put did", "delete schemes", "delete did"}
         /\ w.ptr \in Pointer
         /\ w.members \in SUBSET Pointer
         /\ w.did \in Did \cup {NoDid}
BY DEF Write

LEMMA StoreType ==
  ASSUME StoreTypeOK, NEW w \in Write, Store(w)
  PROVE  StoreTypeOK'
<1> USE WriteType DEF StoreTypeOK
<1>1. CASE w.op = "put schemes"
  BY <1>1 DEF Store, store
<1>2. CASE w.op = "put did"
  BY <1>2 DEF Store, store
<1>3. CASE w.op = "delete schemes"
  BY <1>3 DEF Store, store
<1>4. CASE w.op = "delete did"
  BY <1>4 DEF Store, store
<1> QED BY <1>1, <1>2, <1>3, <1>4

LEMMA StatusType ==
  ASSUME NEW w
  PROVE  Status(w) \in {200, 204, 404}
BY DEF Status

(* A delete that answers 204 leaves the pointer without schemes.           *)
LEMMA DeletedIsAbsent ==
  ASSUME StoreTypeOK, NEW p \in Pointer,
         Status(DeleteSchemes(p)) = 204, Store(DeleteSchemes(p))
  PROVE  schemes'[p] = {}
BY DEF Store, Status, DeleteSchemes, StoreTypeOK, Accepts

LEMMA DeleteIsWrite ==
  ASSUME NEW p \in Pointer
  PROVE  DeleteSchemes(p) \in Write /\ DeleteDid(p) \in Write
BY DEF Write, DeleteSchemes, DeleteDid

LEMMA PutIsWrite ==
  ASSUME NEW p \in Pointer
  PROVE  /\ \A P \in (SUBSET Pointer) \ {{}} : PutSchemes(p, P) \in Write
         /\ \A d \in Did : PutDid(p, d) \in Write
BY DEF Write, PutSchemes, PutDid

-----------------------------------------------------------------------------
(* Type correctness.                                                       *)

LEMMA ContextTypes ==
  /\ NoResponse \in Responses
  /\ NoLoop \in Loops
  /\ Nothing \in Knowledge
BY DEF NoResponse, Responses, NoLoop, Loops, Nothing, Knowledge

LEMMA LoopLeftType ==
  ASSUME TypeOK, NEW r \in Run
  PROVE  loop[r].left \subseteq Pointer
<1>1. loop[r] \in Loops
  BY DEF TypeOK
<1> QED BY <1>1 DEF Loops

LEMMA StoreUnchangedType ==
  ASSUME StoreTypeOK, UNCHANGED store
  PROVE  StoreTypeOK'
BY DEF StoreTypeOK, store

LEMMA LeaveType ==
  ASSUME TypeOK, NEW r \in Run, Leave(r), late' \in SUBSET Write, faults' \in Nat
  PROVE  TypeOK'
BY ContextTypes, StoreUnchangedType DEF TypeOK, Leave, Token

LEMMA RememberedType ==
  ASSUME TypeOK
  PROVE  /\ Remembered \in [Run -> Knowledge]
         /\ \A q \in Run, p \in Pointer : Remember(q, p) \in {"unknown", "present", "absent"}
<1>1. known \in [Run -> Knowledge]
  BY DEF TypeOK
<1>2. \A q \in Run, p \in Pointer : Remember(q, p) \in {"unknown", "present", "absent"}
  BY <1>1 DEF Remember, Knowledge
<1> QED BY <1>2 DEF Remembered, Knowledge

LEMMA RequestsType ==
  ASSUME TypeOK, NEW r \in Run, NEW w \in Write, Requests(r, w)
  PROVE  TypeOK'
<1>1. StoreTypeOK'
  <2>1. CASE Store(w)
    BY <2>1, StoreType DEF TypeOK
  <2>2. CASE UNCHANGED store
    BY <2>2, StoreUnchangedType DEF TypeOK
  <2> QED BY <2>1, <2>2 DEF Requests
<1>2. Answer(r, w) \in {200, 204, 403, 404}
  BY StatusType DEF Answer
<1>3. response' \in [Run -> Responses]
  <2>1. [status |-> Answer(r, w), body |-> {}] \in Responses
    BY <1>2 DEF Responses
  <2> QED BY <2>1 DEF Requests, TypeOK
<1>4. known' \in [Run -> Knowledge]
  BY RememberedType DEF Requests
<1> QED BY <1>1, <1>3, <1>4 DEF Requests, TypeOK

LEMMA ReadsType ==
  ASSUME TypeOK, NEW r \in Run, NEW body \in SUBSET (Pointer \cup Did), Reads(r, body)
  PROVE  TypeOK'
<1>1. /\ [status |-> 200, body |-> body] \in Responses
      /\ [status |-> 403, body |-> {}] \in Responses
  BY DEF Responses
<1> QED BY <1>1, StoreUnchangedType DEF TypeOK, Reads

LEMMA LearnType ==
  ASSUME TypeOK, NEW r \in Run, NEW p \in Pointer,
         NEW fact \in {"unknown", "present", "absent"}, Learn(r, p, fact)
  PROVE  known' \in [Run -> Knowledge]
BY RememberedType DEF Learn, Knowledge

LEMMA IterateType ==
  ASSUME TypeOK, NEW r \in Run, NEW p \in loop[r].left, Iterate(r, p)
  PROVE  loop' \in [Run -> Loops]
<1>1. loop[r] \in Loops
  BY DEF TypeOK
<1>2. \A rest \in SUBSET loop[r].left : [kind |-> loop[r].kind, left |-> rest] \in Loops
  BY <1>1 DEF Loops
<1> QED BY <1>2, ContextTypes DEF Iterate, TypeOK

LEMMA TokenStepType ==
  ASSUME TypeOK, NEW r \in Run, TokenStep(r)
  PROVE  TypeOK'
<1>1. CASE BeginScenario(r)
  BY <1>1, StoreUnchangedType DEF BeginScenario, TypeOK, Token
<1>2. CASE EndScenario(r)
  BY <1>2, LeaveType DEF EndScenario, Fails, TypeOK
<1>3. CASE FetchToken(r)
  BY <1>3, StoreUnchangedType DEF FetchToken, TypeOK, Token
<1>4. CASE SaveToken(r)
  <2>1. file' \in [Run -> Token]
    BY <1>4 DEF SaveToken, TypeOK
  <2> QED BY <1>4, <2>1, StoreUnchangedType DEF SaveToken, TypeOK
<1>5. CASE LoadToken(r)
  <2>1. CASE Fails(r)
    BY <2>1, LeaveType DEF Fails, TypeOK
  <2>2. CASE ~Fails(r)
    <3>1. token' \in [Run -> Token]
      BY <1>5, <2>2 DEF LoadToken, TypeOK
    <3> QED BY <1>5, <2>2, <3>1, StoreUnchangedType DEF LoadToken, TypeOK
  <2> QED BY <2>1, <2>2
<1> QED BY <1>1, <1>2, <1>3, <1>4, <1>5 DEF TokenStep

LEMMA WriteStepIsRequest ==
  ASSUME NEW r \in Run, WriteStep(r)
  PROVE  \E w \in Write : Requests(r, w)
<1>1. CASE \E p \in Pointer, P \in (SUBSET Pointer) \ {{}} : CreatingPointers(r, P, p)
  BY <1>1, PutIsWrite DEF CreatingPointers
<1>2. CASE \E p \in Pointer, d \in Did : CreateDid(r, d, p)
  BY <1>2, PutIsWrite DEF CreateDid
<1>3. CASE \E p \in Pointer : RemovePointer(r, p) \/ RemoveDid(r, p)
  BY <1>3, DeleteIsWrite DEF RemovePointer, RemoveDid
<1> QED BY <1>1, <1>2, <1>3 DEF WriteStep

LEMMA ReadStepType ==
  ASSUME TypeOK, NEW r \in Run, ReadStep(r)
  PROVE  TypeOK'
<1>1. CASE RequestsZones(r)
  BY <1>1, ReadsType DEF RequestsZones, Exists
<1>2. CASE \E p \in Pointer : RequestsPointer(r, p)
  BY <1>2, ReadsType DEF RequestsPointer, TypeOK, StoreTypeOK
<1>3. CASE \E p \in Pointer : ReadPointersDid(r, p)
  <2>1. PICK p \in Pointer : Reads(r, {dids[p]} \ {NoDid})
    BY <1>3 DEF ReadPointersDid
  <2>2. dids[p] \in Did \cup {NoDid}
    BY DEF TypeOK, StoreTypeOK
  <2>3. {dids[p]} \ {NoDid} \in SUBSET (Pointer \cup Did)
    BY <2>2
  <2> QED BY <2>1, <2>3, ReadsType
<1>4. CASE Fails(r)
  BY <1>4, LeaveType DEF Fails, TypeOK
<1>5. CASE UNCHANGED vars
  BY <1>5, StoreUnchangedType DEF vars, runVars, TypeOK
<1> QED
  BY <1>1, <1>2, <1>3, <1>4, <1>5 DEF ReadStep, GetHttp, ContentMatches

LEMMA LoopStepType ==
  ASSUME TypeOK, NEW r \in Run, LoopStep(r)
  PROVE  TypeOK'
<1>0. CASE Fails(r)
  BY <1>0, LeaveType DEF Fails, TypeOK
<1>1. CASE RemoveAllPointers(r) /\ ~Fails(r)
  <2>1. Exists \in SUBSET Pointer
    BY DEF Exists
  <2>2. response' \in [Run -> Responses]
    <3>1. [status |-> 200, body |-> Exists] \in Responses
      BY <2>1 DEF Responses
    <3> QED BY <1>1, <3>1 DEF RemoveAllPointers, TypeOK
  <2>3. loop' \in [Run -> Loops]
    <3>1. [kind |-> "delete all", left |-> Exists] \in Loops
      BY <2>1 DEF Loops
    <3> QED BY <1>1, <3>1, ContextTypes DEF RemoveAllPointers, TypeOK
  <2>4. known' \in [Run -> Knowledge]
    <3>1. [p \in Pointer |-> IF p \in Exists THEN "present" ELSE "absent"] \in Knowledge
      BY DEF Knowledge
    <3> QED BY <1>1, <3>1 DEF RemoveAllPointers, TypeOK
  <2>5. UNCHANGED <<store, scenario, token, file, late, faults>>
    BY <1>1 DEF RemoveAllPointers
  <2> QED BY <2>2, <2>3, <2>4, <2>5, StoreUnchangedType DEF TypeOK
<1>2. CASE DeleteNext(r) /\ ~Fails(r)
  <2>1. PICK p \in loop[r].left :
          /\ Store(DeleteSchemes(p)) /\ Iterate(r, p) /\ Learn(r, p, "absent")
          /\ UNCHANGED <<scenario, token, file, response, late, faults>>
    BY <1>2 DEF DeleteNext
  <2>2. p \in Pointer
    BY LoopLeftType
  <2>3. StoreTypeOK'
    BY <2>1, <2>2, StoreType, DeleteIsWrite DEF TypeOK
  <2>4. /\ loop' \in [Run -> Loops]
        /\ known' \in [Run -> Knowledge]
    BY <2>1, <2>2, IterateType, LearnType
  <2> QED BY <2>1, <2>3, <2>4 DEF TypeOK
<1>3. CASE CheckNext(r) /\ ~Fails(r)
  <2>1. PICK p \in loop[r].left :
          /\ Iterate(r, p)
          /\ known' = [known EXCEPT ![r][p] =
               IF loop[r].kind = "exists" THEN "present" ELSE "absent"]
          /\ UNCHANGED <<store, scenario, token, file, response, late, faults>>
    BY <1>3 DEF CheckNext
  <2>2. loop' \in [Run -> Loops]
    BY <2>1, IterateType
  <2>3. known' \in [Run -> Knowledge]
    <3>1. known[r] \in Knowledge /\ p \in Pointer
      BY LoopLeftType DEF TypeOK
    <3>2. \A fact \in {"present", "absent"} : [known[r] EXCEPT ![p] = fact] \in Knowledge
      BY <3>1 DEF Knowledge
    <3>3. known' = [known EXCEPT ![r] = [known[r] EXCEPT ![p] =
            IF loop[r].kind = "exists" THEN "present" ELSE "absent"]]
      BY <2>1 DEF TypeOK
    <3> QED BY <3>2, <3>3 DEF TypeOK
  <2> QED BY <2>1, <2>2, <2>3, StoreUnchangedType DEF TypeOK
<1>4. CASE \E kind \in {"exists", "not exists"}, P \in SUBSET Pointer : CheckPointers(r, kind, P)
  <2>1. loop' \in [Run -> Loops]
    <3>1. \A kind \in {"exists", "not exists"}, P \in SUBSET Pointer :
            [kind |-> kind, left |-> P] \in Loops
      BY DEF Loops
    <3> QED BY <1>4, <3>1 DEF CheckPointers, TypeOK
  <2> QED BY <1>4, <2>1, StoreUnchangedType DEF CheckPointers, TypeOK
<1> QED BY <1>0, <1>1, <1>2, <1>3, <1>4 DEF LoopStep

LEMMA UnderWayType ==
  ASSUME TypeOK, NEW r \in Run
  PROVE  UnderWay(r) \subseteq Write
<1>1. loop[r].left \subseteq Pointer
  BY LoopLeftType
<1> QED BY <1>1, DeleteIsWrite DEF UnderWay

LEMMA FaultStepType ==
  ASSUME TypeOK, NEW r \in Run, FaultStep(r)
  PROVE  TypeOK'
<1>0. Fault => faults' \in Nat
  <2>1. faults \in Nat
    BY DEF TypeOK
  <2> QED BY <2>1 DEF Fault
<1>1. CASE NotUp(r)
  BY <1>1, <1>0, StoreUnchangedType DEF NotUp, TypeOK, runVars
<1>2. CASE TokenExpires(r)
  BY <1>2, <1>0, StoreUnchangedType DEF TokenExpires, TypeOK, Token
<1>3. CASE TspaFeatureSaves(r)
  BY <1>3, <1>0, StoreUnchangedType DEF TspaFeatureSaves, TypeOK, Token
<1>4. CASE Abort(r)
  BY <1>4, LeaveType DEF Abort, Fails, TypeOK
<1>5. CASE \E W \in {{}} \cup {{w} : w \in UnderWay(r)} : TimesOut(r, W)
  <2>1. PICK W \in {{}} \cup {{w} : w \in UnderWay(r)} : TimesOut(r, W)
    BY <1>5
  <2>2. late \cup W \in SUBSET Write
    <3>1. W \subseteq Write
      BY UnderWayType
    <3>2. late \subseteq Write
      BY DEF TypeOK
    <3> QED BY <3>1, <3>2
  <2> QED BY <2>1, <2>2, <1>0, LeaveType DEF TimesOut
<1> QED BY <1>1, <1>2, <1>3, <1>4, <1>5 DEF FaultStep

LEMMA LateLandsType ==
  ASSUME TypeOK, LateLands
  PROVE  TypeOK'
<1>1. PICK w \in late : Store(w) /\ late' = late \ {w}
  BY DEF LateLands
<1>2. w \in Write /\ late' \in SUBSET Write
  BY <1>1, StoreUnchangedType DEF TypeOK
<1>3. StoreTypeOK'
  BY <1>1, <1>2, StoreType DEF TypeOK
<1>4. known' \in [Run -> Knowledge]
  BY RememberedType DEF LateLands
<1> QED BY <1>2, <1>3, <1>4 DEF LateLands, TypeOK

LEMMA NextType == TypeOK /\ [Next]_vars => TypeOK'
<1> SUFFICES ASSUME TypeOK, [Next]_vars PROVE TypeOK'
  OBVIOUS
<1>1. ASSUME NEW r \in Run, TokenStep(r) PROVE TypeOK'
  BY <1>1, TokenStepType
<1>2. ASSUME NEW r \in Run, WriteStep(r) PROVE TypeOK'
  BY <1>2, WriteStepIsRequest, RequestsType
<1>3. ASSUME NEW r \in Run, ReadStep(r) PROVE TypeOK'
  BY <1>3, ReadStepType
<1>4. ASSUME NEW r \in Run, LoopStep(r) PROVE TypeOK'
  BY <1>4, LoopStepType
<1>5. ASSUME NEW r \in Run, FaultStep(r) PROVE TypeOK'
  BY <1>5, FaultStepType
<1>6. CASE LateLands
  BY <1>6, LateLandsType
<1>7. CASE UNCHANGED vars
  BY <1>7, StoreUnchangedType DEF vars, runVars, TypeOK
<1> QED BY <1>1, <1>2, <1>3, <1>4, <1>5, <1>6, <1>7 DEF Next

LEMMA InitType == Init => TypeOK
<1> SUFFICES ASSUME Init PROVE TypeOK
  OBVIOUS
<1>1. StoreTypeOK
  BY LeftoverAssumption DEF Init, StoreTypeOK, Stores
<1> QED BY <1>1, ContextTypes DEF Init, TypeOK, Token

(* Every variable keeps the type declared for it, whatever the steps.      *)
THEOREM TypeCorrect == Spec => []TypeOK
BY InitType, NextType, PTL DEF Spec

-----------------------------------------------------------------------------
(* What a step may do to the history of a run q about a pointer p: forget,  *)
(* remember, or learn what the new store confirms.                         *)

Confirmed(q, p) ==
  \/ known'[q][p] \in {"unknown", Remember(q, p)}
  \/ known'[q][p] = "present" /\ schemes'[p] # {}
  \/ known'[q][p] = "absent"  /\ schemes'[p] = {}

(* What a step may leave on the list of q's delete-all loop: what was on it *)
(* and is remembered or forgotten, or what it has just found present.      *)
Listed(q, p) ==
  loop'[q].kind = "delete all" /\ p \in loop'[q].left =>
    \/ known'[q][p] \in {"unknown", "present"}
    \/ /\ loop[q].kind = "delete all" /\ p \in loop[q].left
       /\ known'[q][p] = known[q][p]

Tracks == \A q \in Run, p \in Pointer : Confirmed(q, p) /\ Listed(q, p)

LEMMA TracksPreserves ==
  ASSUME GivenHolds, DeletesWhatItListed, TypeOK', Tracks
  PROVE  GivenHolds' /\ DeletesWhatItListed'
<1>1. ASSUME NEW q \in Run, NEW p \in Pointer
      PROVE  /\ known'[q][p] = "present" => schemes'[p] # {}
             /\ known'[q][p] = "absent"  => schemes'[p] = {}
  <2>1. /\ known[q][p] = "present" => schemes[p] # {}
        /\ known[q][p] = "absent"  => schemes[p] = {}
    BY DEF GivenHolds, Exists
  <2> QED BY <2>1 DEF Tracks, Confirmed, Remember
<1>2. ASSUME NEW q \in Run, loop'[q].kind = "delete all", NEW p \in loop'[q].left
      PROVE  known'[q][p] # "absent"
  <2>1. p \in Pointer
    <3>1. loop'[q] \in Loops
      BY DEF TypeOK
    <3> QED BY <3>1, <1>2 DEF Loops
  <2> QED BY <1>2, <2>1 DEF Tracks, Listed, DeletesWhatItListed
<1> QED BY <1>1, <1>2 DEF GivenHolds, DeletesWhatItListed, Exists

LEMMA QuietTracks ==
  ASSUME TypeOK, UNCHANGED <<store, loop, known>>
  PROVE  Tracks
BY DEF Tracks, Confirmed, Listed, Remember, store

LEMMA LeaveTracks ==
  ASSUME TypeOK, NEW r \in Run, Leave(r)
  PROVE  Tracks
<1> SUFFICES ASSUME NEW q \in Run, NEW p \in Pointer
             PROVE  Confirmed(q, p) /\ Listed(q, p)
  BY DEF Tracks
<1>1. schemes' = schemes
  BY DEF Leave, store
<1>2. CASE q = r
  <2>1. known'[q][p] = "unknown"
    BY <1>2 DEF Leave, TypeOK, Nothing
  <2> QED BY <2>1 DEF Confirmed, Listed
<1>3. CASE q # r
  <2>1. known'[q] = known[q] /\ loop'[q] = loop[q]
    BY <1>3 DEF Leave, TypeOK
  <2> QED BY <1>1, <2>1 DEF Confirmed, Listed, Remember
<1> QED BY <1>2, <1>3

LEMMA RememberedTracks ==
  ASSUME TypeOK, known' = Remembered, loop' = loop
  PROVE  Tracks
<1> SUFFICES ASSUME NEW q \in Run, NEW p \in Pointer
             PROVE  Confirmed(q, p) /\ Listed(q, p)
  BY DEF Tracks
<1>1. known'[q][p] = Remember(q, p)
  BY DEF Remembered
<1> QED BY <1>1 DEF Confirmed, Listed, Remember

LEMMA RemoveAllPointersTracks ==
  ASSUME TypeOK, NEW r \in Run, RemoveAllPointers(r), ~Fails(r)
  PROVE  Tracks
<1> SUFFICES ASSUME NEW q \in Run, NEW p \in Pointer
             PROVE  Confirmed(q, p) /\ Listed(q, p)
  BY DEF Tracks
<1>1. schemes' = schemes
  BY DEF RemoveAllPointers, store
<1>2. CASE q = r
  <2>0. /\ known' = [known EXCEPT ![r] = [y \in Pointer |->
                       IF y \in Exists THEN "present" ELSE "absent"]]
        /\ loop' = [loop EXCEPT ![r] = IF Exists = {} THEN NoLoop
                                       ELSE [kind |-> "delete all", left |-> Exists]]
    BY DEF RemoveAllPointers
  <2>1. known'[q][p] = IF p \in Exists THEN "present" ELSE "absent"
    BY <1>2, <2>0 DEF TypeOK
  <2>2. loop'[q].kind = "delete all" => loop'[q].left = Exists
    BY <1>2, <2>0 DEF TypeOK, NoLoop
  <2> QED BY <1>1, <2>1, <2>2 DEF Confirmed, Listed, Exists
<1>3. CASE q # r
  <2>1. known'[q] = known[q] /\ loop'[q] = loop[q]
    BY <1>3 DEF RemoveAllPointers, TypeOK
  <2> QED BY <1>1, <2>1 DEF Confirmed, Listed, Remember
<1> QED BY <1>2, <1>3

(* A loop that goes on has dropped the pointer it was at.                  *)
LEMMA IterateLeft ==
  ASSUME TypeOK, NEW r \in Run, NEW x \in loop[r].left, Iterate(r, x)
  PROVE  /\ loop'[r].kind # "none" =>
              loop'[r].kind = loop[r].kind /\ loop'[r].left = loop[r].left \ {x}
         /\ \A q \in Run \ {r} : loop'[q] = loop[q]
BY DEF Iterate, TypeOK, NoLoop

LEMMA DeleteNextTracks ==
  ASSUME TypeOK, NEW r \in Run, DeleteNext(r), ~Fails(r)
  PROVE  Tracks
<1> SUFFICES ASSUME NEW q \in Run, NEW p \in Pointer
             PROVE  Confirmed(q, p) /\ Listed(q, p)
  BY DEF Tracks
<1>1. PICK x \in loop[r].left :
        /\ Answer(r, DeleteSchemes(x)) = 204
        /\ Store(DeleteSchemes(x)) /\ Iterate(r, x) /\ Learn(r, x, "absent")
  BY DEF DeleteNext
<1>2. x \in Pointer
  BY LoopLeftType
<1>3. schemes'[x] = {}
  BY <1>1, <1>2, DeletedIsAbsent DEF Answer, TypeOK
<1>4. known'[q][p] = IF q = r /\ p = x THEN "absent" ELSE Remember(q, p)
  BY <1>1 DEF Learn
<1>5. Confirmed(q, p)
  BY <1>3, <1>4 DEF Confirmed
<1>6. Listed(q, p)
  <2>1. CASE q = r
    <3>1. SUFFICES ASSUME loop'[r].kind = "delete all", p \in loop'[r].left
                   PROVE  /\ loop[r].kind = "delete all" /\ p \in loop[r].left
                          /\ known'[r][p] \in {"unknown", known[r][p]}
      BY <2>1 DEF Listed
    <3>2. loop[r].kind = "delete all" /\ p \in loop[r].left /\ p # x
      <4>1. loop'[r].kind = loop[r].kind /\ loop'[r].left = loop[r].left \ {x}
        <5>1. loop'[r].kind # "none"
          BY <3>1
        <5> QED BY <1>1, <5>1, IterateLeft
      <4> QED BY <3>1, <4>1
    <3> QED BY <2>1, <1>4, <3>2 DEF Remember
  <2>2. CASE q # r
    <3>1. loop'[q] = loop[q]
      BY <1>1, <2>2, IterateLeft
    <3> QED BY <2>2, <1>4, <3>1 DEF Listed, Remember
  <2> QED BY <2>1, <2>2
<1> QED BY <1>5, <1>6

LEMMA CheckNextTracks ==
  ASSUME TypeOK, NEW r \in Run, CheckNext(r), ~Fails(r)
  PROVE  Tracks
<1> SUFFICES ASSUME NEW q \in Run, NEW p \in Pointer
             PROVE  Confirmed(q, p) /\ Listed(q, p)
  BY DEF Tracks
<1>1. PICK x \in loop[r].left :
        /\ (loop[r].kind = "exists") = (schemes[x] # {})
        /\ Iterate(r, x)
        /\ known' = [known EXCEPT ![r][x] =
             IF loop[r].kind = "exists" THEN "present" ELSE "absent"]
        /\ schemes' = schemes
  BY DEF CheckNext, store
<1>2. loop[r].kind \in {"exists", "not exists"}
  BY DEF CheckNext
<1>3. known'[q][p] = IF q = r /\ p = x
                     THEN IF loop[r].kind = "exists" THEN "present" ELSE "absent"
                     ELSE known[q][p]
  BY <1>1 DEF TypeOK, Knowledge
<1>4. Confirmed(q, p)
  BY <1>1, <1>3 DEF Confirmed, Remember
<1>5. Listed(q, p)
  BY <1>1, <1>2, <1>3, IterateLeft DEF Listed
<1> QED BY <1>4, <1>5

LEMMA CheckPointersTracks ==
  ASSUME TypeOK, NEW r \in Run, NEW kind, NEW P, CheckPointers(r, kind, P)
  PROVE  Tracks
<1> SUFFICES ASSUME NEW q \in Run, NEW p \in Pointer
             PROVE  Confirmed(q, p) /\ Listed(q, p)
  BY DEF Tracks
<1>1. known' = known /\ schemes' = schemes
  BY DEF CheckPointers, store
<1>2. loop'[q].kind = "delete all" => loop'[q] = loop[q]
  BY DEF CheckPointers, TypeOK
<1> QED BY <1>1, <1>2 DEF Confirmed, Listed, Remember

LEMMA NextTracks ==
  ASSUME TypeOK, [Next]_vars
  PROVE  Tracks
<1>0. ASSUME NEW r \in Run, Fails(r) PROVE Tracks
  BY <1>0, LeaveTracks DEF Fails
<1>1. ASSUME NEW r \in Run, TokenStep(r) PROVE Tracks
  BY <1>1, <1>0, QuietTracks
  DEF TokenStep, BeginScenario, EndScenario, FetchToken, SaveToken, LoadToken
<1>2. ASSUME NEW r \in Run, WriteStep(r) PROVE Tracks
  BY <1>2, WriteStepIsRequest, RememberedTracks DEF Requests
<1>3. ASSUME NEW r \in Run, ReadStep(r) PROVE Tracks
  <2>1. Fails(r) \/ UNCHANGED <<store, loop, known>>
    BY <1>3 DEF ReadStep, RequestsZones, RequestsPointer, ReadPointersDid, Reads,
                GetHttp, ContentMatches, vars, runVars
  <2> QED BY <2>1, <1>0, QuietTracks
<1>4. ASSUME NEW r \in Run, LoopStep(r) PROVE Tracks
  BY <1>4, <1>0, RemoveAllPointersTracks, DeleteNextTracks, CheckNextTracks,
     CheckPointersTracks DEF LoopStep
<1>5. ASSUME NEW r \in Run, FaultStep(r) PROVE Tracks
  <2>1. CASE NotUp(r) \/ TokenExpires(r) \/ TspaFeatureSaves(r)
    BY <2>1, QuietTracks DEF NotUp, TokenExpires, TspaFeatureSaves, runVars
  <2>2. CASE Abort(r)
    BY <2>2, <1>0 DEF Abort
  <2>3. CASE \E W \in {{}} \cup {{w} : w \in UnderWay(r)} : TimesOut(r, W)
    BY <2>3, LeaveTracks DEF TimesOut
  <2> QED BY <1>5, <2>1, <2>2, <2>3 DEF FaultStep
<1>6. CASE LateLands
  BY <1>6, RememberedTracks DEF LateLands
<1>7. CASE UNCHANGED vars
  BY <1>7, QuietTracks DEF vars, runVars
<1> QED BY <1>1, <1>2, <1>3, <1>4, <1>5, <1>6, <1>7 DEF Next

(* The Given steps of a scenario establish what they say, and a delete-all  *)
(* loop never has a pointer left that its run knows is gone: however many   *)
(* runs interleave, and whatever writes land late.                          *)
THEOREM GivensHold == Spec => [](GivenHolds /\ DeletesWhatItListed)
<1>1. Init => GivenHolds /\ DeletesWhatItListed
  <2> SUFFICES ASSUME Init PROVE GivenHolds /\ DeletesWhatItListed
    OBVIOUS
  <2>1. \A r \in Run, p \in Pointer : known[r][p] = "unknown"
    BY DEF Init, Nothing
  <2>2. \A r \in Run : loop[r].kind = "none"
    BY DEF Init, NoLoop
  <2> QED BY <2>1, <2>2 DEF GivenHolds, DeletesWhatItListed
<1>2. GivenHolds /\ DeletesWhatItListed /\ TypeOK /\ TypeOK' /\ [Next]_vars
        => (GivenHolds /\ DeletesWhatItListed)'
  BY NextTracks, TracksPreserves
<1> QED BY <1>1, <1>2, TypeCorrect, PTL DEF Spec

(* The second half on its own: a delete-all loop with no other writer about   *)
(* never asks for a pointer that is not there.                             *)
THEOREM LoopsDeleteWhatTheyListed == Spec => []DeletesWhatItListed
BY GivensHold, PTL

-----------------------------------------------------------------------------

(* A step that loops over pointers is the only one with a loop under way,    *)
(* and it is the step its run is at.                                       *)
LoopIsOfStep ==
  \A r \in Run : loop[r].kind # "none" =>
    InStep(r) /\ Step(r).do \in {"delete all", "check"}
Placed == /\ pc \in [Run -> [scenario : 1 .. Len(Feature) + 1, step : Nat]]
          /\ \A r \in Run : (scenario[r] = "running") = (pc[r].step > 0)
Counted == /\ runs \in [Run -> 1 .. MaxRuns]
           /\ failed \in [Run -> BOOLEAN] /\ disturbed \in [Run -> BOOLEAN]
FeatureInv == Placed /\ LoopIsOfStep /\ Counted

-----------------------------------------------------------------------------
LEMMA LengthType == Len(Feature) \in Nat
BY FeatureAssumption

LEMMA StepType ==
  ASSUME Placed, NEW r \in Run, InStep(r)
  PROVE  Step(r) \in StepTexts
<1>1. pc[r].scenario \in 1 .. Len(Feature)
  BY LengthType DEF Placed, InStep, Finished
<1>2. Steps(r) \in Seq(StepTexts)
  BY <1>1, FeatureAssumption DEF Steps
<1> QED BY <1>2 DEF InStep, Step

(* The arguments of a step are those its definition is for.                 *)
LEMMA Arguments ==
  ASSUME NEW s \in StepTexts
  PROVE  /\ s.do = "check" => s.kind \in {"exists", "not exists"} /\ s.ptrs \in SUBSET Pointer
         /\ s.do = "create pointers" =>
              s.ptrs \in (SUBSET Pointer) \ {{}} /\ s.ptr \in Pointer
         /\ s.do = "create did" => s.did \in Did /\ s.ptr \in Pointer
         /\ s.do \in {"remove pointer", "remove did", "read pointer", "read did"} =>
              s.ptr \in Pointer
         /\ s.do = "get http" => s.code \in {200, 204, 403, 404}
         /\ s.do = "content" => s.body \in (SUBSET Pointer) \cup {{d} : d \in Did}
<1> DEFINE Bodies == (SUBSET Pointer) \cup {{d} : d \in Did}
           Lists  == (SUBSET Pointer) \ {{}}
<1> HIDE DEF Bodies, Lists
<1>1. CASE s \in [do : {"fetch token", "save token", "load token", "delete all", "read zones"}]
  BY <1>1
<1>2. CASE s \in [do : {"check"}, kind : {"exists", "not exists"}, ptrs : Lists]
  BY <1>2 DEF Lists
<1>3. CASE s \in [do : {"create pointers"}, ptrs : Lists, ptr : Pointer]
  BY <1>3 DEF Lists
<1>4. CASE s \in [do : {"create did"}, did : Did, ptr : Pointer]
  BY <1>4
<1>5. CASE s \in [do : {"remove pointer", "remove did", "read pointer", "read did"},
                  ptr : Pointer]
  BY <1>5
<1>6. CASE s \in [do : {"get http"}, code : {200, 204, 403, 404}]
  BY <1>6
<1>7. CASE s \in [do : {"content"}, body : Bodies]
  BY <1>7 DEF Bodies
<1> QED BY <1>1, <1>2, <1>3, <1>4, <1>5, <1>6, <1>7, Zenon DEF StepTexts, Bodies, Lists

-----------------------------------------------------------------------------
(* Every step of a feature is a step of ZoneSteps.                          *)

StepOf(r) == TokenStep(r) \/ WriteStep(r) \/ ReadStep(r) \/ LoopStep(r) \/ FaultStep(r)

LEMMA ExecuteIsStep ==
  ASSUME NEW r \in Run, NEW s \in StepTexts, Execute(r, s)
  PROVE  StepOf(r)
<1>1. CASE s.do \in {"fetch token", "save token", "load token"}
  BY <1>1, Zenon DEF Execute, StepOf, TokenStep
<1>2. CASE s.do \in {"create pointers", "create did", "remove pointer", "remove did"}
  <2>1. /\ s.do = "create pointers" => CreatingPointers(r, s.ptrs, s.ptr)
        /\ s.do = "create did"      => CreateDid(r, s.did, s.ptr)
        /\ s.do = "remove pointer"  => RemovePointer(r, s.ptr)
        /\ s.do = "remove did"      => RemoveDid(r, s.ptr)
    BY Zenon DEF Execute
  <2>2. s.do = "create pointers" => s.ptrs \in (SUBSET Pointer) \ {{}} /\ s.ptr \in Pointer
    BY Arguments
  <2>3. s.do = "create did" => s.did \in Did /\ s.ptr \in Pointer
    BY Arguments
  <2>4. s.do \in {"remove pointer", "remove did"} => s.ptr \in Pointer
    BY Arguments
  <2>5. WriteStep(r)
    BY <1>2, <2>1, <2>2, <2>3, <2>4 DEF WriteStep
  <2> QED BY <2>5 DEF StepOf
<1>3. CASE s.do \in {"read zones", "read pointer", "read did", "get http", "content"}
  <2>1. /\ s.do = "read zones"   => RequestsZones(r)
        /\ s.do = "read pointer" => RequestsPointer(r, s.ptr)
        /\ s.do = "read did"     => ReadPointersDid(r, s.ptr)
        /\ s.do = "get http"     => GetHttp(r, s.code)
        /\ s.do = "content"      => ContentMatches(r, s.body)
    BY Zenon DEF Execute
  <2>2. s.do \in {"read pointer", "read did"} => s.ptr \in Pointer
    BY Arguments
  <2>3. s.do = "get http" => s.code \in {200, 204, 403, 404}
    BY Arguments
  <2>4. s.do = "content" => s.body \in (SUBSET Pointer) \cup {{d} : d \in Did}
    BY Arguments
  <2>5. ReadStep(r)
    <3>1. CASE s.do = "read zones"
      BY <2>1, <3>1, Zenon DEF ReadStep
    <3>2. CASE s.do \in {"read pointer", "read did"}
      BY <2>1, <2>2, <3>2, Zenon DEF ReadStep
    <3>3. CASE s.do = "get http"
      BY <2>1, <2>3, <3>3, Zenon DEF ReadStep
    <3>4. CASE s.do = "content"
      BY <2>1, <2>4, <3>4, Zenon DEF ReadStep
    <3> QED BY <1>3, <3>1, <3>2, <3>3, <3>4, Zenon
  <2> QED BY <2>5 DEF StepOf
<1>4. CASE s.do \in {"delete all", "check"}
  <2>1. /\ s.do = "delete all" => RemoveAllPointers(r) \/ DeleteNext(r)
        /\ s.do = "check" => CheckPointers(r, s.kind, s.ptrs) \/ CheckNext(r)
    BY Zenon DEF Execute
  <2>2. s.do = "check" => s.kind \in {"exists", "not exists"} /\ s.ptrs \in SUBSET Pointer
    BY Arguments
  <2> QED BY <1>4, <2>1, <2>2, Zenon DEF StepOf, LoopStep
<1> QED BY <1>1, <1>2, <1>3, <1>4 DEF StepTexts

(* What a step has sent when it times out, it may have under way.           *)
LEMMA SentIsUnderWay ==
  ASSUME Placed, LoopIsOfStep, NEW r \in Run, InStep(r)
  PROVE  Sent(r) \subseteq UnderWay(r)
<1> DEFINE s == Step(r)
<1>1. CASE s.do \in {"delete all", "check"}
  BY <1>1, Zenon DEF Sent
<1>2. CASE s.do \notin {"delete all", "check"}
  <2>1. s \in StepTexts
    BY StepType
  <2>2. UnderWay(r) = Write
    BY <1>2 DEF UnderWay, LoopIsOfStep
  <2>3. CASE s.do = "create pointers"
    <3>1. Sent(r) = {PutSchemes(s.ptr, s.ptrs)}
      BY <2>3, Zenon DEF Sent
    <3>2. s.ptrs \in (SUBSET Pointer) \ {{}} /\ s.ptr \in Pointer
      BY <2>1, <2>3, Arguments
    <3> HIDE DEF s
    <3> QED BY <2>2, <3>1, <3>2, PutIsWrite
  <2>4. CASE s.do = "create did"
    <3>1. Sent(r) = {PutDid(s.ptr, s.did)}
      BY <2>4, Zenon DEF Sent
    <3>2. s.did \in Did /\ s.ptr \in Pointer
      BY <2>1, <2>4, Arguments
    <3> HIDE DEF s
    <3> QED BY <2>2, <3>1, <3>2, PutIsWrite
  <2>5. CASE s.do = "remove pointer"
    <3>1. Sent(r) = {DeleteSchemes(s.ptr)}
      BY <2>5, Zenon DEF Sent
    <3>2. s.ptr \in Pointer
      BY <2>1, <2>5, Arguments
    <3> HIDE DEF s
    <3> QED BY <2>2, <3>1, <3>2, DeleteIsWrite
  <2>6. CASE s.do = "remove did"
    <3>1. Sent(r) = {DeleteDid(s.ptr)}
      BY <2>6, Zenon DEF Sent
    <3>2. s.ptr \in Pointer
      BY <2>1, <2>6, Arguments
    <3> HIDE DEF s
    <3> QED BY <2>2, <3>1, <3>2, DeleteIsWrite
  <2>7. CASE s.do \notin {"create pointers", "create did", "remove pointer", "remove did"}
    BY <1>2, <2>7, Zenon DEF Sent
  <2> QED BY <2>3, <2>4, <2>5, <2>6, <2>7
<1> QED BY <1>1, <1>2

LEMMA RunStepIsStep ==
  ASSUME Placed, NEW r \in Run, RunStep(r)
  PROVE  StepOf(r)
<1>1. CASE InStep(r) /\ Execute(r, Step(r))
  BY <1>1, StepType, ExecuteIsStep
<1> QED BY <1>1 DEF RunStep, StepOf, TokenStep

LEMMA TimeoutIsStep ==
  ASSUME Placed, LoopIsOfStep, NEW r \in Run, StepTimesOut(r)
  PROVE  StepOf(r)
<1>1. InStep(r)
  BY DEF StepTimesOut, Requesting
<1>2. PICK W \in {{}} \cup {{w} : w \in Sent(r)} : TimesOut(r, W)
  BY DEF StepTimesOut
<1>3. W \in {{}} \cup {{w} : w \in UnderWay(r)}
  BY <1>1, SentIsUnderWay
<1> QED BY <1>2, <1>3 DEF StepOf, FaultStep

LEMMA FeatureStepIsStep ==
  ASSUME FeatureInv, [FeatureNext]_featureVars
  PROVE  [Next]_vars
<1>1. ASSUME NEW r \in Run, RunStep(r) PROVE StepOf(r)
  BY <1>1, RunStepIsStep DEF FeatureInv
<1>2. ASSUME NEW r \in Run, NotUpStep(r) \/ TokenLost(r) PROVE StepOf(r)
  BY <1>2 DEF NotUpStep, TokenLost, StepOf, FaultStep
<1>3. ASSUME NEW r \in Run, StepTimesOut(r) PROVE StepOf(r)
  BY <1>3, TimeoutIsStep DEF FeatureInv
<1>4. ASSUME NEW r \in Run, Restart(r) PROVE StepOf(r) \/ UNCHANGED vars
  BY <1>4 DEF Restart, StepOf, FaultStep
<1>5. CASE LateWriteLands
  BY <1>5 DEF LateWriteLands, Next
<1>6. CASE UNCHANGED featureVars
  BY <1>6 DEF featureVars
<1>7. CASE Stop
  BY <1>7 DEF Stop, featureVars
<1>8. (\E r \in Run : StepOf(r)) => Next
  BY DEF StepOf, Next
<1> QED BY <1>1, <1>2, <1>3, <1>4, <1>5, <1>6, <1>7, <1>8 DEF FeatureNext

-----------------------------------------------------------------------------
(* The invariant: where a run is, and that no step inherits a loop.         *)

LEMMA LeaveEnds ==
  ASSUME TypeOK, NEW r \in Run, Leave(r)
  PROVE  loop'[r].kind = "none" /\ scenario'[r] = "idle"
BY DEF Leave, TypeOK, NoLoop

(* A step only touches its own run's scenario and loop.                     *)
LEMMA StepFrame ==
  ASSUME TypeOK, NEW r \in Run, StepOf(r), NEW q \in Run \ {r}
  PROVE  scenario'[q] = scenario[q] /\ loop'[q] = loop[q]
<1>0. Leave(r) => scenario'[q] = scenario[q] /\ loop'[q] = loop[q]
  BY DEF Leave, TypeOK
<1>1. CASE TokenStep(r)
  BY <1>0, <1>1 DEF TokenStep, BeginScenario, EndScenario, FetchToken, SaveToken, LoadToken,
                    Fails, TypeOK
<1>2. CASE WriteStep(r)
  BY <1>2, WriteStepIsRequest DEF Requests
<1>3. CASE ReadStep(r)
  <2>1. Fails(r) \/ UNCHANGED <<scenario, loop>>
    BY <1>3 DEF ReadStep, RequestsZones, RequestsPointer, ReadPointersDid, Reads,
                GetHttp, ContentMatches, vars, runVars
  <2> QED BY <1>0, <2>1 DEF Fails
<1>4. CASE LoopStep(r)
  <2>1. CASE Fails(r)
    BY <1>0, <2>1 DEF Fails
  <2>2. CASE RemoveAllPointers(r) /\ ~Fails(r)
    BY <2>2 DEF RemoveAllPointers, TypeOK
  <2>3. CASE (DeleteNext(r) \/ CheckNext(r)) /\ ~Fails(r)
    <3>1. PICK x \in loop[r].left : Iterate(r, x) /\ UNCHANGED scenario
      BY <2>3 DEF DeleteNext, CheckNext
    <3> QED BY <3>1, IterateLeft
  <2>4. CASE \E kind \in {"exists", "not exists"}, P \in SUBSET Pointer : CheckPointers(r, kind, P)
    BY <2>4 DEF CheckPointers, TypeOK
  <2> QED BY <1>4, <2>1, <2>2, <2>3, <2>4 DEF LoopStep
<1>5. CASE FaultStep(r)
  BY <1>0, <1>5 DEF FaultStep, NotUp, TokenExpires, TspaFeatureSaves, Abort, TimesOut, Fails, runVars
<1> QED BY <1>1, <1>2, <1>3, <1>4, <1>5 DEF StepOf

(* Only the steps that loop leave a loop under way, and then their scenario  *)
(* goes on.                                                                *)
LEMMA ExecuteLoop ==
  ASSUME TypeOK, NEW r \in Run, NEW s, Execute(r, s), loop'[r].kind # "none"
  PROVE  s.do \in {"delete all", "check"} /\ scenario'[r] = "running"
<1>0. ~Fails(r)
  BY LeaveEnds DEF Fails
<1>1. CASE s.do \in {"delete all", "check"}
  <2>1. \/ RemoveAllPointers(r) \/ DeleteNext(r) \/ CheckNext(r)
        \/ CheckPointers(r, s.kind, s.ptrs)
    BY <1>1, Zenon DEF Execute
  <2>2. Running(r) /\ UNCHANGED scenario
    BY <2>1, <1>0 DEF RemoveAllPointers, DeleteNext, CheckNext, CheckPointers, Ready
  <2> QED BY <1>1, <2>2 DEF Running
<1>2. CASE s.do \notin {"delete all", "check"}
  <2>1. Ready(r) /\ (Fails(r) \/ UNCHANGED loop)
    <3>1. \/ FetchToken(r) \/ SaveToken(r) \/ LoadToken(r)
          \/ CreatingPointers(r, s.ptrs, s.ptr) \/ CreateDid(r, s.did, s.ptr)
          \/ RemovePointer(r, s.ptr) \/ RemoveDid(r, s.ptr)
          \/ RequestsZones(r) \/ RequestsPointer(r, s.ptr) \/ ReadPointersDid(r, s.ptr)
          \/ GetHttp(r, s.code) \/ ContentMatches(r, s.body)
      BY <1>2, Zenon DEF Execute
    <3> QED BY <3>1 DEF FetchToken, SaveToken, LoadToken, CreatingPointers, CreateDid,
                 RemovePointer, RemoveDid, Requests, RequestsZones, RequestsPointer,
                 ReadPointersDid, Reads, GetHttp, ContentMatches, vars, runVars
  <2> QED BY <1>0, <2>1 DEF Ready
<1> QED BY <1>1, <1>2

LEMMA StayInv ==
  ASSUME FeatureInv, UNCHANGED <<scenario, loop, pc>>
  PROVE  Placed' /\ LoopIsOfStep'
BY DEF FeatureInv, Placed, LoopIsOfStep, InStep, Finished, Steps, Step

LEMMA MoveInv ==
  ASSUME FeatureInv, TypeOK', NEW r \in Run,
         \A q \in Run \ {r} : scenario'[q] = scenario[q] /\ loop'[q] = loop[q],
         NEW to \in [scenario : 1 .. Len(Feature) + 1, step : Nat],
         pc' = [pc EXCEPT ![r] = to],
         (scenario'[r] = "running") = (to.step > 0),
         loop'[r].kind # "none" =>
           to = pc[r] /\ InStep(r) /\ Step(r).do \in {"delete all", "check"}
  PROVE  Placed' /\ LoopIsOfStep'
<1>1. /\ pc'[r] = to
      /\ \A q \in Run \ {r} : pc'[q] = pc[q]
  BY DEF FeatureInv, Placed
<1>2. Placed'
  BY <1>1 DEF FeatureInv, Placed
<1>3. ASSUME NEW q \in Run, loop'[q].kind # "none"
      PROVE  (InStep(q) /\ Step(q).do \in {"delete all", "check"})'
  <2>1. pc'[q] = pc[q] /\ InStep(q) /\ Step(q).do \in {"delete all", "check"}
    BY <1>1, <1>3 DEF FeatureInv, LoopIsOfStep
  <2> QED BY <2>1 DEF InStep, Finished, Steps, Step
<1> QED BY <1>2, <1>3 DEF LoopIsOfStep

LEMMA Within ==
  ASSUME NEW n, NEW last \in Nat, n \in 1 .. last + 1, ~(n > last)
  PROVE  n \in 1 .. last /\ n + 1 \in 1 .. last + 1
OBVIOUS

LEMMA PlaceType ==
  ASSUME Placed, NEW r \in Run
  PROVE  /\ pc[r] \in [scenario : 1 .. Len(Feature) + 1, step : Nat]
         /\ pc[r].scenario \in 1 .. Len(Feature) + 1 /\ pc[r].step \in Nat
         /\ InStep(r) => pc[r].step > 0 /\ pc[r].step # 0
<1>1. pc[r] \in [scenario : 1 .. Len(Feature) + 1, step : Nat]
  BY DEF Placed
<1>2. pc[r].scenario \in 1 .. Len(Feature) + 1 /\ pc[r].step \in Nat
  BY <1>1
<1>3. ASSUME InStep(r) PROVE pc[r].step > 0 /\ pc[r].step # 0
  <2>1. pc[r].step \in 1 .. Len(Steps(r))
    BY <1>3 DEF InStep
  <2> QED BY <1>2, <2>1
<1> QED BY <1>1, <1>2, <1>3

LEMMA NextPlaces ==
  ASSUME Placed, NEW r \in Run, ~Finished(r)
  PROVE  /\ NextScenario(r) \in [scenario : 1 .. Len(Feature) + 1, step : Nat]
         /\ NextScenario(r).step = 0
         /\ NextStep(r) \in [scenario : 1 .. Len(Feature) + 1, step : Nat]
         /\ NextStep(r).step > 0
<1>1. pc[r].scenario \in 1 .. Len(Feature) + 1 /\ pc[r].step \in Nat
  BY PlaceType
<1>2. ~(pc[r].scenario > Len(Feature))
  BY DEF Finished
<1>3. pc[r].scenario + 1 \in 1 .. Len(Feature) + 1
  BY <1>1, <1>2, LengthType, Within
<1>4. pc[r].step + 1 \in Nat /\ pc[r].step + 1 > 0
  BY <1>1
<1> QED BY <1>1, <1>3, <1>4 DEF NextScenario, NextStep

(* Advance moves a run on as its scenario goes.                             *)
LEMMA AdvanceInv ==
  ASSUME FeatureInv, TypeOK', NEW r \in Run, ~Finished(r), Advance(r),
         \A q \in Run \ {r} : scenario'[q] = scenario[q] /\ loop'[q] = loop[q],
         loop'[r].kind # "none" => /\ InStep(r) /\ Step(r).do \in {"delete all", "check"}
                                   /\ scenario'[r] = "running"
  PROVE  Placed' /\ LoopIsOfStep'
<1> DEFINE Place == [scenario : 1 .. Len(Feature) + 1, step : Nat]
           to    == IF scenario'[r] = "idle" THEN NextScenario(r)
                    ELSE IF loop'[r].kind # "none" THEN pc[r] ELSE NextStep(r)
<1>1. pc[r] \in Place
  BY DEF FeatureInv, Placed
<1>2. scenario'[r] \in {"idle", "running"}
  BY DEF TypeOK
<1>3. NextScenario(r) \in Place /\ NextScenario(r).step = 0
  BY NextPlaces DEF FeatureInv
<1>4. NextStep(r) \in Place /\ NextStep(r).step > 0
  BY NextPlaces DEF FeatureInv
<1>5. InStep(r) => pc[r].step > 0
  BY PlaceType DEF FeatureInv
<1>6. to \in Place /\ ((scenario'[r] = "running") = (to.step > 0))
  <2> HIDE DEF Place
  <2>1. CASE scenario'[r] = "idle"
    BY <1>3, <2>1
  <2>2. CASE scenario'[r] = "running" /\ loop'[r].kind # "none"
    BY <1>1, <1>5, <2>2
  <2>3. CASE scenario'[r] = "running" /\ loop'[r].kind = "none"
    BY <1>4, <2>3
  <2> QED BY <1>2, <2>1, <2>2, <2>3
<1>7. pc' = [pc EXCEPT ![r] = to]
  BY DEF Advance
<1>8. loop'[r].kind # "none" => to = pc[r]
  OBVIOUS
<1> HIDE DEF to
<1> QED BY <1>6, <1>7, <1>8, MoveInv

LEMMA RunStepInv ==
  ASSUME FeatureInv, TypeOK, TypeOK', NEW r \in Run, RunStep(r)
  PROVE  Placed' /\ LoopIsOfStep'
<1>1. \A q \in Run \ {r} : scenario'[q] = scenario[q] /\ loop'[q] = loop[q]
  BY RunStepIsStep, StepFrame DEF FeatureInv
<1>2. ASSUME loop'[r].kind # "none"
      PROVE  /\ InStep(r) /\ Step(r).do \in {"delete all", "check"}
             /\ scenario'[r] = "running"
  <2>1. CASE pc[r].step = 0 /\ BeginScenario(r)
    <3>1. InStep(r) /\ pc[r].step # 0
      BY <1>2, <2>1, PlaceType DEF BeginScenario, FeatureInv, LoopIsOfStep
    <3> QED BY <2>1, <3>1
  <2>2. CASE InStep(r) /\ Execute(r, Step(r))
    BY <1>2, <2>2, ExecuteLoop
  <2>3. CASE EndScenario(r)
    BY <1>2, <2>3, LeaveEnds DEF EndScenario, Fails
  <2> QED BY <2>1, <2>2, <2>3 DEF RunStep
<1>3. ~Finished(r) /\ Advance(r)
  BY DEF RunStep
<1> QED BY <1>1, <1>2, <1>3, AdvanceInv

(* A run whose scenario is not running has no loop under way.               *)
LEMMA IdleHasNoLoop ==
  ASSUME FeatureInv, NEW r \in Run, ~Running(r)
  PROVE  pc[r].step = 0 /\ loop[r].kind = "none"
<1>1. pc[r].step = 0
  BY PlaceType DEF FeatureInv, Placed, Running
<1> QED BY <1>1, PlaceType DEF FeatureInv, LoopIsOfStep

LEMMA NotUpStepInv ==
  ASSUME FeatureInv, TypeOK', NEW r \in Run, NotUpStep(r)
  PROVE  Placed' /\ LoopIsOfStep'
<1>1. ~Finished(r) /\ Advance(r) /\ ~Running(r) /\ scenario' = scenario /\ loop' = loop
  BY DEF NotUpStep, NotUp, runVars, Running
<1>2. loop'[r].kind = "none"
  BY <1>1, IdleHasNoLoop
<1> QED BY <1>1, <1>2, AdvanceInv

LEMMA StepTimesOutInv ==
  ASSUME FeatureInv, TypeOK, TypeOK', NEW r \in Run, StepTimesOut(r)
  PROVE  Placed' /\ LoopIsOfStep'
<1>1. ~Finished(r) /\ Advance(r) /\ Leave(r)
  BY DEF StepTimesOut, Requesting, InStep, TimesOut
<1>2. loop'[r].kind = "none"
  BY <1>1, LeaveEnds
<1>3. \A q \in Run \ {r} : scenario'[q] = scenario[q] /\ loop'[q] = loop[q]
  BY TimeoutIsStep, StepFrame DEF FeatureInv
<1> QED BY <1>1, <1>2, <1>3, AdvanceInv

LEMMA RestartInv ==
  ASSUME FeatureInv, TypeOK, TypeOK', NEW r \in Run, Restart(r)
  PROVE  Placed' /\ LoopIsOfStep'
<1>1. scenario'[r] # "running" /\ loop'[r].kind = "none"
  <2>1. CASE Running(r)
    BY <2>1, LeaveEnds DEF Restart, Abort, Fails
  <2>2. CASE ~Running(r)
    BY <2>2, IdleHasNoLoop DEF Restart, Running, vars, runVars
  <2> QED BY <2>1, <2>2
<1>2. \A q \in Run \ {r} : scenario'[q] = scenario[q] /\ loop'[q] = loop[q]
  <2>1. CASE Running(r)
    BY <2>1, StepFrame DEF Restart, StepOf, FaultStep
  <2>2. CASE ~Running(r)
    BY <2>2 DEF Restart, vars, runVars
  <2> QED BY <2>1, <2>2
<1>3. Start \in [scenario : 1 .. Len(Feature) + 1, step : Nat] /\ Start.step = 0
  BY LengthType DEF Start
<1>4. (scenario'[r] = "running") = (Start.step > 0)
  BY <1>1 DEF Start
<1>5. pc' = [pc EXCEPT ![r] = Start]
  BY DEF Restart
<1> QED BY <1>1, <1>2, <1>3, <1>4, <1>5, MoveInv

LEMMA RecordCounted ==
  ASSUME Counted, NEW r \in Run, NEW fails \in BOOLEAN, NEW faulty \in BOOLEAN,
         Record(r, fails, faulty)
  PROVE  Counted'
<1>1. runs' \in [Run -> 1 .. MaxRuns]
  BY DEF Counted, Record
<1>2. failed' \in [Run -> BOOLEAN]
  BY DEF Counted, Record
<1>3. disturbed' \in [Run -> BOOLEAN]
  BY DEF Counted, Record
<1> QED BY <1>1, <1>2, <1>3 DEF Counted

LEMMA RestartCounted ==
  ASSUME Counted, NEW r \in Run, Restart(r)
  PROVE  Counted'
<1>1. runs' \in [Run -> 1 .. MaxRuns]
  <2>1. runs[r] \in 1 .. MaxRuns /\ runs[r] < MaxRuns /\ MaxRuns \in Nat
    BY MaxRunsAssumption DEF Counted, Restart
  <2>2. runs[r] + 1 \in 1 .. MaxRuns
    BY <2>1
  <2> QED BY <2>2 DEF Counted, Restart
<1> QED BY <1>1 DEF Counted, Restart

-----------------------------------------------------------------------------
LEMMA InitFeatureInv == FeatureInit => FeatureInv
<1> SUFFICES ASSUME FeatureInit PROVE FeatureInv
  OBVIOUS
<1>1. Start \in [scenario : 1 .. Len(Feature) + 1, step : Nat] /\ Start.step = 0
  BY LengthType DEF Start
<1>2. Placed
  BY <1>1 DEF FeatureInit, Init, Placed
<1>3. LoopIsOfStep
  BY DEF FeatureInit, Init, LoopIsOfStep, NoLoop
<1>4. 1 \in 1 .. MaxRuns
  BY MaxRunsAssumption
<1>5. Counted
  BY <1>4 DEF FeatureInit, Counted
<1> QED BY <1>2, <1>3, <1>5 DEF FeatureInv

LEMMA NextFeatureInv ==
  ASSUME FeatureInv, TypeOK, TypeOK', [FeatureNext]_featureVars
  PROVE  FeatureInv'
<1>1. ASSUME NEW r \in Run, RunStep(r) PROVE FeatureInv'
  <2>1. PICK fails \in BOOLEAN : Record(r, fails, FALSE)
    BY <1>1, Zenon DEF RunStep
  <2> QED BY <1>1, <2>1, RunStepInv, RecordCounted DEF FeatureInv
<1>2. ASSUME NEW r \in Run, NotUpStep(r) PROVE FeatureInv'
  BY <1>2, NotUpStepInv, RecordCounted DEF FeatureInv, NotUpStep
<1>3. ASSUME NEW r \in Run, StepTimesOut(r) PROVE FeatureInv'
  BY <1>3, StepTimesOutInv, RecordCounted DEF FeatureInv, StepTimesOut
<1>4. ASSUME NEW r \in Run, TokenLost(r) PROVE FeatureInv'
  <2>1. UNCHANGED <<scenario, loop, pc>>
    BY <1>4 DEF TokenLost, TokenExpires, TspaFeatureSaves
  <2> QED BY <1>4, <2>1, StayInv, RecordCounted DEF FeatureInv, TokenLost
<1>5. ASSUME NEW r \in Run, Restart(r) PROVE FeatureInv'
  BY <1>5, RestartInv, RestartCounted DEF FeatureInv
<1>6. CASE LateWriteLands
  <2>1. UNCHANGED <<scenario, loop, pc>>
    BY <1>6 DEF LateWriteLands, LateLands
  <2>2. Counted'
    BY <1>6 DEF LateWriteLands, FeatureInv, Counted
  <2> QED BY <2>1, <2>2, StayInv DEF FeatureInv
<1>7. CASE UNCHANGED featureVars
  <2>1. UNCHANGED <<scenario, loop, pc>> /\ Counted'
    BY <1>7 DEF featureVars, vars, runVars, feature, FeatureInv, Counted
  <2> QED BY <2>1, StayInv DEF FeatureInv
<1>8. CASE Stop
  BY <1>7, <1>8 DEF Stop
<1> QED BY <1>1, <1>2, <1>3, <1>4, <1>5, <1>6, <1>7, <1>8 DEF FeatureNext

(* Every step keeps the types and the invariant.                            *)
LEMMA FeatureAlways ==
  FeatureSpec => [](TypeOK /\ FeatureInv)
<1>1. FeatureInit => TypeOK /\ FeatureInv
  BY InitFeatureInv, InitType DEF FeatureInit
<1>2. TypeOK /\ FeatureInv /\ [FeatureNext]_featureVars => (TypeOK /\ FeatureInv)'
  BY FeatureStepIsStep, NextType, NextFeatureInv
<1> QED BY <1>1, <1>2, PTL DEF FeatureSpec

(* Every run of a feature is a behaviour of the steps: whatever holds of     *)
(* any sequence of step definitions holds of the scenarios as they are      *)
(* ordered in the feature files, with their interruptions and restarts.     *)
THEOREM FeatureImplementsSteps == FeatureSpec => Spec
<1>1. TypeOK /\ FeatureInv /\ [FeatureNext]_featureVars => [Next]_vars
  BY FeatureStepIsStep
<1>2. FeatureInit => Init
  BY DEF FeatureInit
<1> QED BY <1>1, <1>2, FeatureAlways, PTL DEF FeatureSpec, Spec

(* Each run is at a scenario of the feature or past its end, and within a   *)
(* scenario exactly while its context is there, whatever the feature.       *)
THEOREM FeatureTypeCorrect == FeatureSpec => []FeatureTypeOK
<1>1. TypeOK /\ FeatureInv => FeatureTypeOK
  BY DEF FeatureInv, Placed, Counted, FeatureTypeOK
<1> QED BY <1>1, FeatureAlways, PTL

(* What a Given step of a feature established still holds when the scenario  *)
(* relies on it, unless a later write changed it.                           *)
THEOREM FeatureGivensHold == FeatureSpec => [](GivenHolds /\ DeletesWhatItListed)
BY FeatureImplementsSteps, GivensHold, PTL

-----------------------------------------------------------------------------
(* A check and the write it is for.                                         *)

As(kind) == IF kind = "exists" THEN "present" ELSE "absent"

(* What a run knows of a pointer it has checked, d if it was disturbed.      *)
Found(facts, d, p, kind) ==
  p \in Pointer /\ (facts[p] = As(kind) \/ (facts[p] = "unknown" /\ d))

(* The pointers of the lists a run has checked, and of the list it is at,    *)
(* except those the loop has not come to.                                   *)
ChecksLast(r) ==
  InStep(r) /\ Step(r).do # "delete all" =>
    /\ \A i \in Checked(r) : \A p \in Steps(r)[i].ptrs :
         Found(known[r], disturbed[r], p, Steps(r)[i].kind)
    /\ Step(r).do = "check" /\ loop[r].kind # "none" =>
         /\ loop[r].kind = Step(r).kind /\ loop[r].left \subseteq Step(r).ptrs
         /\ \A p \in Step(r).ptrs \ loop[r].left :
              Found(known[r], disturbed[r], p, Step(r).kind)

CheckInv == \A r \in Run : ChecksLast(r)

LEMMA StepsType ==
  ASSUME Placed, NEW r \in Run, ~Finished(r)
  PROVE  Steps(r) \in Seq(StepTexts)
<1>1. pc[r].scenario \in 1 .. Len(Feature)
  BY LengthType DEF Placed, Finished
<1> QED BY <1>1, FeatureAssumption DEF Steps

LEMMA SinceWriteNext ==
  ASSUME NEW steps \in Seq(StepTexts), NEW n \in DOMAIN steps, NEW i \in SinceWrite(steps, n + 1)
  PROVE  /\ steps[n].do \notin Writing \cup {"delete all"}
         /\ \/ i = n /\ steps[n].do = "check"
            \/ i \in SinceWrite(steps, n)
<1>1. \A j \in DOMAIN steps : j < n + 1 <=> j < n \/ j = n
  <2>1. DOMAIN steps = 1 .. Len(steps) /\ Len(steps) \in Nat
    OBVIOUS
  <2> QED BY <2>1
<1>2. \A j \in DOMAIN steps : i < j /\ j < n => i < j /\ j < n + 1
  BY <1>1
<1>3. /\ i \in DOMAIN steps /\ steps[i].do = "check" /\ (i < n \/ i = n)
      /\ i < n => steps[n].do \notin Writing \cup {"delete all"}
      /\ \A j \in DOMAIN steps : i < j /\ j < n => steps[j].do \notin Writing \cup {"delete all"}
  BY <1>1, <1>2, Zenon DEF SinceWrite
<1> QED BY <1>3 DEF SinceWrite, Writing

(* A run that stays where it is and forgets only what others have changed.   *)
LEMMA StaysChecked ==
  ASSUME NEW r \in Run, ChecksLast(r), pc'[r] = pc[r], loop'[r] = loop[r],
         disturbed[r] => disturbed'[r],
         \A p \in Pointer : \/ known'[r][p] = known[r][p]
                            \/ known'[r][p] = "unknown" /\ disturbed'[r]
  PROVE  ChecksLast(r)'
<1>1. \A p, kind : Found(known[r], disturbed[r], p, kind) => Found(known'[r], disturbed'[r], p, kind)
  BY DEF Found
<1>2. /\ InStep(r)' <=> InStep(r)
      /\ Step(r)' = Step(r) /\ Steps(r)' = Steps(r) /\ Checked(r)' = Checked(r)
  BY DEF InStep, Finished, Step, Steps, Checked
<1> QED BY <1>1, <1>2 DEF ChecksLast

LEMMA OutOfSteps ==
  ASSUME NEW r \in Run, pc'[r].step = 0
  PROVE  ChecksLast(r)'
<1>1. ~(0 \in 1 .. Len(Steps(r)'))
  OBVIOUS
<1> QED BY <1>1 DEF ChecksLast, InStep

(* A step of another run makes a run forget only what it changes.            *)
LEMMA OthersForget ==
  ASSUME TypeOK, NEW r \in Run, StepOf(r), NEW q \in Run \ {r}, NEW p \in Pointer
  PROVE  known'[q][p] = known[q][p] \/ (known'[q][p] = "unknown" /\ store' # store)
<1>1. Remember(q, p) = known[q][p] \/ (Remember(q, p) = "unknown" /\ store' # store)
  BY DEF Remember, store
<1>2. Leave(r) => known'[q] = known[q]
  BY DEF Leave, TypeOK
<1>3. known' = Remembered => known'[q][p] = Remember(q, p)
  BY DEF Remembered
<1>4. CASE TokenStep(r)
  BY <1>2, <1>4 DEF TokenStep, BeginScenario, EndScenario, FetchToken, SaveToken, LoadToken,
                    Fails
<1>5. CASE WriteStep(r)
  BY <1>1, <1>3, <1>5, WriteStepIsRequest DEF Requests
<1>6. CASE ReadStep(r)
  <2>1. Fails(r) \/ UNCHANGED known
    BY <1>6 DEF ReadStep, RequestsZones, RequestsPointer, ReadPointersDid, Reads,
                GetHttp, ContentMatches, vars, runVars
  <2> QED BY <1>2, <2>1 DEF Fails
<1>7. CASE LoopStep(r)
  <2>1. CASE Fails(r)
    BY <1>2, <2>1 DEF Fails
  <2>2. CASE RemoveAllPointers(r) /\ ~Fails(r)
    BY <2>2 DEF RemoveAllPointers, TypeOK
  <2>3. CASE DeleteNext(r) /\ ~Fails(r)
    <3>1. PICK x \in loop[r].left : Learn(r, x, "absent")
      BY <2>3 DEF DeleteNext
    <3>2. known'[q][p] = Remember(q, p)
      BY <3>1 DEF Learn
    <3> QED BY <1>1, <3>2
  <2>4. CASE CheckNext(r) /\ ~Fails(r)
    BY <2>4 DEF CheckNext, TypeOK
  <2>5. CASE \E kind \in {"exists", "not exists"}, P \in SUBSET Pointer : CheckPointers(r, kind, P)
    BY <2>5 DEF CheckPointers
  <2> QED BY <1>7, <2>1, <2>2, <2>3, <2>4, <2>5 DEF LoopStep
<1>8. CASE FaultStep(r)
  BY <1>2, <1>8 DEF FaultStep, NotUp, TokenExpires, TspaFeatureSaves, Abort, TimesOut, Fails, runVars
<1> QED BY <1>4, <1>5, <1>6, <1>7, <1>8 DEF StepOf

(* One pointer of a list: it is found as the list says, and none of the       *)
(* earlier lists says otherwise.                                            *)
LEMMA CheckNextFinds ==
  ASSUME FeatureInv, TypeOK, NEW r \in Run, ChecksLast(r), InStep(r), Step(r).do = "check",
         CheckNext(r), ~Fails(r), disturbed[r] => disturbed'[r]
  PROVE  \E x \in loop[r].left :
           /\ Iterate(r, x)
           /\ loop[r].kind = Step(r).kind /\ loop[r].left \subseteq Step(r).ptrs
           /\ \A i \in Checked(r) : \A p \in Steps(r)[i].ptrs :
                Found(known'[r], disturbed'[r], p, Steps(r)[i].kind)
           /\ \A p \in Step(r).ptrs \ (loop[r].left \ {x}) :
                Found(known'[r], disturbed'[r], p, Step(r).kind)
<1>1. PICK x \in loop[r].left :
        /\ Iterate(r, x)
        /\ known' = [known EXCEPT ![r][x] = IF loop[r].kind = "exists" THEN "present" ELSE "absent"]
  BY DEF CheckNext
<1>2. loop[r].kind # "none" /\ x \in Pointer
  BY LoopLeftType DEF CheckNext
<1>3. /\ loop[r].kind = Step(r).kind /\ loop[r].left \subseteq Step(r).ptrs
      /\ \A p \in Step(r).ptrs \ loop[r].left : Found(known[r], disturbed[r], p, Step(r).kind)
      /\ \A i \in Checked(r) : \A p \in Steps(r)[i].ptrs :
           Found(known[r], disturbed[r], p, Steps(r)[i].kind)
  BY <1>2 DEF ChecksLast
<1>4. /\ known'[r][x] = As(Step(r).kind)
      /\ \A p \in Pointer \ {x} : known'[r][p] = known[r][p]
  <2>1. known[r] \in Knowledge
    BY DEF TypeOK
  <2> QED BY <1>1, <1>2, <1>3, <2>1 DEF As, Knowledge, TypeOK
<1>5. Found(known'[r], disturbed'[r], x, Step(r).kind)
  BY <1>2, <1>4 DEF Found
<1>6. ASSUME NEW p, p # x, NEW kind, Found(known[r], disturbed[r], p, kind)
      PROVE  Found(known'[r], disturbed'[r], p, kind)
  BY <1>4, <1>6 DEF Found
<1>7. ASSUME NEW i \in Checked(r), x \in Steps(r)[i].ptrs
      PROVE  Steps(r)[i].kind = Step(r).kind
  <2>1. pc[r].scenario \in 1 .. Len(Feature) /\ pc[r].step \in 1 .. Len(Steps(r))
    BY LengthType DEF Placed, InStep, Finished, FeatureInv
  <2>2. x \in Steps(r)[i].ptrs \cap Step(r).ptrs
    BY <1>3, <1>7
  <2> QED BY <2>1, <2>2, ChecksAssumption DEF Checked, Steps, Step
<1>8. \A i \in Checked(r) : \A p \in Steps(r)[i].ptrs :
        Found(known'[r], disturbed'[r], p, Steps(r)[i].kind)
  <2> TAKE i \in Checked(r)
  <2> TAKE p \in Steps(r)[i].ptrs
  <2>1. CASE p = x
    BY <1>5, <1>7, <2>1
  <2>2. CASE p # x
    BY <1>3, <1>6, <2>2
  <2> QED BY <2>1, <2>2
<1>9. \A p \in Step(r).ptrs \ (loop[r].left \ {x}) : Found(known'[r], disturbed'[r], p, Step(r).kind)
  BY <1>3, <1>5, <1>6
<1> QED BY <1>1, <1>3, <1>8, <1>9

(* The step under way of a run, in which its scenario goes on.               *)
LEMMA ExecuteChecks ==
  ASSUME FeatureInv, TypeOK, NEW r \in Run, ChecksLast(r), InStep(r), Execute(r, Step(r)),
         Advance(r), scenario'[r] # "idle", disturbed[r] => disturbed'[r]
  PROVE  ChecksLast(r)'
<1> DEFINE s == Step(r)
           k == pc[r].step
<1>1. ~Fails(r) /\ ~Finished(r) /\ k \in Nat
  BY LeaveEnds, PlaceType DEF Fails, InStep, FeatureInv
<1>2. \A p, kind : Found(known[r], disturbed[r], p, kind) => Found(known[r], disturbed'[r], p, kind)
  BY DEF Found
<1>3. CASE loop'[r].kind # "none"
  <2>1. pc'[r] = pc[r]
    BY <1>3 DEF Advance, FeatureInv, Placed
  <2>2. /\ Step(r)' = s /\ Steps(r)' = Steps(r) /\ Checked(r)' = Checked(r)
    BY <2>1 DEF Step, Steps, Checked
  <2>3. CASE s.do = "delete all"
    BY <2>2, <2>3 DEF ChecksLast
  <2>4. CASE s.do = "check"
    <3>1. CheckPointers(r, s.kind, s.ptrs) \/ CheckNext(r)
      BY <2>4, Zenon DEF Execute
    <3>2. CASE CheckPointers(r, s.kind, s.ptrs)
      <4>1. known' = known /\ loop'[r].kind = s.kind /\ loop'[r].left = s.ptrs
        BY <3>2 DEF CheckPointers, TypeOK
      <4>2. \A i \in Checked(r) : \A p \in Steps(r)[i].ptrs :
              Found(known[r], disturbed[r], p, Steps(r)[i].kind)
        BY <2>4 DEF ChecksLast
      <4> QED BY <1>2, <2>2, <4>1, <4>2 DEF ChecksLast
    <3>3. CASE CheckNext(r)
      <4>1. PICK x \in loop[r].left :
           /\ Iterate(r, x)
           /\ loop[r].kind = Step(r).kind /\ loop[r].left \subseteq Step(r).ptrs
           /\ \A i \in Checked(r) : \A p \in Steps(r)[i].ptrs :
                Found(known'[r], disturbed'[r], p, Steps(r)[i].kind)
           /\ \A p \in Step(r).ptrs \ (loop[r].left \ {x}) :
                Found(known'[r], disturbed'[r], p, Step(r).kind)
        BY <1>1, <2>4, <3>3, CheckNextFinds
      <4>2. loop'[r].kind = loop[r].kind /\ loop'[r].left = loop[r].left \ {x}
        BY <1>3, <4>1, IterateLeft
      <4> QED BY <2>2, <4>1, <4>2 DEF ChecksLast
    <3> QED BY <3>1, <3>2, <3>3
  <2> QED BY <1>3, <2>3, <2>4, ExecuteLoop
<1>4. CASE loop'[r].kind = "none"
  <2>1. pc'[r] = NextStep(r)
    BY <1>4 DEF Advance, FeatureInv, Placed
  <2>2. Steps(r)' = Steps(r) /\ pc'[r].step = k + 1
    BY <2>1 DEF Steps, NextStep
  <2>3. SUFFICES ASSUME NEW i \in SinceWrite(Steps(r), k + 1), NEW p \in Steps(r)[i].ptrs
                 PROVE  Found(known'[r], disturbed'[r], p, Steps(r)[i].kind)
    BY <1>4, <2>2 DEF ChecksLast, Checked
  <2>4. /\ s.do \notin Writing \cup {"delete all"}
        /\ (i = k /\ s.do = "check") \/ i \in Checked(r)
    <3>1. Steps(r) \in Seq(StepTexts) /\ k \in DOMAIN Steps(r)
      BY <1>1, StepsType DEF FeatureInv, InStep
    <3> QED BY <3>1, SinceWriteNext DEF Step, Checked
  <2>5. CASE s.do = "check"
    <3>1. CheckPointers(r, s.kind, s.ptrs) \/ CheckNext(r)
      BY <2>5, Zenon DEF Execute
    <3>2. ~CheckPointers(r, s.kind, s.ptrs)
      <4> SUFFICES ASSUME CheckPointers(r, s.kind, s.ptrs) PROVE FALSE
        OBVIOUS
      <4>1. loop'[r].kind = s.kind
        BY DEF CheckPointers, TypeOK
      <4>2. s.kind # "none"
        BY DEF CheckPointers
      <4> QED BY <1>4, <4>1, <4>2
    <3>3. PICK x \in loop[r].left :
           /\ Iterate(r, x)
           /\ loop[r].kind = Step(r).kind /\ loop[r].left \subseteq Step(r).ptrs
           /\ \A j \in Checked(r) : \A q \in Steps(r)[j].ptrs :
                Found(known'[r], disturbed'[r], q, Steps(r)[j].kind)
           /\ \A q \in Step(r).ptrs \ (loop[r].left \ {x}) :
                Found(known'[r], disturbed'[r], q, Step(r).kind)
      BY <1>1, <2>5, <3>1, <3>2, CheckNextFinds
    <3>4. loop[r].left \ {x} = {}
      <4>1. loop[r].kind # "none"
        BY <3>1, <3>2 DEF CheckNext
      <4> QED BY <1>4, <3>3, <4>1 DEF Iterate, TypeOK
    <3>5. CASE i = k
      BY <3>3, <3>4, <3>5 DEF Step
    <3> QED BY <2>4, <3>3, <3>5
  <2>6. CASE s.do # "check"
    <3>1. s.do \notin Writing \cup {"delete all", "check"}
      BY <2>4, <2>6
    <3>2. known' = known
      <4>1. \/ FetchToken(r) \/ SaveToken(r) \/ LoadToken(r)
            \/ RequestsZones(r) \/ RequestsPointer(r, s.ptr) \/ ReadPointersDid(r, s.ptr)
            \/ GetHttp(r, s.code) \/ ContentMatches(r, s.body)
        BY <3>1, Zenon DEF Execute, Writing
      <4> QED BY <1>1, <4>1 DEF FetchToken, SaveToken, LoadToken, RequestsZones,
                   RequestsPointer, ReadPointersDid, Reads, GetHttp, ContentMatches, vars, runVars
    <3>3. Found(known[r], disturbed[r], p, Steps(r)[i].kind)
      BY <2>4, <3>1 DEF ChecksLast
    <3> QED BY <1>2, <3>2, <3>3
  <2> QED BY <2>5, <2>6
<1> QED BY <1>3, <1>4

LEMMA RunStepChecks ==
  ASSUME FeatureInv, TypeOK, NEW r \in Run, ChecksLast(r), RunStep(r)
  PROVE  ChecksLast(r)'
<1>1. ~Finished(r) /\ Advance(r) /\ (disturbed[r] => disturbed'[r])
  BY DEF RunStep, Record
<1>2. CASE scenario'[r] = "idle"
  <2>1. pc'[r].step = 0
    BY <1>1, <1>2 DEF Advance, FeatureInv, Placed, NextScenario
  <2> QED BY <2>1, OutOfSteps
<1>3. CASE InStep(r) /\ Execute(r, Step(r)) /\ scenario'[r] # "idle"
  BY <1>1, <1>3, ExecuteChecks
<1>4. CASE EndScenario(r)
  BY <1>2, <1>4, LeaveEnds DEF EndScenario, Fails
<1>5. CASE pc[r].step = 0 /\ BeginScenario(r)
  <2>1. scenario'[r] # "idle" /\ loop'[r].kind = "none"
    BY <1>5, IdleHasNoLoop DEF BeginScenario, TypeOK, Running
  <2>2. pc'[r].step = 1
    BY <1>1, <1>5, <2>1 DEF Advance, FeatureInv, Placed, NextStep
  <2>3. (Checked(r) = {})'
    <3>1. \A steps \in Seq(StepTexts) : \A i \in DOMAIN steps : ~(i < 1)
      OBVIOUS
    <3>2. Steps(r)' \in Seq(StepTexts)
      BY <1>1, <1>5, <2>1, StepsType DEF Advance, FeatureInv, Placed, NextStep, Steps
    <3> QED BY <2>2, <3>1, <3>2 DEF SinceWrite, Checked
  <2> QED BY <2>1, <2>2, <2>3 DEF ChecksLast
<1> QED BY <1>2, <1>3, <1>4, <1>5 DEF RunStep

LEMMA InitChecks == FeatureInit => CheckInv
<1> SUFFICES ASSUME FeatureInit, NEW r \in Run PROVE ChecksLast(r)
  BY DEF CheckInv
<1>1. pc[r].step = 0
  BY DEF FeatureInit, Start
<1>2. ~(0 \in 1 .. Len(Steps(r)))
  OBVIOUS
<1> QED BY <1>1, <1>2 DEF ChecksLast, InStep

LEMMA NextChecks ==
  ASSUME FeatureInv, TypeOK, CheckInv, [FeatureNext]_featureVars
  PROVE  CheckInv'
<1>1. ASSUME NEW r \in Run, StepOf(r), NEW q \in Run \ {r}, pc'[q] = pc[q],
             disturbed'[q] <=> disturbed[q] \/ store' # store
      PROVE  ChecksLast(q)'
  <2>1. loop'[q] = loop[q]
    BY <1>1, StepFrame
  <2>2. \A p \in Pointer : \/ known'[q][p] = known[q][p]
                           \/ known'[q][p] = "unknown" /\ disturbed'[q]
    BY <1>1, OthersForget
  <2> QED BY <1>1, <2>1, <2>2, StaysChecked DEF CheckInv
<1>2. ASSUME NEW r \in Run, NEW fails, NEW faulty, Advance(r), Record(r, fails, faulty),
             NEW q \in Run \ {r}
      PROVE  pc'[q] = pc[q] /\ (disturbed'[q] <=> disturbed[q] \/ store' # store)
  BY <1>2 DEF Advance, Record, FeatureInv, Placed
<1>3. ASSUME NEW r \in Run, ChecksLast(r)', \A q \in Run \ {r} : ChecksLast(q)'
      PROVE  CheckInv'
  BY <1>3 DEF CheckInv
<1>4. ASSUME NEW r \in Run, RunStep(r) PROVE CheckInv'
  <2>1. StepOf(r) /\ ChecksLast(r)'
    BY <1>4, RunStepIsStep, RunStepChecks DEF FeatureInv, CheckInv
  <2>2. PICK fails : Advance(r) /\ Record(r, fails, FALSE)
    BY <1>4, Zenon DEF RunStep
  <2> QED BY <1>1, <1>2, <1>3, <2>1, <2>2
<1>5. ASSUME NEW r \in Run, NotUpStep(r) \/ StepTimesOut(r) PROVE CheckInv'
  <2>1. StepOf(r) /\ Advance(r) /\ Record(r, TRUE, TRUE)
    BY <1>5, TimeoutIsStep DEF NotUpStep, StepTimesOut, StepOf, FaultStep, FeatureInv
  <2>2. scenario'[r] = "idle"
    BY <1>5, LeaveEnds DEF NotUpStep, NotUp, runVars, StepTimesOut, TimesOut
  <2>3. pc'[r].step = 0
    BY <2>1, <2>2 DEF Advance, FeatureInv, Placed, NextScenario
  <2> QED BY <1>1, <1>2, <1>3, <2>1, <2>3, OutOfSteps
<1>6. ASSUME NEW r \in Run, TokenLost(r) PROVE CheckInv'
  <2>1. UNCHANGED <<store, loop, known, pc>> /\ \A q \in Run : disturbed[q] => disturbed'[q]
    BY <1>6 DEF TokenLost, TokenExpires, TspaFeatureSaves, Record
  <2> QED BY <2>1, StaysChecked DEF CheckInv
<1>7. ASSUME NEW r \in Run, Restart(r) PROVE CheckInv'
  <2>1. pc'[r].step = 0 /\ \A q \in Run \ {r} : pc'[q] = pc[q] /\ disturbed'[q] = disturbed[q]
    BY <1>7 DEF Restart, Start, FeatureInv, Placed, Counted
  <2>2. (known' = known /\ loop' = loop) \/ Leave(r)
    BY <1>7 DEF Restart, Abort, Fails, vars, runVars
  <2>3. \A q \in Run \ {r} : known'[q] = known[q] /\ loop'[q] = loop[q]
    BY <2>2 DEF Leave, TypeOK
  <2>4. \A q \in Run \ {r} : ChecksLast(q)'
    BY <2>1, <2>3, StaysChecked DEF CheckInv
  <2> QED BY <1>3, <2>1, <2>4, OutOfSteps
<1>8. CASE LateWriteLands
  <2>1. loop' = loop /\ pc' = pc /\ known' = Remembered
        /\ \A q \in Run : disturbed'[q] <=> disturbed[q] \/ store' # store
    BY <1>8 DEF LateWriteLands, LateLands
  <2>2. \A q \in Run, p \in Pointer : \/ known'[q][p] = known[q][p]
                                      \/ known'[q][p] = "unknown" /\ disturbed'[q]
    BY <2>1 DEF Remembered, Remember, store
  <2> QED BY <2>1, <2>2, StaysChecked DEF CheckInv
<1>9. CASE UNCHANGED featureVars
  <2>1. UNCHANGED <<loop, known, pc, disturbed>>
    BY <1>9 DEF featureVars, vars, runVars, feature
  <2> QED BY <2>1, StaysChecked DEF CheckInv
<1>10. CASE Stop
  BY <1>9, <1>10 DEF Stop
<1> QED BY <1>4, <1>5, <1>6, <1>7, <1>8, <1>9, <1>10 DEF FeatureNext

LEMMA ChecksHold ==
  ASSUME CheckInv, GivenHolds
  PROVE  WritesAsChecked
<1> SUFFICES ASSUME NEW r \in Run, InStep(r), Step(r).do \in Writing,
                    NEW i \in Checked(r), NEW p \in Steps(r)[i].ptrs
             PROVE  StillAsFound(r, p, Steps(r)[i].kind)
  BY DEF WritesAsChecked
<1>1. Found(known[r], disturbed[r], p, Steps(r)[i].kind)
  BY DEF CheckInv, ChecksLast, Writing
<1> QED BY <1>1 DEF Found, As, StillAsFound, GivenHolds

(* Whatever the feature, however many runs interleave and whatever times out  *)
(* or lands late: when a write is sent, every pointer of every list checked   *)
(* for it was looked at, and is as it was found unless it has been changed    *)
(* since.                                                                  *)
THEOREM WritesGoAsChecked == FeatureSpec => []WritesAsChecked
<1>1. CheckInv /\ (TypeOK /\ FeatureInv) /\ [FeatureNext]_featureVars => CheckInv'
  BY NextChecks
<1> QED BY <1>1, InitChecks, FeatureAlways, FeatureGivensHold, ChecksHold, PTL DEF FeatureSpec
=============================================================================
