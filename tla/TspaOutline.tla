---------------------------- MODULE TspaOutline ----------------------------
(***************************************************************************)
(* A proof outline of the features that write to the TSPA: what a run may    *)
(* find at each of its places, and what it is going to turn into the test     *)
(* data.  The assumptions are about one step of a scenario and one pointer   *)
(* at a time; TLC evaluates them for the real features.  That runs, in any    *)
(* number and however they interleave and fail, keep to the outline is what   *)
(* the invariants say.                                                      *)
(***************************************************************************)
EXTENDS TspaFeature

CONSTANTS
  Outline(_, _),   \* what a run, in a mode, may find at a place
  Settles(_, _)    \* what a run at a place will turn into the test data of a pointer

(* A run that has the TSPA to itself starts on a clean or on a dirty one;    *)
(* runs that share it may find whatever any of them leaves.                 *)
Modes == {"clean", "dirty", "shared"}
Mode(d) == IF d THEN "dirty" ELSE "clean"

End == [scenario |-> Len(Feature) + 1, step |-> 0]
Positions ==
  {End} \cup
  UNION {[scenario : {i}, step : 0 .. Len(Feature[i].steps) + 1] : i \in 1 .. Len(Feature)}

On(k)  == [k EXCEPT !.step = @ + 1]
Off(k) == [scenario |-> k.scenario + 1, step |-> 0]
StepsAt(k)  == Feature[k.scenario].steps
StepAt(k)   == StepsAt(k)[k.step]
Stepping(k) == k.step \in 1 .. Len(StepsAt(k))
Over(k)     == k.step > Len(StepsAt(k))

(* The steps of src/steps/tspa.py and src/steps/keycloak.py.                *)
TspaSteps == {"fetch token", "save token", "load token", "send", "status", "content"}

-----------------------------------------------------------------------------
(* What may be found: under each pointer, and as token, file and answer of    *)
(* the run.                                                                *)

Includes(n, o) ==
  /\ \A p \in Pointer : o.found[p] \subseteq n.found[p]
  /\ o.token \subseteq n.token /\ o.file \subseteq n.file /\ o.answer \subseteq n.answer

Fits(o, found, t, f, a) ==
  (\A p \in Pointer : found[p] \in o.found[p]) /\ t \in o.token /\ f \in o.file /\ a \in o.answer

Finds(found, t, f, a) == [found |-> found, token |-> t, file |-> f, answer |-> a]

(* What there may be after a step, when it passes.                          *)
NotAuthorised == [status |-> 401, message |-> ""]
SendMakes(q, o) ==
  LET found   == o.found[q.ptr]
      allowed == "tspa" \in o.token
      refused == o.token # {"tspa"}
      after   == (IF allowed THEN {Performed(q, e) : e \in found} ELSE {})
                   \cup (IF refused THEN found ELSE {})
      answers == (IF allowed THEN UNION {Answers(q, e) : e \in found} ELSE {})
                   \cup (IF refused THEN {NotAuthorised} ELSE {})
  IN  Finds([p \in Pointer |-> IF p = q.ptr THEN after ELSE o.found[p]],
            o.token, o.file, answers)

Agrees(s, a) == \/ s.do = "status"  /\ a.status = s.code
                \/ s.do = "content" /\ a.message = s.message

StepMakes(s, o) ==
  LET saved == o.file \ {"none"}
  IN  CASE s.do = "fetch token" -> Finds(o.found, {"tspa"}, o.file, o.answer)
        [] s.do = "save token"  -> Finds(o.found, o.token, o.token, o.answer)
        [] s.do = "load token"  -> Finds(o.found, saved, saved, o.answer)
        [] s.do = "send"        -> SendMakes(s.request, o)
        [] s.do \in {"status", "content"} ->
             Finds(o.found, o.token, o.file, {a \in o.answer : Agrees(s, a)})
Onward(k, o) == IF k.step = 0 THEN Finds(o.found, {"none"}, o.file, o.answer)
                ELSE StepMakes(StepAt(k), o)

(* What there is once the scenario is left, and when it may fail.            *)
Skipped(o) == Finds(o.found, {"none"}, o.file, {NoResponse})
CanFail(s, o) ==
  \/ s.do = "load token" /\ "none" \in o.file
  \/ s.do \in {"status", "content"} /\ \E a \in o.answer : ~Agrees(s, a)

(* Which scenarios may fail: when the TSPA is dirty, those of 03.1 and 03.2.  *)
Excused(mode, k) ==
  mode = "shared" \/ (mode = "dirty" /\ Feature[k.scenario].of \in {"03.1", "03.2"})

Leads(mode, k) ==
  LET o == Outline(mode, k)
  IN  /\ Over(k) => Includes(Outline(mode, Off(k)), Skipped(o))
      /\ k.step = 0 \/ (Stepping(k) /\ StepAt(k).do \in TspaSteps) =>
           Includes(Outline(mode, On(k)), Onward(k, o))
      /\ Stepping(k) /\ CanFail(StepAt(k), o) =>
           Excused(mode, k) /\ Includes(Outline(mode, Off(k)), Skipped(o))

Sends(k) == Stepping(k) /\ StepAt(k).do = "send"

(* Whatever one run does to a pointer, the outline of the others that share    *)
(* the TSPA allows for.                                                     *)
Tolerates(k, q) ==
  LET found == Outline("shared", k).found[q.ptr]
  IN  \A e \in found : Performed(q, e) \in found

ASSUME RunAssumption == Run # {}

ASSUME OutlineAssumption ==
  /\ \A found \in Leftover :
       \A mode \in {"shared", Mode(Dirty(found))}, f \in {"none", "zm", "expired"} :
         Fits(Outline(mode, Start), found, "none", f, NoResponse)
  /\ \A mode \in Modes, k \in Positions \ {End} : Leads(mode, k)
  /\ \A k \in Positions, l \in Positions \ {End} : Sends(l) => Tolerates(k, StepAt(l).request)
  /\ \A mode \in {"clean", "dirty"}, p \in Pointer :
       Outline(mode, End).found[p] \subseteq {TestData[p]}

-----------------------------------------------------------------------------
(* What a run will turn into the test data.                                 *)

Gives(k, l) == \A p \in Pointer : Settles(k, p) \subseteq Settles(l, p)

(* A request keeps what its run settles; what another run at l would have     *)
(* settled, one of the two does.                                            *)
SendSettles(k) ==
  LET q == StepAt(k).request
  IN  /\ \A p \in Pointer \ {q.ptr} : Settles(k, p) \subseteq Settles(On(k), p)
      /\ \A e \in Outline("shared", k).found[q.ptr], l \in Positions :
           e \in Settles(l, q.ptr) =>
             Performed(q, e) \in Settles(On(k), q.ptr)
                                   \cup (IF l = k THEN {} ELSE Settles(l, q.ptr))

ASSUME SettlesAssumption ==
  /\ \A found \in Leftover, p \in Pointer : found[p] \in Settles(Start, p)
  /\ \A k \in Positions \ {End} :
       LET o == Outline("shared", k)
       IN  /\ Over(k) \/ (Stepping(k) /\ CanFail(StepAt(k), o)) => Gives(k, Off(k))
           /\ ~Over(k) /\ (Sends(k) => o.token # {"tspa"}) => Gives(k, On(k))
           /\ Sends(k) /\ "tspa" \in o.token => SendSettles(k)
  /\ \A p \in Pointer : Settles(End, p) \subseteq {TestData[p]}

-----------------------------------------------------------------------------
(* The inductive invariants.                                                *)

AtPositions == pc \in [Run -> Positions]

FitsAt(mode, r) == Fits(Outline(mode, pc[r]), entry, token[r], file[r], response[r])

(* A run that is not disturbed finds what the outline says, and only the       *)
(* scenarios that may fail do.                                              *)
KeepsToOutline ==
  \A r \in Run : ~disturbed[r] =>
    /\ FitsAt(Mode(dirty[r]), r)
    /\ failed[r] # {} => dirty[r] /\ failed[r] \subseteq {"03.1", "03.2"}

(* So do runs that disturb each other only, in their mode.                  *)
SharesOutline == faults = 0 => late = {} /\ \A r \in Run : FitsAt("shared", r)

(* What is under a pointer, some run will turn into the test data.           *)
SomeoneSettles ==
  faults = 0 => \A p \in Pointer : \E r \in Run : entry[p] \in Settles(pc[r], p)

OutlineInv == AtPositions /\ KeepsToOutline /\ SharesOutline /\ SomeoneSettles
=============================================================================
