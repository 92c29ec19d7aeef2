---------------------------- MODULE ZoneOutline ----------------------------
(***************************************************************************)
(* A proof outline of feature 01.1: what a run that nobody disturbs may find  *)
(* at each of its places, which tokens any run may have there, and which      *)
(* pointers it is still going to delete.  The assumptions are about one step  *)
(* of a scenario at a time; TLC evaluates them for the real feature.  That    *)
(* runs, in any number and however they interleave, fail and are started     *)
(* again, keep to the outline is what the invariants say.                    *)
(***************************************************************************)
EXTENDS ZoneFeature

CONSTANTS
  Foreseen(_),   \* what a run that is not disturbed may find at a place
  Tokens(_),     \* the tokens any run may have there, in memory and in the file
  Clears(_)      \* the pointers a run at a place is going to delete

End == [scenario |-> Len(Feature) + 1, step |-> 0]
Positions ==
  {End} \cup
  UNION {[scenario : {i}, step : 0 .. Len(Feature[i]) + 1] : i \in 1 .. Len(Feature)}

On(k)  == [scenario |-> k.scenario, step |-> k.step + 1]
Off(k) == [scenario |-> k.scenario + 1, step |-> 0]
StepAt(k)   == Feature[k.scenario][k.step]
Stepping(k) == k.step \in 1 .. Len(Feature[k.scenario])
Over(k)     == k.step > Len(Feature[k.scenario])

-----------------------------------------------------------------------------
(* What may be found: under each pointer, and as token, file and response.    *)
Finds(s, d, t, f, a) == [schemes |-> s, dids |-> d, token |-> t, file |-> f, response |-> a]

Includes(n, o) ==
  /\ \A p \in Pointer : o.schemes[p] \subseteq n.schemes[p] /\ o.dids[p] \subseteq n.dids[p]
  /\ o.token \subseteq n.token /\ o.file \subseteq n.file /\ o.response \subseteq n.response

StoreFits(o, s, d) == \A p \in Pointer : s[p] \in o.schemes[p] /\ d[p] \in o.dids[p]
Fits(o, s, d, t, f, a) ==
  StoreFits(o, s, d) /\ t \in o.token /\ f \in o.file /\ a \in o.response

(* The listings there may be.                                              *)
Listings(o) ==
  {B \in SUBSET Pointer : \A p \in Pointer : \E S \in o.schemes[p] : p \in B <=> S # {}}
Bodies(s, o) ==
  CASE s.do = "read zones"   -> Listings(o)
    [] s.do = "read pointer" -> o.schemes[s.ptr]
    [] s.do = "read did"     -> {{d} \ {NoDid} : d \in o.dids[s.ptr]}

(* The write of a step, and what there may be after it.                      *)
WriteOf(s) ==
  CASE s.do = "create pointers" -> PutSchemes(s.ptr, s.ptrs)
    [] s.do = "create did"      -> PutDid(s.ptr, s.did)
    [] s.do = "remove pointer"  -> DeleteSchemes(s.ptr)
    [] s.do = "remove did"      -> DeleteDid(s.ptr)
Reading == {"read zones", "read pointer", "read did"}

SchemesAfter(w, o, p) ==
  IF p # w.ptr THEN o.schemes[p]
  ELSE CASE w.op = "put schemes" /\ p \in InDomain -> {w.members}
         [] w.op = "delete schemes" -> {{}}
         [] OTHER -> o.schemes[p]
DidsAfter(w, o, p) ==
  CASE w.op = "put did" /\ p = w.ptr /\ p \in InDomain -> {w.did}
    [] w.op = "delete did" /\ p = w.ptr -> {NoDid}
    [] w.op = "delete schemes" ->
         UNION {IF S # {} /\ p \in S \cup {w.ptr} THEN {NoDid} ELSE o.dids[p] :
                S \in o.schemes[w.ptr]}
    [] OTHER -> o.dids[p]
Statuses(w, o) ==
  CASE w.op \in {"put schemes", "put did"} -> {IF w.ptr \in InDomain THEN 200 ELSE 404}
    [] w.op = "delete schemes" -> {IF S # {} THEN 204 ELSE 404 : S \in o.schemes[w.ptr]}
    [] w.op = "delete did" -> {IF d # NoDid THEN 204 ELSE 404 : d \in o.dids[w.ptr]}

(* What there is after a step that passes, and when it does for sure.        *)
Authorises(o) == o.token \subseteq {"zm"}
TokenAfter(s, o) ==
  CASE s.do = "fetch token" -> {"zm"}
    [] s.do = "load token"  -> o.file \ {"none"}
    [] OTHER                -> o.token
FileAfter(s, o) == IF s.do = "save token" THEN o.token ELSE o.file
ResponseAfter(s, o) ==
  CASE s.do \in Writing -> [status : Statuses(WriteOf(s), o), body : {{}}]
    [] s.do \in Reading ->
         (IF "zm" \in o.token THEN [status : {200}, body : Bodies(s, o)] ELSE {})
           \cup (IF Authorises(o) THEN {} ELSE [status : {403}, body : {{}}])
    [] s.do = "delete all" -> [status : {200}, body : Listings(o)]
    [] OTHER -> o.response
SchemesMade(s, o, p) ==
  CASE s.do \in Writing   -> SchemesAfter(WriteOf(s), o, p)
    [] s.do = "delete all" -> {{}}
    [] OTHER               -> o.schemes[p]
DidsMade(s, o, p) ==
  CASE s.do \in Writing   -> DidsAfter(WriteOf(s), o, p)
    [] s.do = "delete all" -> o.dids[p] \cup {NoDid}
    [] OTHER               -> o.dids[p]
StepMakes(s, o) ==
  Finds([p \in Pointer |-> SchemesMade(s, o, p)], [p \in Pointer |-> DidsMade(s, o, p)],
        TokenAfter(s, o), FileAfter(s, o), ResponseAfter(s, o))

Passes(s, o) ==
  /\ s.do = "load token" => "none" \notin o.file
  /\ s.do \in Writing \cup {"delete all", "check"} => Authorises(o)
  /\ s.do = "check" =>
       \A p \in s.ptrs : \A S \in o.schemes[p] : (s.kind = "exists") = (S # {})
  /\ s.do = "get http" => \A a \in o.response : a.status = s.code
  /\ s.do = "content"  => \A a \in o.response : a.status # 0 /\ a.body = s.body

Begun(o) == Finds(o.schemes, o.dids, {"none"}, o.file, o.response)
Ended(o) == Finds(o.schemes, o.dids, {"none"}, o.file, {NoResponse})

Leads(k) ==
  LET o == Foreseen(k)
  IN  /\ k.step = 0 => Includes(Foreseen(On(k)), Begun(o))
      /\ Stepping(k) =>
           Passes(StepAt(k), o) /\ Includes(Foreseen(On(k)), StepMakes(StepAt(k), o))
      /\ Over(k) => Includes(Foreseen(Off(k)), Ended(o))

(* No write of the feature leads out of what a run may start with.           *)
Foresees(o, w) ==
  /\ w.op = "put schemes" /\ w.ptr \in InDomain => w.members \in o.schemes[w.ptr]
  /\ w.op = "put did" /\ w.ptr \in InDomain => w.did \in o.dids[w.ptr]

ASSUME OutlineAssumption ==
  /\ \A f \in Token, s \in Leftover :
       Fits(Foreseen(Start), s.schemes, s.dids, "none", f, NoResponse)
  /\ \A f \in Token :
       Fits(Foreseen(Start), [p \in Pointer |-> {}], [p \in Pointer |-> NoDid],
            "none", f, NoResponse)
  /\ \A k \in Positions \ {End} :
       /\ Leads(k)
       /\ Stepping(k) /\ StepAt(k).do \in Writing => Foresees(Foreseen(Start), WriteOf(StepAt(k)))
  /\ \A p \in Pointer :
       Foreseen(End).schemes[p] \subseteq {{}} /\ Foreseen(End).dids[p] \subseteq {NoDid}

-----------------------------------------------------------------------------
(* Runs that disturb each other fail in many ways; what each does to the      *)
(* pointers in the end depends on its tokens only.                          *)
MayFail(s, t) ==
  \/ s.do = "load token" /\ "none" \in t.file
  \/ s.do \in {"delete all", "check", "get http", "content"}

Has(t, token_, file_) == token_ \in t.token /\ file_ \in t.file
Gets(k, token_, file_) == token_ \subseteq Tokens(k).token /\ file_ \subseteq Tokens(k).file

ASSUME TokensAssumption ==
  /\ Gets(Start, {"none"}, Token)
  /\ \A k \in Positions \ {End} :
       LET t == Tokens(k)
       IN  /\ k.step = 0 => Gets(On(k), {"none"}, t.file)
           /\ Stepping(k) => Gets(On(k), TokenAfter(StepAt(k), t), FileAfter(StepAt(k), t))
           /\ Over(k) \/ (Stepping(k) /\ MayFail(StepAt(k), t)) => Gets(Off(k), {"none"}, t.file)

(* What a step deletes it need not delete again, what it creates it must.     *)
Deleted(s, t) == IF s.do = "remove pointer" /\ t.token \subseteq {"zm"} THEN {s.ptr} ELSE {}
Created(s) == IF s.do = "create pointers" THEN {s.ptr} \cap InDomain ELSE {}
ClearsOn(k) ==
  (Clears(k) \ Deleted(StepAt(k), Tokens(k))) \cup Created(StepAt(k)) \subseteq Clears(On(k))

ASSUME ClearsAssumption ==
  /\ \A s \in Leftover, p \in Pointer : s.schemes[p] # {} => p \in Clears(Start)
  /\ \A k \in Positions : Clears(k) \subseteq Clears(Start)
  /\ \A k \in Positions \ {End} :
       /\ k.step = 0 => Clears(k) \subseteq Clears(On(k))
       /\ Stepping(k) => ClearsOn(k)
       /\ Over(k) \/ (Stepping(k) /\ MayFail(StepAt(k), Tokens(k))) =>
            Clears(k) \subseteq Clears(Off(k))
  /\ Clears(End) = {}

ASSUME RunAssumption == Run # {}

-----------------------------------------------------------------------------
(* The inductive invariant.                                                 *)

AtPositions == pc \in [Run -> Positions]

(* Outside of a scenario there is no context.                               *)
IdleIsBare ==
  \A r \in Run : scenario[r] = "idle" => token[r] = "none" /\ response[r] = NoResponse

(* Whoever wrote it, what is in the store is what a run may start with.       *)
InBounds ==
  StoreFits(Foreseen(Start), schemes, dids) /\ \A w \in late : Foresees(Foreseen(Start), w)

(* A run that is not disturbed finds what the outline says and does not fail; *)
(* while it deletes what it listed, that is what there still is.             *)
FitsAt(o, r) == Fits(o, schemes, dids, token[r], file[r], response[r])
Deleting(n, r) ==
  /\ Fits(n, [p \in Pointer |-> {}], dids, token[r], file[r], response[r])
  /\ token[r] = "zm" /\ loop[r].left = Exists
Checking(s, r) == loop[r].kind # "none" => loop[r].kind = s.kind /\ loop[r].left \subseteq s.ptrs
Keeps(r) ==
  /\ ~failed[r]
  /\ IF loop[r].kind = "delete all" THEN Deleting(Foreseen(On(pc[r])), r)
     ELSE FitsAt(Foreseen(pc[r]), r) /\ Checking(Step(r), r)
KeepsToOutline == \A r \in Run : ~disturbed[r] => Keeps(r)

(* Without faults, what is under a pointer some run is going to delete.       *)
SomeoneClears ==
  faults = 0 =>
    /\ late = {} /\ \A r \in Run : Has(Tokens(pc[r]), token[r], file[r])
    /\ \A p \in Exists : \E r \in Run : p \in Clears(pc[r])

ZoneOutlineInv == AtPositions /\ IdleIsBare /\ InBounds /\ KeepsToOutline /\ SomeoneClears
=============================================================================
