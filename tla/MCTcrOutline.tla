---------------------------- MODULE MCTcrOutline ----------------------------
(* TcrFeature with the features 04.0 to 05, whatever the two pointers they    *)
(* know may hold, and environments with one client set otherwise; and the     *)
(* least outline of these features.                                         *)
EXTENDS MCTspaOutline, TcrOutline, TcrScript

TcrPointers == {"alice", "bob"}

Full(d) == [list |-> "XML", provider |-> "Company-A", published |-> TRUE, did |-> d]
Leftovers ==
  {Nothing, [p \in Pointer |-> IF p = "bob" THEN [Absent EXCEPT !.list = "XML"]
                               ELSE Full("did:web")]}

Native == [c \in Clients |->
  [type |-> CASE c = "Java" -> "jar" [] c = "Golang" -> "unset" [] OTHER -> "script",
   path |-> TRUE, image |-> FALSE]]
(* What makes a client's runner another one, or none.                      *)
Others == {[type |-> "docker", path |-> FALSE, image |-> TRUE],
           [type |-> "script", path |-> FALSE, image |-> TRUE]}
OneOther == {Native} \cup {[Native EXCEPT ![c] = e] : c \in Clients, e \in Others}

-----------------------------------------------------------------------------
(* The server is asked what it can answer, and does.                         *)
TcrOnward(k, o) ==
  IF ~Stepping(k) \/ StepAt(k).do \in TspaSteps THEN Onward(k, o)
  ELSE IF StepAt(k).do # "ask server" THEN o
  ELSE Finds(o.found, o.token, o.file,
             {[status |-> 200, message |-> IF StepAt(k).op = "resolve" THEN "alice resolved"
                                           ELSE "other"]})
TcrOutlines == Outlines(TcrOnward)
TcrSettles  == The({SettledBy(shared) : shared \in {TcrOutlines["shared"]}})

ContextsIn(e, i) ==
  LET From[j \in 1 .. Len(Feature[i].steps) + 1] ==
        LET s == Feature[i].steps[j - 1]
        IN  IF j = 1 THEN {IF "kind" \in DOMAIN Feature[i] THEN Defaults ELSE NoContext}
            ELSE IF s.do \in TspaSteps THEN From[j - 1]
            ELSE UNION {ContextMakes(e, s, c) : c \in From[j - 1]}
  IN  From
TcrContexts == [e \in Environments |-> [i \in 1 .. Len(Feature) |-> ContextsIn(e, i)]]

TcrOutlineAt(mode, k) == TcrOutlines[mode][k]
TcrSettlesAt(k, p)    == TcrSettles[k][p]
TcrContextsAt(e, k)   == TcrContexts[e][k.scenario][k.step]
=============================================================================
