--------------------------- MODULE MCTspaFeature ---------------------------
(* TspaFeature with the features' pointers, and what runs may have left.     *)
EXTENDS TspaFeature, TLC

Nothing == [p \in Pointer |-> Absent]

(* What runs may find under a pointer: any subset of what the features put     *)
(* there, in every order.                                                   *)
MayMeet(p) ==
  {e \in Entry :
    /\ e.list \in IF p = "json-france" THEN {"none", "JSON"}
                  ELSE IF p = "1-europe" THEN {"none"} ELSE {"none", "XML"}
    /\ e.provider # "none" => e.list # "none" /\ p \in {"usa-pointer", "alice"}
    /\ e.provider = "XYZ" => p = "usa-pointer"
    /\ e.published \/ e.did # "none" => p \in {"1-europe", "alice"}
    /\ e.did \in GoodDid \cup {"none"}
    /\ e.did = "did:key" => p = "1-europe"}

(* Once no run is under way, a DID is under a pointer that is published.     *)
MayHold(p) == {e \in MayMeet(p) : e.did # "none" => e.published}
AnyLeftover ==
  {"1-europe" :> a @@ "xml-germany" :> b @@ "json-france" :> c @@
   "usa-pointer" :> d @@ "alice" :> e @@ "bob" :> f :
     a \in MayHold("1-europe"), b \in MayHold("xml-germany"), c \in MayHold("json-france"),
     d \in MayHold("usa-pointer"), e \in MayHold("alice"), f \in MayHold("bob")}

(* Of these the smallest, the largest and those in between that matter to a *)
(* pair of runs.                                                           *)
Left(p) == CHOOSE e \in MayHold(p) :
             /\ e.published = (p \in {"1-europe", "alice"})
             /\ e.list = "none" <=> p = "1-europe"
             /\ e.did = "did:web" <=> e.published
             /\ e.provider = "Company-A" <=> p \in {"usa-pointer", "alice"}
SomeLeftover == {Nothing, [p \in Pointer |-> Left(p)]}
=============================================================================
