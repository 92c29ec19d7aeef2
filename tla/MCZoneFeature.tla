--------------------------- MODULE MCZoneFeature ---------------------------
(* ZoneFeature with the scenarios of ZoneScript. *)
EXTENDS ZoneFeature, ZoneScript, TLC

EmptyStore == [schemes |-> [p \in Pointer |-> {}], dids |-> [p \in Pointer |-> NoDid]]

(* What a run interrupted after [07], and after [12], has left. *)
TreesLeft ==
  [EmptyStore EXCEPT !.schemes = [p \in Pointer |->
     IF p = "1-europe" THEN Europe ELSE IF p = "1-america" THEN America ELSE {}]]
AllLeft ==
  [TreesLeft EXCEPT !.dids = [p \in Pointer |->
     LET rows == {i \in DOMAIN PointerDid : PointerDid[i].ptr = p}
     IN  IF rows = {} THEN NoDid ELSE PointerDid[CHOOSE i \in rows : TRUE].did]]
(* What two overlapping runs can leave: the DIDs without their pointers.     *)
DidsLeft == [AllLeft EXCEPT !.schemes = EmptyStore.schemes]
LeftByARun == {EmptyStore, TreesLeft, AllLeft, DidsLeft}
OnlyEmpty  == {EmptyStore}

RunSymmetry == Permutations(Run)

-----------------------------------------------------------------------------
(* A selection of the scenarios, as behave's tags and names can make: one    *)
(* continent, created, bound, unbound and torn down.                        *)
EuropeFeature ==
  <<S02, S03, S04, S06, S12(PointerDid[1]), S16("1-europe"), S17("1-europe")>>
EuropeDid == {PointerDid[1].did}
=============================================================================
