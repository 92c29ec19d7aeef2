---------------------------- MODULE MCZoneSteps ----------------------------
(* ZoneSteps on small instances: what may be left in the ZM server is every *)
(* store in which only pointers of its domain hold anything.               *)
EXTENDS ZoneSteps, TLC

AnyLeftover ==
  {s \in Stores : \A p \in Pointer \ InDomain : s.schemes[p] = {} /\ s.dids[p] = NoDid}

RunSymmetry == Permutations(Run)
=============================================================================
