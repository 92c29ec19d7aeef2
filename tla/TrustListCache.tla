--------------------------- MODULE TrustListCache ---------------------------
(***************************************************************************)
(* The module-level cache of src/src/eu/xfsc/bdd/train/models/trust_list.py. *)
(* The lists are mocked, so an instance is only told from another by the     *)
(* fetch that made it.                                                     *)
(***************************************************************************)
EXTENDS Naturals

CONSTANT MaxFetches   \* bound on the instances made

VARIABLES CACHE,      \* _CACHE, 0 for None, else the number of the instance
          made,       \* instances made so far
          last        \* the last call of fetch: its argument and its result

vars == <<CACHE, made, last>>

None == 0
Init == CACHE = None /\ made = 0 /\ last = [cache |-> FALSE, list |-> None]

Length(list) == 0   \* __len__, mocked
(* An object with a length is true if that is not 0.                       *)
Truthy(list) == list # None /\ Length(list) # 0

Fetch(cache) ==
  /\ IF cache /\ Truthy(CACHE)
     THEN UNCHANGED <<CACHE, made>>
     ELSE made < MaxFetches /\ made' = made + 1 /\ CACHE' = made'
  /\ last' = [cache |-> cache, list |-> CACHE']

Done == made = MaxFetches /\ UNCHANGED vars
Next == Fetch(TRUE) \/ Fetch(FALSE) \/ Done

Spec == Init /\ [][Next]_vars

-----------------------------------------------------------------------------
(* trust_list.py:32: "Reuse cached instance if fetched previously else fetch *)
(* from remote" (line 34: "always fetch if set as false").                  *)
ReusesCached == [][last'.cache /\ CACHE # None => last'.list = CACHE]_vars
=============================================================================
