---------------------------- MODULE ZoneManager ----------------------------
(***************************************************************************)
(* The DNS Zone Manager (ZM) the features talk to.  It is a service of      *)
(* another repository: this module states only what the steps of           *)
(* src/steps/dns_zone_manager_server.py and the expected answers of        *)
(* "src/features/01.1 DNS Zone Manager Server.feature" say of it.          *)
(*                                                                         *)
(* A trust framework pointer is present when it has a non-empty list of    *)
(* schemes; a DID is bound to a pointer independently of that list.        *)
(* Writes are serialised by the service's database (sqlite, feature line   *)
(* 277), so each write is one atomic step.                                 *)
(***************************************************************************)
EXTENDS Naturals

CONSTANTS Pointer,   \* the pointers a feature can name
          InDomain,  \* those under the domain the service is authoritative for
          Did,       \* the decentralised identifiers a feature can bind
          NoDid      \* "no DID is bound"

ASSUME PointerAssumption == InDomain \subseteq Pointer
ASSUME NoDidAssumption   == NoDid \notin Did

VARIABLES schemes,   \* schemes[p]: the pointers listed under p, {} when p is absent
          dids       \* dids[p]: the DID bound to p, or NoDid

store == <<schemes, dids>>

Stores == [schemes : [Pointer -> SUBSET Pointer],
           dids    : [Pointer -> Did \cup {NoDid}]]

StoreTypeOK == /\ schemes \in [Pointer -> SUBSET Pointer]
               /\ dids    \in [Pointer -> Did \cup {NoDid}]

Exists == {p \in Pointer : schemes[p] # {}}

-----------------------------------------------------------------------------
(* The four writing requests.  A field a request does not carry is {} or    *)
(* NoDid.                                                                   *)

PutSchemes(p, P) == [op |-> "put schemes",    ptr |-> p, members |-> P,  did |-> NoDid]
PutDid(p, d)     == [op |-> "put did",        ptr |-> p, members |-> {}, did |-> d]
DeleteSchemes(p) == [op |-> "delete schemes", ptr |-> p, members |-> {}, did |-> NoDid]
DeleteDid(p)     == [op |-> "delete did",     ptr |-> p, members |-> {}, did |-> NoDid]

Write ==
  [op : {"put schemes"}, ptr : Pointer, members : (SUBSET Pointer) \ {{}}, did : {NoDid}]
    \cup [op : {"put did"}, ptr : Pointer, members : {{}}, did : Did]
    \cup [op : {"delete schemes", "delete did"}, ptr : Pointer, members : {{}}, did : {NoDid}]

(* Feature scenarios [11], [15]: a name outside the domain cannot be written, *)
(* and what is not there cannot be deleted.                                  *)
Accepts(w) ==
  \/ w.op \in {"put schemes", "put did"} /\ w.ptr \in InDomain
  \/ w.op = "delete schemes" /\ schemes[w.ptr] # {}
  \/ w.op = "delete did"     /\ dids[w.ptr] # NoDid

Status(w) == IF ~Accepts(w) THEN 404
             ELSE IF w.op \in {"put schemes", "put did"} THEN 200 ELSE 204

(* Scenarios [17] to [19]: deleting a pointer also unbinds the DIDs of the  *)
(* pointers it lists.                                                       *)
Store(w) ==
  \/ /\ Accepts(w) /\ w.op = "put schemes"
     /\ schemes' = [schemes EXCEPT ![w.ptr] = w.members]
     /\ UNCHANGED dids
  \/ /\ Accepts(w) /\ w.op = "put did"
     /\ dids' = [dids EXCEPT ![w.ptr] = w.did]
     /\ UNCHANGED schemes
  \/ /\ Accepts(w) /\ w.op = "delete schemes"
     /\ schemes' = [schemes EXCEPT ![w.ptr] = {}]
     /\ dids' = [p \in Pointer |->
                   IF p \in schemes[w.ptr] \cup {w.ptr} THEN NoDid ELSE dids[p]]
  \/ /\ Accepts(w) /\ w.op = "delete did"
     /\ dids' = [dids EXCEPT ![w.ptr] = NoDid]
     /\ UNCHANGED schemes
  \/ ~Accepts(w) /\ UNCHANGED store
=============================================================================
