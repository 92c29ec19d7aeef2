----------------------------- MODULE TrustStore -----------------------------
(***************************************************************************)
(* The TSPA server the features 03.1, 03.2 and 04.0 talk to, as far as       *)
(* src/src/eu/xfsc/bdd/train/components/tspa/server.py sends requests to it   *)
(* and the features say what it answers.  It is a service of another        *)
(* repository, and writes pointers and DIDs through to the ZM server.        *)
(*                                                                         *)
(* Of a trust list matters in which format it was put there and which data  *)
(* the provider in it has; the features know only one provider's UUID.      *)
(***************************************************************************)
EXTENDS Naturals

CONSTANTS Pointer,   \* the pointers the features name
          Did,       \* the DIDs they bind
          GoodDid    \* those the TSPA takes (method and well-known verified)

ASSUME GoodDidAssumption == GoodDid \subseteq Did /\ "none" \notin Did

VARIABLE entry   \* entry[p]: everything the TSPA has under p

Lists     == {"none", "XML", "JSON"}
Providers == {"none", "Company-A", "XYZ"}
Entry     == [list : Lists, provider : Providers, published : BOOLEAN,
              did : Did \cup {"none"}]
Absent    == [list |-> "none", provider |-> "none", published |-> FALSE, did |-> "none"]

-----------------------------------------------------------------------------
(* The requests of the client.                                             *)

Ask(op, p, body) == [op |-> op, ptr |-> p, body |-> body]

CreatePointer(p)    == Ask("create pointer", p, "none")
CreateDid(p, d)     == Ask("create did", p, d)
RemoveDid(p)        == Ask("remove did", p, "none")
RemovePointer(p)    == Ask("remove pointer", p, "none")
CreateAsXml(p, data)  == Ask("init XML", p, data)
CreateAsJson(p, data) == Ask("init JSON", p, data)
ReadTrustList(p)    == Ask("read list", p, "none")
ReadVc(p)           == Ask("read vc", p, "none")
RemoveTrustList(p)  == Ask("remove list", p, "none")
PublishTsp(p, data) == Ask("publish tsp", p, data)
UpdateTsp(p, data)  == Ask("update tsp", p, data)
DeleteTsp(p)        == Ask("delete tsp", p, "none")

Inits   == {"init XML", "init JSON"}
Creates == {"create pointer", "create did", "publish tsp"} \cup Inits
Removes == {"remove did", "remove pointer"}
Request ==
  [op : {"create pointer", "read list", "read vc", "remove list", "delete tsp"} \cup Removes,
   ptr : Pointer, body : {"none"}]
  \cup [op : {"create did"}, ptr : Pointer, body : Did]
  \cup [op : Inits, ptr : Pointer, body : {"valid", "invalid"}]
  \cup [op : {"publish tsp", "update tsp"}, ptr : Pointer, body : {"Company-A", "XYZ"}]

-----------------------------------------------------------------------------
(* What the features expect of it, with e under the pointer of the request.  *)
(* An initial list is refused if there is one (03.1 [06.3]), a provider if    *)
(* there is one (03.2 [3]); to remove a list that is not there is no error    *)
(* (03.1 [10.2]).                                                          *)
Accepts(q, e) ==
  \/ q.op \in {"create pointer", "remove list"} \cup Removes
  \/ q.op = "create did" /\ q.body \in GoodDid
  \/ q.op \in Inits /\ q.body = "valid" /\ e.list = "none"
  \/ q.op \in {"read list", "read vc"} /\ e.list # "none"
  \/ q.op = "publish tsp" /\ e.list # "none" /\ e.provider = "none"
  \/ q.op \in {"update tsp", "delete tsp"} /\ e.provider # "none"

(* What a message says, as far as the features tell messages apart.         *)
Message(q, e) ==
  CASE q.op = "remove list" -> IF e.list = "none" THEN "not available" ELSE "deleted"
    [] q.op = "read list" /\ Accepts(q, e) -> e.list
    [] q.op \in Inits /\ q.body # "valid" -> "validation failed"
    [] OTHER -> IF Accepts(q, e) THEN "done" ELSE "refused"

(* Nothing says what removing an absent DID or pointer is answered.         *)
Answers(q, e) ==
  {[status |-> IF ~Accepts(q, e) THEN 400 ELSE IF q.op \in Creates THEN 201 ELSE 200,
    message |-> Message(q, e)]}
  \cup {[status |-> 400, message |-> "refused"] :
          op \in {o \in Removes : q.op = o /\ ~e.published}}

After(q, e) ==
  CASE q.op = "create pointer" -> [e EXCEPT !.published = TRUE]
    [] q.op = "create did"     -> [e EXCEPT !.did = q.body]
    [] q.op = "remove did"     -> [e EXCEPT !.did = "none"]
    [] q.op = "remove pointer" -> [e EXCEPT !.published = FALSE, !.did = "none"]
    [] q.op = "init XML"       -> [e EXCEPT !.list = "XML"]
    [] q.op = "init JSON"      -> [e EXCEPT !.list = "JSON"]
    [] q.op = "remove list"    -> [e EXCEPT !.list = "none", !.provider = "none"]
    [] q.op \in {"publish tsp", "update tsp"} -> [e EXCEPT !.provider = q.body]
    [] q.op = "delete tsp"     -> [e EXCEPT !.provider = "none"]
    [] OTHER                   -> e

Performed(q, e) == IF Accepts(q, e) THEN After(q, e) ELSE e
Perform(q) == entry' = [entry EXCEPT ![q.ptr] = Performed(q, @)]
=============================================================================
