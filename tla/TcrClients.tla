----------------------------- MODULE TcrClients -----------------------------
(***************************************************************************)
(* The four command line clients of the TCR, and the direct REST call: which *)
(* runner the environment selects for a client, how the inputs of a          *)
(* scenario travel to the TCR, and what comes back                         *)
(* (src/src/eu/xfsc/bdd/train/components/tcr/client).                        *)
(*                                                                         *)
(* An input is a function on the names of the context's attributes that are *)
(* set.  The TCR and the clients themselves are other repositories.         *)
(***************************************************************************)
EXTENDS Naturals, Sequences

CONSTANT Quoted   \* the texts that hold a single quote

Clients == {"Python", "Java", "JavaScript", "Golang"}

(* The variables of env.py for one client: its type (lower-cased, as it is   *)
(* compared), and whether a path and an image are set.                     *)
Setting == [type : {"unset", "script", "jar", "docker", "podman"},
            path : BOOLEAN, image : BOOLEAN]

Select(native, e) ==
  CASE e.type = native /\ e.path -> "native"
    [] e.type \in {"docker", "podman"} /\ e.image -> "container"
    [] OTHER -> "none"

PyRunner(e)     == Select("script", e)
JsRunner(e)     == Select("script", e)
JavaRunner(e)   == Select("jar", e)
GolangRunner(e) == IF e.path THEN "native" ELSE "none"
Runner(c, e) == CASE c = "Python"     -> PyRunner(e)
                  [] c = "JavaScript" -> JsRunner(e)
                  [] c = "Java"       -> JavaRunner(e)
                  [] c = "Golang"     -> GolangRunner(e)

-----------------------------------------------------------------------------
(* The ways of an input to the TCR.                                        *)

ResolveInputs  == {"issuer", "pointers", "endpointTypes"}
ValidateInputs == {"issuer", "did", "endpoints"}
Names(op) == IF op = "resolve" THEN ResolveInputs ELSE ValidateInputs
Only(in, names) == [n \in names |-> in[n]]

(* JSON, of the REST call and of the Java and Go clients: endpoint types     *)
(* only if there are any.                                                  *)
Payload_NoTypes(in) == Only(in, {"issuer", "pointers"})   \* mutant: never any
Payload(in) ==
  Only(in, {"issuer", "pointers"}
             \cup {n \in {"endpointTypes"} : in.endpointTypes # {}})
ValidatePayload(in) == Only(in, ValidateInputs)

(* Options with --, of the Python and JavaScript clients: one option per     *)
(* member of a set.                                                        *)
Options(in) ==
  {<<"issuer", in.issuer>>} \cup ({"trust-scheme-pointer"} \X in.pointers)
                            \cup ({"endpoint-type"} \X in.endpointTypes)
ValidateOptions(in) ==
  {<<"issuer", in.issuer>>, <<"did", in.did>>} \cup ({"endpoint"} \X in.endpoints)

Question(op, issuer, pointers, types, did, endpoints) ==
  [op |-> op, issuer |-> issuer, pointers |-> pointers, types |-> types,
   did |-> did, endpoints |-> endpoints]
NoQuestion == Question("none", "none", {}, {}, "none", {})

(* What the TCR reads from either.                                         *)
FromPayload(op, j) ==
  LET Field(n, default) == IF n \in DOMAIN j THEN j[n] ELSE default
  IN  Question(op, Field("issuer", "none"), Field("pointers", {}),
              Field("endpointTypes", {}), Field("did", "none"), Field("endpoints", {}))
FromOptions(op, o) ==
  LET All(n) == {x[2] : x \in {y \in o : y[1] = n}}
      One(n) == IF All(n) = {} THEN "none" ELSE CHOOSE x \in All(n) : TRUE
  IN  Question(op, One("issuer"), All("trust-scheme-pointer"), All("endpoint-type"),
              One("did"), All("endpoint"))

ServerAsks(op, in) ==
  FromPayload(op, IF op = "resolve" THEN Payload(in) ELSE ValidatePayload(in))

(* Each client writes its inputs between single quotes, and no client escapes *)
(* the quotes of a text.  With one of them the quoted word ends early: bash    *)
(* refuses the command, or hands on words the scenario did not say.          *)
Said(name, value) == IF name \in {"issuer", "did"} THEN {value} ELSE value
Spoken(op, in)    == UNION {Said(n, in[n]) : n \in Names(op)}
Garbled == Question("garbled", "none", {}, {}, "none", {})

ClientAsks(c, op, in) ==
  IF Spoken(op, in) \cap Quoted # {} THEN Garbled
  ELSE IF c \in {"Java", "Golang"} THEN ServerAsks(op, in)
  ELSE FromOptions(op, IF op = "resolve" THEN Options(in) ELSE ValidateOptions(in))

-----------------------------------------------------------------------------
(* What a client prints.  "resolved" carries a resolve response; the others  *)
(* are told apart by the steps that judge them.                            *)

NoDoc    == [trust_scheme_pointers |-> <<>>, resolved_results |-> <<>>]
Resolved(p, dids, endpoints) ==
  [trust_scheme_pointers |-> <<[pointer |-> p, dids |-> dids]>>,
   resolved_results |-> IF dids = {} THEN <<>>
     ELSE <<[did |-> "did:web", resolved_doc |-> [present |-> TRUE, endpoints |-> endpoints]]>>]

Text(kind)      == [kind |-> kind, response |-> NoDoc]
Json(response)  == [kind |-> "resolved", response |-> response]
Outcome(code, out, err) == [code |-> code, stdout |-> out, stderr |-> err]

(* What each client says on stderr of a TCR that answers 510 (feature 05,    *)
(* scenario "TCR client Validate failed with 501").                        *)
Complaint == [c \in Clients |-> Text(CASE c = "Python"     -> "did_error"
                                       [] c = "Java"       -> "510 Not Extended"
                                       [] c = "JavaScript" -> "nothing"
                                       [] c = "Golang"     -> "510 line")]
Complaints == {Complaint[c] : c \in Clients}
Success(text) == Outcome(0, text, Text("nothing"))

(* What may come back when something is wrong with the TCR, the network or   *)
(* the client: half an answer, no JSON at all, a complaint with whatever exit *)
(* code, or an error after an answer.                                       *)
AnyText == {Text(k) : k \in {"nothing", "verified", "not verified", "other"}}
            \cup Complaints
            \cup {Json(NoDoc), Json(Resolved("alice", {}, {})),
                  Json(Resolved("alice", {"did:web"}, {FALSE})),
                  Json(Resolved("alice", {"did:web"}, {TRUE}))}
AnyOutcome == {Success(t) : t \in AnyText}
               \cup {Outcome(1, t, e) : t \in AnyText,
                                       e \in {Text("nothing"), Text("other")} \cup Complaints}

(* What the features expect of the TCR: of alice, provisioned and nothing    *)
(* else, one DID with a trust list; of gxfs a DID whose endpoints are not of  *)
(* the type wrong-typ; of two pointers nobody configured no DID.  Whether the *)
(* silent JavaScript client fails, its scenario does not say.               *)
Expected(c, q) ==
  CASE q.op = "garbled" -> AnyOutcome
    [] q.op = "validate" /\ q.did = "did:web" -> {Success(Text("verified"))}
    [] q.op = "validate" /\ q.did # "did:web" ->
         {Outcome(1, Text("nothing"), Complaint[c])}
           \cup {Success(Text("nothing")) : x \in {c} \cap {"JavaScript"}}
    [] q.op = "resolve" /\ q.pointers = {"alice"} ->
         {Success(Json(Resolved("alice", {"did:web"}, {TRUE})))}
    [] q.op = "resolve" /\ q.pointers = {"gxfs"} ->
         {Success(Json(Resolved("gxfs", {"did:web"}, IF q.types = {} THEN {TRUE} ELSE {})))}
    [] OTHER -> {Success(Json([NoDoc EXCEPT !.trust_scheme_pointers =
                   <<[pointer |-> "sausweis3", dids |-> {}],
                     [pointer |-> "sausweis4", dids |-> {}]>>]))}
=============================================================================
