------------------------------ MODULE TcrScript ------------------------------
(***************************************************************************)
(* Features 04.1 Trusted Content Resolver Server, 04.2 Trusted Content       *)
(* Resolver Client and 05 Trusted Content Resolver Validation as data, in    *)
(* the environment dev-use-train.  A scenario is "of" the client that asks,   *)
(* and its kind is what it expects.                                        *)
(***************************************************************************)
EXTENDS TspaScript, TcrClients

Installed(c)          == [do |-> "installed", client |-> c]
DefaultDns            == [do |-> "unchecked"]
PointersInDns         == [do |-> "unchecked"]
Input(name, value)    == [do |-> "input", name |-> name, value |-> value]
InputPointers(P)      == Input("pointers", P)
InputIssuer(i)        == Input("issuer", i)
InputEndpointTypes(T) == Input("endpointTypes", T)
InputDid(d)           == Input("did", d)
InputEndpoints(E)     == Input("endpoints", E)
AskServer(op)         == [do |-> "ask server", op |-> op]
AskClient(op)         == [do |-> "ask client", op |-> op]
MayFail(op)           == [do |-> "may fail", op |-> op]
Then(what)            == [do |-> "then", what |-> what]
Matching(text)        == [do |-> "matches", text |-> text]

TcrScenario(c, kind, steps) == [of |-> c, kind |-> kind, steps |-> steps]

-----------------------------------------------------------------------------
DirectOnServer ==
  TcrScenario("server", "direct",
    <<DefaultDns, InputPointers({"alice"}), PointersInDns, InputIssuer("issuer-Y"),
      InputEndpointTypes({}), AskServer("resolve"), GetHttp(200), Content("alice resolved")>>)

Discovery(kind, c, inputs, thens) ==
  TcrScenario(c, kind,
    <<Installed(c), DefaultDns>> \o inputs
      \o <<AskClient("resolve"), Then("response is valid")>> \o thens)

Succeeds(c) ==
  Discovery("succeed", c,
    <<InputPointers({"alice"}), PointersInDns, InputIssuer("issuer-Y"), InputEndpointTypes({})>>,
    <<Then("resolved with a DID"), Then("has a TL")>>)
SucceedsPartially(c) ==
  Discovery("partial success", c,
    <<InputPointers({"gxfs"}), PointersInDns, InputIssuer("test-issuer"),
      InputEndpointTypes({"wrong-typ"})>>,
    <<Then("resolved with a DID"), Then("has no TL")>>)
DiscoveryFails(c) ==
  Discovery("fail", c,
    <<InputPointers({"sausweis3", "sausweis4"}), PointersInDns, InputIssuer("did:example")>>,
    <<Then("no DID")>>)

Inputs(did) == <<InputIssuer("issuer-Y"), InputDid(did), InputEndpoints({"federation1"})>>
ValidatesOnServer ==
  TcrScenario("server", "direct",
    <<DefaultDns>> \o Inputs("did:web") \o <<AskServer("validate"), GetHttp(200)>>)
ValidateSucceeds(c) ==
  TcrScenario(c, "verified",
    <<Installed(c)>> \o Inputs("did:web")
      \o <<AskClient("validate"), Then("validation is valid"), Then("did is verified")>>)
ValidateFails(c) ==
  TcrScenario(c, "not verified",
    <<Installed(c)>> \o Inputs("did:web:without.did.configuration")
      \o <<MayFail("validate"), Matching(Complaint[c].kind)>>)

(* The order in which behave takes them, after the scenarios of 04.0.        *)
TcrFeatures ==
  <<DirectOnServer,
    Succeeds("Python"), Succeeds("Java"), Succeeds("JavaScript"), Succeeds("Golang"),
    SucceedsPartially("Java"), DiscoveryFails("Java"),
    ValidatesOnServer,
    ValidateSucceeds("Python"), ValidateSucceeds("Java"),
    ValidateSucceeds("JavaScript"), ValidateSucceeds("Golang"),
    ValidateFails("Python"), ValidateFails("Java"),
    ValidateFails("JavaScript"), ValidateFails("Golang")>>
RunTcrBddDev == ProvisionTestData \o TcrFeatures
=============================================================================
