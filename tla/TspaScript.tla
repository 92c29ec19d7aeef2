----------------------------- MODULE TspaScript -----------------------------
(***************************************************************************)
(* The features that write to the TSPA as data: 03.1 Trust List Management,  *)
(* 03.2 Publish Trust-list, 04.0 Provision TCR Test Data.  A scenario is the *)
(* sequence of its steps and the feature it is of.                         *)
(***************************************************************************)
EXTENDS TrustStore, Sequences

FetchKeycloakToken == [do |-> "fetch token"]
SaveKeycloakToken  == [do |-> "save token"]
SavedKeycloakToken == [do |-> "load token"]
Send(q)            == [do |-> "send", request |-> q]
GetHttp(code)      == [do |-> "status", code |-> code]
Content(message)   == [do |-> "content", message |-> message]

Pointers == {"1-europe", "xml-germany", "json-france", "usa-pointer", "alice", "bob"}
Dids     == {"did:web", "did:key", "did:web, not verifiable", "did:jwk"}
GoodDids == {"did:web", "did:key"}

Scenario(feature, steps) == [of |-> feature, steps |-> steps]

(* The scenario nearly all of them are: one request with the saved token,   *)
(* its status and its message.                                              *)
Asks(feature, q, code, message) ==
  Scenario(feature, <<SavedKeycloakToken, Send(q), GetHttp(code), Content(message)>>)
AsksOnly(feature, q, code) ==
  Scenario(feature, <<SavedKeycloakToken, Send(q), GetHttp(code)>>)
Auth(feature) == Scenario(feature, <<FetchKeycloakToken, SaveKeycloakToken>>)

-----------------------------------------------------------------------------
EuropePointer ==
  <<Scenario("03.1", <<Send(CreatePointer("1-europe")), GetHttp(401), Content("")>>),
    Auth("03.1"),
    Asks("03.1", CreatePointer("1-europe"), 201, "done")>>

EuropeDid ==
  <<Asks("03.1", CreateDid("1-europe", "did:web"), 201, "done"),
    Asks("03.1", CreateDid("1-europe", "did:key"), 201, "done"),
    Asks("03.1", CreateDid("1-europe", "did:web, not verifiable"), 400, "refused"),
    AsksOnly("03.1", CreateDid("1-europe", "did:jwk"), 400)>>

EuropeTearDown ==
  <<AsksOnly("03.1", RemoveDid("1-europe"), 200),
    AsksOnly("03.1", RemovePointer("1-europe"), 200)>>

InitialLists ==
  <<Asks("03.1", CreateAsXml("xml-germany", "invalid"), 400, "validation failed"),
    Asks("03.1", CreateAsXml("xml-germany", "valid"), 201, "done"),
    Asks("03.1", CreateAsXml("xml-germany", "valid"), 400, "refused"),
    Asks("03.1", CreateAsJson("json-france", "invalid"), 400, "validation failed"),
    Asks("03.1", CreateAsJson("json-france", "valid"), 201, "done"),
    Asks("03.1", CreateAsJson("json-france", "valid"), 400, "refused")>>

ReadLists ==
  <<Asks("03.1", ReadTrustList("xml-germany"), 200, "XML"),
    Asks("03.1", ReadTrustList("json-france"), 200, "JSON"),
    Asks("03.1", ReadVc("xml-germany"), 200, "done"),
    Asks("03.1", ReadVc("json-france"), 200, "done")>>

RemoveLists ==
  <<Asks("03.1", RemoveTrustList("xml-germany"), 200, "deleted"),
    Asks("03.1", RemoveTrustList("json-france"), 200, "deleted"),
    Asks("03.1", RemoveTrustList("json-france"), 200, "not available")>>

PublishTrustList ==
  <<Asks("03.2", CreateAsXml("usa-pointer", "valid"), 201, "done"),
    Asks("03.2", PublishTsp("usa-pointer", "Company-A"), 201, "done"),
    Asks("03.2", PublishTsp("usa-pointer", "Company-A"), 400, "refused"),
    Asks("03.2", UpdateTsp("usa-pointer", "XYZ"), 200, "done"),
    Asks("03.2", DeleteTsp("usa-pointer"), 200, "done"),
    Asks("03.2", RemoveTrustList("usa-pointer"), 200, "deleted")>>

TearUp_Bob ==   \* mutant: a row of the Examples is missing
  <<Auth("04.0"), AsksOnly("04.0", RemoveTrustList("bob"), 200)>>
TearUp ==
  <<Auth("04.0"),
    AsksOnly("04.0", RemoveTrustList("alice"), 200),
    AsksOnly("04.0", RemoveTrustList("bob"), 200)>>

Provision ==
  <<Asks("04.0", CreateAsXml("alice", "valid"), 201, "done"),
    Asks("04.0", PublishTsp("alice", "Company-A"), 201, "done"),
    Asks("04.0", CreatePointer("alice"), 201, "done"),
    Asks("04.0", CreateDid("alice", "did:web"), 201, "done")>>

TrustListManagement == EuropePointer \o EuropeDid \o EuropeTearDown \o InitialLists
                         \o ReadLists \o RemoveLists
ProvisionTestData   == TearUp \o Provision

(* The order in which behave takes them.                                   *)
TspaFeatures == TrustListManagement \o PublishTrustList \o ProvisionTestData

(* What the TCR features 04.1 and 04.2 want to find, and nothing else.      *)
TestData ==
  [p \in Pointer |->
     IF p = "alice" THEN [list |-> "XML", provider |-> "Company-A", published |-> TRUE,
                          did |-> "did:web"]
                    ELSE Absent]
=============================================================================
