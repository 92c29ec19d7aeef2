----------------------------- MODULE ZoneScript -----------------------------
(***************************************************************************)
(* "src/features/01.1 DNS Zone Manager Server.feature" as data: a scenario  *)
(* is the sequence of its steps, a Scenario Outline one scenario per row of  *)
(* its Examples, the feature the sequence of its scenarios.  The Background *)
(* is not listed; BeginScenario runs it before each of them.               *)
(***************************************************************************)
EXTENDS Sequences

(* The steps, by what they call. *)
FetchKeycloakToken == [do |-> "fetch token"]
SaveKeycloakToken  == [do |-> "save token"]
SavedKeycloakToken == [do |-> "load token"]
AllZonesDeleted    == [do |-> "delete all"]
PointersExist(P)   == [do |-> "check", kind |-> "exists", ptrs |-> P]
PointersAbsent(P)  == [do |-> "check", kind |-> "not exists", ptrs |-> P]
Create(P, p)       == [do |-> "create pointers", ptrs |-> P, ptr |-> p]
BindDid(d, p)      == [do |-> "create did", did |-> d, ptr |-> p]
Remove(p)          == [do |-> "remove pointer", ptr |-> p]
Unbind(p)          == [do |-> "remove did", ptr |-> p]
Zones              == [do |-> "read zones"]
ReadPointer(p)     == [do |-> "read pointer", ptr |-> p]
ReadDid(p)         == [do |-> "read did", ptr |-> p]
Http(code)         == [do |-> "get http", code |-> code]
Content(body)      == [do |-> "content", body |-> body]

Outline(rows, Scenario(_)) == [i \in DOMAIN rows |-> Scenario(rows[i])]

(* [11] names a domain outright instead of an alias (it has a dot in it).   *)
OutOfDomainName == "not-valid-because-out-of-domain.testtrain.trust-scheme.de"
OutOfDomainDid  == "did:web:not-valid-because-out-of-domain"

Europe  == {"1-europe", "2-germany", "2-spain"}
America == {"1-america", "2-usa", "2-canada", "2-mexico"}
Aliases == Europe \cup America
             \cup {"2-france", "not-existed", "not-valid-because-out-of-domain"}
Pointers == Aliases \cup {OutOfDomainName}
Domain   == Europe \cup America \cup {"2-france"}

PointerDid ==
  <<[ptr |-> "1-europe",  did |-> "did:web:some-did-for-europe"],
    [ptr |-> "2-germany", did |-> "did:web:some-did-for-germany"],
    [ptr |-> "1-america", did |-> "did:web:some-did-for-america"],
    [ptr |-> "2-usa",     did |-> "did:web:some-did-for-usa"],
    [ptr |-> "2-mexico",  did |-> "did:web:some-did-for-mexico"]>>
Dids == {PointerDid[i].did : i \in DOMAIN PointerDid} \cup {OutOfDomainDid}

NeverBound == <<"2-france", "2-spain", "2-canada", "not-existed",
                "not-valid-because-out-of-domain">>

-----------------------------------------------------------------------------
S01 == <<Zones, Http(403), Content({})>>
S02 == <<FetchKeycloakToken, SaveKeycloakToken>>
S03 == <<SavedKeycloakToken, AllZonesDeleted, Zones, Http(200), Content({})>>
S04 == <<SavedKeycloakToken, PointersAbsent({"1-europe"}),
         Create({"1-europe"}, "1-europe"), Http(200)>>
S05 == <<SavedKeycloakToken, Create({"1-europe"}, "1-europe"), Http(200)>>
S06 == <<SavedKeycloakToken, PointersExist({"1-europe"}), PointersAbsent({"2-germany"}),
         Create(Europe, "1-europe"), Http(200)>>
S07 == <<SavedKeycloakToken, PointersAbsent(America), Create(America, "1-america"),
         Http(200)>>
S08 == <<SavedKeycloakToken, ReadPointer("1-europe"), Http(200), Content(Europe)>>
S09 == <<SavedKeycloakToken, ReadPointer("1-america"), Http(200), Content(America)>>
S10(p) == <<SavedKeycloakToken, ReadPointer(p), Http(200), Content({})>>
S11 == <<SavedKeycloakToken, BindDid(OutOfDomainDid, OutOfDomainName),
         Http(404), Content({})>>
S12(row) == <<SavedKeycloakToken, BindDid(row.did, row.ptr), Http(200)>>
S13(row) == <<SavedKeycloakToken, ReadDid(row.ptr), Http(200), Content({row.did})>>
S14(p) == <<SavedKeycloakToken, ReadDid(p), Http(200), Content({})>>
S15(p) == <<SavedKeycloakToken, Unbind(p), Http(404)>>
S16(p) == <<SavedKeycloakToken, Unbind(p), Http(204)>>
S17(p) == <<SavedKeycloakToken, Remove(p), Http(204)>>
S18(p) == S10(p)
S19 == <<SavedKeycloakToken, ReadDid("2-germany"), Http(200), Content({})>>

AuthAndCleanAll == <<S01, S02, S03>>
CreatePointers  == <<S04, S05, S06, S07>>
ReadPointers    == <<S08, S09>>
  \o Outline(<<"2-germany", "2-spain", "2-france", "2-usa", "2-mexico", "2-germany",
               "not-existed">>, S10)
BindDids        == <<S11>> \o Outline(PointerDid, S12)
ReadDids        == Outline(PointerDid, S13) \o Outline(NeverBound, S14)
                     \o Outline(NeverBound, S15)
TearDownDids    == Outline(<<"1-america", "2-usa", "2-mexico">>, S16)
TearDown        == Outline(<<"1-europe", "1-america">>, S17)
AfterTearDown   == Outline(<<"1-europe", "1-america">>, S18) \o <<S19>>

ZoneManagerFeature ==
  AuthAndCleanAll \o CreatePointers \o ReadPointers \o BindDids \o ReadDids
    \o TearDownDids \o TearDown \o AfterTearDown
=============================================================================
