----------------------------- MODULE ZoneSteps -----------------------------
(***************************************************************************)
(* The behave steps of src/steps/dns_zone_manager_server.py and            *)
(* src/steps/keycloak.py, run by several test runs against one ZM server.  *)
(*                                                                         *)
(* A run is a behave process in a checkout of its own.  It executes one    *)
(* scenario at a time; a scenario is any sequence of these steps (which    *)
(* one is the business of ZoneFeature).  Every HTTP request is one atomic   *)
(* action; a step that sends several (the delete-all loop, the checks of    *)
(* a list of pointers) is a loop the other runs interleave with.           *)
(*                                                                         *)
(* A failing assertion or an exception skips the rest of the scenario;     *)
(* behave then pops the scenario's layer of the context, so what the       *)
(* steps stored there is gone either way (Leave).                          *)
(***************************************************************************)
EXTENDS ZoneManager, FiniteSets

CONSTANTS Run,        \* the behave processes
          Leftover,   \* what earlier runs may have left in the ZM server
          MaxFaults   \* bound on expired tokens, timeouts, outages

ASSUME LeftoverAssumption  == Leftover \subseteq Stores
ASSUME MaxFaultsAssumption == MaxFaults \in Nat

VARIABLES
  scenario,   \* "running" between a scenario's Background and its end, else "idle"
  token,      \* context.keycloak.last_token
  file,       \* the token saved under the checkout's .tmp (context.FileToken)
  response,   \* context.requests_response
  loop,       \* what the step in progress still has to request
  known,      \* history: what the run's steps found out of a pointer and
              \* no write has changed since; no step reads it
  late,       \* writes whose client timed out and the server may still do
  faults      \* how many faults there have been

runVars == <<scenario, token, file, response, loop, known>>
vars == <<store, runVars, late, faults>>

Token     == {"none", "zm", "tspa", "expired"}
Responses == [status : {0, 200, 204, 403, 404}, body : SUBSET (Pointer \cup Did)]
Loops     == [kind : {"none", "delete all", "exists", "not exists"}, left : SUBSET Pointer]
Knowledge == [Pointer -> {"unknown", "present", "absent"}]

NoResponse == [status |-> 0, body |-> {}]
NoLoop     == [kind |-> "none", left |-> {}]
Nothing    == [p \in Pointer |-> "unknown"]

TypeOK ==
  /\ StoreTypeOK
  /\ scenario \in [Run -> {"idle", "running"}]
  /\ token    \in [Run -> Token]
  /\ file     \in [Run -> Token]
  /\ response \in [Run -> Responses]
  /\ loop     \in [Run -> Loops]
  /\ known    \in [Run -> Knowledge]
  /\ late     \in SUBSET Write
  /\ faults   \in Nat

Init ==
  /\ \E s \in Leftover : schemes = s.schemes /\ dids = s.dids
  /\ scenario = [r \in Run |-> "idle"]
  /\ token    = [r \in Run |-> "none"]
  /\ file     \in [Run -> {"none", "tspa", "expired"}]
  /\ response = [r \in Run |-> NoResponse]
  /\ loop     = [r \in Run |-> NoLoop]
  /\ known    = [r \in Run |-> Nothing]
  /\ late     = {}
  /\ faults   = 0

-----------------------------------------------------------------------------
Running(r) == scenario[r] = "running"
Ready(r)   == Running(r) /\ loop[r].kind = "none"

(* Every request carries the bearer token of the context, if there is one   *)
(* (_update_header); the ZM server takes only its own realm's.             *)
Authorised(r) == token[r] = "zm"
Answer(r, w)  == IF Authorised(r) THEN Status(w) ELSE 403

(* What was known of a pointer stays known unless this write created or     *)
(* removed it.                                                              *)
Remember(q, p) == IF (schemes'[p] = {}) = (schemes[p] = {}) THEN known[q][p]
                                                             ELSE "unknown"
Remembered == [q \in Run |-> [p \in Pointer |-> Remember(q, p)]]

Learn(r, p, fact) ==
  known' = [q \in Run |-> [x \in Pointer |->
              IF q = r /\ x = p THEN fact ELSE Remember(q, x)]]

(* The context layer of the scenario is popped.                             *)
Leave(r) ==
  /\ scenario' = [scenario EXCEPT ![r] = "idle"]
  /\ token'    = [token EXCEPT ![r] = "none"]
  /\ response' = [response EXCEPT ![r] = NoResponse]
  /\ loop'     = [loop EXCEPT ![r] = NoLoop]
  /\ known'    = [known EXCEPT ![r] = Nothing]
  /\ UNCHANGED <<store, file>>

Fails(r) == Leave(r) /\ UNCHANGED <<late, faults>>

-----------------------------------------------------------------------------
(* Background: a new KeycloakServer, which holds no token yet, and a new    *)
(* Server, both found up.                                                   *)
BeginScenario(r) ==
  /\ scenario[r] = "idle"
  /\ scenario' = [scenario EXCEPT ![r] = "running"]
  /\ token' = [token EXCEPT ![r] = "none"]
  /\ UNCHANGED <<store, file, response, loop, known, late, faults>>

EndScenario(r) == Ready(r) /\ Fails(r)

FetchToken(r) ==
  /\ Ready(r)
  /\ token' = [token EXCEPT ![r] = "zm"]
  /\ UNCHANGED <<store, scenario, file, response, loop, known, late, faults>>

(* Mutant: nothing gets into the file.                                      *)
SaveToken_Lost(r) == Ready(r) /\ token[r] # "none" /\ UNCHANGED vars

(* Then save Keycloak token: every feature has it right after the fetch.    *)
SaveToken(r) ==
  /\ Ready(r) /\ token[r] # "none"
  /\ file' = [file EXCEPT ![r] = token[r]]
  /\ UNCHANGED <<store, scenario, token, response, loop, known, late, faults>>

(* Given saved Keycloak token; there may be no file to load.                *)
LoadToken(r) ==
  /\ Ready(r)
  /\ \/ /\ file[r] # "none"
        /\ token' = [token EXCEPT ![r] = file[r]]
        /\ UNCHANGED <<store, scenario, file, response, loop, known, late, faults>>
     \/ file[r] = "none" /\ Fails(r)

-----------------------------------------------------------------------------
(* When steps: one request, its response kept in the context.              *)

Requests(r, w) ==
  /\ Ready(r)
  /\ IF Authorised(r) THEN Store(w) ELSE UNCHANGED store
  /\ response' = [response EXCEPT ![r] = [status |-> Answer(r, w), body |-> {}]]
  /\ known' = Remembered
  /\ UNCHANGED <<scenario, token, file, loop, late, faults>>

Reads(r, body) ==
  /\ Ready(r)
  /\ response' = [response EXCEPT ![r] =
       IF Authorised(r) THEN [status |-> 200, body |-> body]
                        ELSE [status |-> 403, body |-> {}]]
  /\ UNCHANGED <<store, scenario, token, file, loop, known, late, faults>>

CreatingPointers(r, P, p) == Requests(r, PutSchemes(p, P))
CreateDid(r, d, p)        == Requests(r, PutDid(p, d))
RemovePointer_DidUrl(r, p) == Requests(r, DeleteDid(p))   \* mutant: _did_url
RemovePointer(r, p)       == Requests(r, DeleteSchemes(p))
RemoveDid(r, p)           == Requests(r, DeleteDid(p))

RequestsZones(r)       == Reads(r, Exists)
RequestsPointer(r, p)  == Reads(r, schemes[p])
ReadPointersDid_Null(r, p) == Reads(r, {dids[p]})   \* mutant: no DID is a DID
ReadPointersDid(r, p)  == Reads(r, {dids[p]} \ {NoDid})

(* Then steps: one that holds changes nothing, one that does not, or has no *)
(* response to look at, fails the scenario.                                 *)
GetHttp(r, code) ==
  /\ Ready(r)
  /\ IF response[r].status = code THEN UNCHANGED vars ELSE Fails(r)

ContentMatches(r, body) ==
  /\ Ready(r)
  /\ IF response[r].status # 0 /\ response[r].body = body THEN UNCHANGED vars
                                                          ELSE Fails(r)

-----------------------------------------------------------------------------
(* Given steps that loop over pointers.                                     *)

(* Mutant: the loop does not move on. *)
Iterate_Stays(r, p) == p \in Pointer /\ loop' = loop

Iterate(r, p) ==
  LET rest == loop[r].left \ {p}
  IN  loop' = [loop EXCEPT ![r] = IF rest = {} THEN NoLoop
                                  ELSE [kind |-> loop[r].kind, left |-> rest]]

(* Mutants: the list of all aliases is deleted instead of the listing; the  *)
(* listing is taken but not deleted.                                        *)
RemoveAllPointers_Aliases(r) ==
  /\ Ready(r) /\ Authorised(r)
  /\ response' = [response EXCEPT ![r] = [status |-> 200, body |-> Exists]]
  /\ loop' = [loop EXCEPT ![r] = [kind |-> "delete all", left |-> Pointer]]
  /\ known' = [known EXCEPT ![r] = [p \in Pointer |->
       IF p \in Exists THEN "present" ELSE "absent"]]
  /\ UNCHANGED <<store, scenario, token, file, late, faults>>

RemoveAllPointers_ListsOnly(r) == RequestsZones(r)

(* Given all zones deleted in ZM successfully: request the listing, require *)
(* 200, then go through the listing it got, however old it is by then.     *)
RemoveAllPointers(r) ==
  /\ Ready(r)
  /\ IF Authorised(r)
     THEN /\ response' = [response EXCEPT ![r] = [status |-> 200, body |-> Exists]]
          /\ loop' = [loop EXCEPT ![r] =
               IF Exists = {} THEN NoLoop ELSE [kind |-> "delete all", left |-> Exists]]
          /\ known' = [known EXCEPT ![r] = [p \in Pointer |->
               IF p \in Exists THEN "present" ELSE "absent"]]
          /\ UNCHANGED <<store, scenario, token, file, late, faults>>
     ELSE Fails(r)

(* Mutant: without the assertion on the status.                             *)
DeleteNext_Unchecked(r) ==
  /\ Running(r) /\ loop[r].kind = "delete all"
  /\ \E p \in loop[r].left :
       /\ IF Authorised(r) THEN Store(DeleteSchemes(p)) ELSE UNCHANGED store
       /\ Iterate(r, p)
       /\ Learn(r, p, "absent")
       /\ UNCHANGED <<scenario, token, file, response, late, faults>>

(* The next pointer of the listing; the loop asserts 204 of each.          *)
DeleteNext(r) ==
  /\ Running(r) /\ loop[r].kind = "delete all"
  /\ \E p \in loop[r].left :
       IF Answer(r, DeleteSchemes(p)) = 204
       THEN /\ Store(DeleteSchemes(p))
            /\ Iterate(r, p)
            /\ Learn(r, p, "absent")
            /\ UNCHANGED <<scenario, token, file, response, late, faults>>
       ELSE Fails(r)

(* Mutant: the loop over the list returns after its first pointer.          *)
CheckPointers_First(r, kind, P) ==
  /\ Ready(r)
  /\ kind \in {"exists", "not exists"} /\ P # {}
  /\ loop' = [loop EXCEPT ![r] = [kind |-> kind, left |-> {CHOOSE p \in P : TRUE}]]
  /\ UNCHANGED <<store, scenario, token, file, response, known, late, faults>>

(* Given Trust Framework Pointers (not exists): P is not empty.  The code   *)
(* goes through its list in order; here the order is left open.            *)
CheckPointers(r, kind, P) ==
  /\ Ready(r)
  /\ kind \in {"exists", "not exists"} /\ P # {}
  /\ loop' = [loop EXCEPT ![r] = [kind |-> kind, left |-> P]]
  /\ UNCHANGED <<store, scenario, token, file, response, known, late, faults>>

(* Mutant: any 200 answer says the pointer exists.                         *)
CheckNext_AnyAnswer(r) ==
  /\ Running(r) /\ loop[r].kind \in {"exists", "not exists"}
  /\ \E p \in loop[r].left :
       IF Authorised(r) /\ loop[r].kind = "exists"
       THEN /\ Iterate(r, p)
            /\ known' = [known EXCEPT ![r][p] = "present"]
            /\ UNCHANGED <<store, scenario, token, file, response, late, faults>>
       ELSE Fails(r)

(* One pointer_exist: a GET that asserts 200 and looks for schemes.        *)
CheckNext(r) ==
  /\ Running(r) /\ loop[r].kind \in {"exists", "not exists"}
  /\ \E p \in loop[r].left :
       IF Authorised(r) /\ (loop[r].kind = "exists") = (schemes[p] # {})
       THEN /\ Iterate(r, p)
            /\ known' = [known EXCEPT ![r][p] =
                 IF loop[r].kind = "exists" THEN "present" ELSE "absent"]
            /\ UNCHANGED <<store, scenario, token, file, response, late, faults>>
       ELSE Fails(r)

-----------------------------------------------------------------------------
(* What the environment does.                                              *)

Fault == faults < MaxFaults /\ faults' = faults + 1

(* Keycloak or the ZM server is not up: the Background fails.              *)
NotUp(r) == scenario[r] = "idle" /\ Fault /\ UNCHANGED <<store, runVars, late>>

(* The writes the step in progress may have under way.                      *)
UnderWay(r) == IF loop[r].kind = "none" THEN Write
               ELSE IF loop[r].kind = "delete all"
                    THEN {DeleteSchemes(p) : p \in loop[r].left} ELSE {}

(* A request times out (10 s, CONNECT_TIMEOUT_IN_SECONDS): the step raises, *)
(* but the server may do the write W = {w} all the same, now or later.      *)
TimesOut(r, W) ==
  /\ Running(r) /\ Fault
  /\ W = {} \/ Authorised(r)
  /\ late' = late \cup W
  /\ Leave(r)

LateLands ==
  /\ \E w \in late : Store(w) /\ late' = late \ {w}
  /\ known' = Remembered
  /\ UNCHANGED <<scenario, token, file, response, loop, faults>>

(* The access token's lifetime ends, in memory and in the file.            *)
TokenExpires(r) ==
  /\ Fault
  /\ file[r] = "zm" \/ token[r] = "zm"
  /\ file'  = [file EXCEPT ![r] = IF @ = "zm" THEN "expired" ELSE @]
  /\ token' = [token EXCEPT ![r] = IF @ = "zm" THEN "expired" ELSE @]
  /\ UNCHANGED <<store, scenario, response, loop, known, late>>

(* A TSPA feature started in the same checkout saves its realm's token in   *)
(* the one token file.                                                      *)
TspaFeatureSaves(r) ==
  /\ Fault
  /\ file' = [file EXCEPT ![r] = "tspa"]
  /\ UNCHANGED <<store, scenario, token, response, loop, known, late>>

(* The process is interrupted, wherever it is.                             *)
Abort(r) == Running(r) /\ Fails(r)

-----------------------------------------------------------------------------
TokenStep(r) == BeginScenario(r) \/ EndScenario(r) \/ FetchToken(r) \/ SaveToken(r)
                  \/ LoadToken(r)

WriteStep(r) ==
  \/ \E p \in Pointer, P \in (SUBSET Pointer) \ {{}} : CreatingPointers(r, P, p)
  \/ \E p \in Pointer, d \in Did : CreateDid(r, d, p)
  \/ \E p \in Pointer : RemovePointer(r, p) \/ RemoveDid(r, p)

ReadStep(r) ==
  \/ RequestsZones(r)
  \/ \E p \in Pointer : RequestsPointer(r, p) \/ ReadPointersDid(r, p)
  \/ \E code \in {200, 204, 403, 404} : GetHttp(r, code)
  \/ \E body \in (SUBSET Pointer) \cup {{d} : d \in Did} : ContentMatches(r, body)

LoopStep(r) ==
  \/ RemoveAllPointers(r) \/ DeleteNext(r) \/ CheckNext(r)
  \/ \E kind \in {"exists", "not exists"}, P \in SUBSET Pointer : CheckPointers(r, kind, P)

FaultStep(r) ==
  \/ NotUp(r) \/ TokenExpires(r) \/ TspaFeatureSaves(r) \/ Abort(r)
  \/ \E W \in {{}} \cup {{w} : w \in UnderWay(r)} : TimesOut(r, W)

Next == \/ \E r \in Run : \/ TokenStep(r) \/ WriteStep(r) \/ ReadStep(r)
                          \/ LoopStep(r) \/ FaultStep(r)
        \/ LateLands

Spec == Init /\ [][Next]_vars

-----------------------------------------------------------------------------
(* What the Given steps of a running scenario established about a pointer   *)
(* is still so unless some later write changed it: each listed pointer of   *)
(* the delete-all loop that answered 204, each one the loop has not reached *)
(* yet, each one the listing did not have, each one a check let through.   *)
(* In particular when the delete-all loop ends the server holds only       *)
(* pointers that were created after the listing.                           *)
GivenHolds ==
  \A r \in Run, p \in Pointer :
    /\ known[r][p] = "present" => p \in Exists
    /\ known[r][p] = "absent"  => p \notin Exists

(* The loops only ever work on pointers of their own step's list, so what   *)
(* the delete-all loop has left is still present unless another writer got  *)
(* there: it fails with 404 only in a race.                                *)
DeletesWhatItListed ==
  \A r \in Run : loop[r].kind = "delete all" =>
    \A p \in loop[r].left : known[r][p] # "absent"
=============================================================================
