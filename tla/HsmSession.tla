----------------------------- MODULE HsmSession -----------------------------
(***************************************************************************)
(* What BSS depends on.  main fetches the keys that clients' tokens are    *)
(* verified with, opens HSM and then the store, each with retries.  SmOpen *)
(* and each getStateFromHSM test whether HSM wants a token, check BSS's    *)
(* token and fetch another one; a read then makes three GETs and           *)
(* subscribes to notifications for what was read.  smMutex lets one read   *)
(* be made at a time; HsmCache is about the reads' times and what becomes  *)
(* of their data.  HSM, the token server (opaal), the notification daemon  *)
(* (hmnfd), the server of the keys and the store are external: they go     *)
(* down, or take requests without ever answering, and come back; tokens    *)
(* expire, and BSS itself is restarted.                                    *)
(***************************************************************************)
EXTENDS Naturals

CONSTANTS
  List,        \* lists of nodes that HSM may have
  None,        \* no list
  UseJWKS,     \* jwksURL is set
  RetryCount,  \* authRetryCount, kvRetryCount and sqlRetryCount
  LongTokens,  \* a token that is good when checked is so for the whole read,
               \* and HSM does not come to want one during a read
  LostAnswers, \* an answer of hmnfd may be lost
  MaxChanges,  \* bound: changes of HSM's list, or of its wish for tokens
  MaxOutages,  \* bound: outages of a service, of either kind
  MaxRestarts, \* bound: restarts of BSS
  MaxForgets   \* bound: times that hmnfd loses its subscriptions

Service == {"hsm", "opaal", "hmnfd", "jwks", "store"}

(* Nodes and the BMCs they are behind.  An error document of HSM is read   *)
(* as an empty list: of nodes, or of the endpoints that name the BMCs.     *)
Nodes == List \union {None}
Names == [nodes : Nodes, bmcs : {"all", "none"}]
NoNames == [nodes |-> None, bmcs |-> "none"]

ASSUME SessionAssumption ==
  /\ None \notin List
  /\ RetryCount \in Nat \ {0}
  /\ UseJWKS \in BOOLEAN /\ LongTokens \in BOOLEAN /\ LostAnswers \in BOOLEAN
  /\ MaxChanges \in Nat /\ MaxOutages \in Nat /\ MaxRestarts \in Nat /\ MaxForgets \in Nat

VARIABLES
  list, wants,    \* HSM: its nodes, and whether it wants a token
  up,             \* the services that answer
  silent,         \* the services that take requests and do not answer
  sub,            \* hmnfd: the names BSS has subscribed to, NoNames for none
  pc, tries,      \* BSS: where it is, and the attempts it has made there
  keys,           \* tokenAuth was made
  auth,           \* authEnabled of the read
  token,          \* accessToken
  read,           \* comps and cMap of the read
  data,           \* smData
  components,     \* notifier.Components
  changes, outages, restarts, forgets

hsmVars == <<list, wants>>
boundVars == <<changes, outages, restarts, forgets>>
vars == <<hsmVars, up, silent, sub, pc, tries, keys, auth, token, read, data, components, boundVars>>

Init ==
  /\ list \in List /\ wants \in BOOLEAN
  /\ up = Service /\ silent = {} /\ sub = NoNames
  /\ pc = "down" /\ tries = 0 /\ keys = FALSE /\ auth = FALSE /\ token = "none"
  /\ read = NoNames /\ data = NoNames /\ components = NoNames
  /\ changes = 0 /\ outages = 0 /\ restarts = 0 /\ forgets = 0

Gets == {"components", "endpoints", "ethernet"}

-----------------------------------------------------------------------------
(* The services.                                                           *)
HsmChanges ==
  /\ changes < MaxChanges /\ changes' = changes + 1
  /\ \/ list' \in List \ {list} /\ UNCHANGED wants
     \/ wants' = ~wants /\ (LongTokens => pc \notin Gets) /\ UNCHANGED list
  /\ UNCHANGED <<up, silent, sub, pc, tries, keys, auth, token, read, data, components, outages, restarts, forgets>>

(* Connections to it fail.                                                 *)
GoesDown(s) ==
  /\ s \in up \union silent /\ outages < MaxOutages
  /\ up' = up \ {s} /\ silent' = silent \ {s} /\ outages' = outages + 1
  /\ UNCHANGED <<hsmVars, sub, pc, tries, keys, auth, token, read, data, components, changes, restarts, forgets>>

GoesSilent(s) ==
  /\ s \in up /\ outages < MaxOutages
  /\ up' = up \ {s} /\ silent' = silent \union {s} /\ outages' = outages + 1
  /\ UNCHANGED <<hsmVars, sub, pc, tries, keys, auth, token, read, data, components, changes, restarts, forgets>>

ComesBack(s) ==
  /\ s \notin up /\ up' = up \union {s} /\ silent' = silent \ {s}
  /\ UNCHANGED <<hsmVars, sub, pc, tries, keys, auth, token, read, data, components, boundVars>>

TokenExpires ==
  /\ token = "good" /\ (LongTokens => pc \notin Gets)
  /\ token' = "expired"
  /\ UNCHANGED <<hsmVars, up, silent, sub, pc, tries, keys, auth, read, data, components, boundVars>>

HmnfdForgets ==
  /\ sub # NoNames /\ forgets < MaxForgets
  /\ sub' = NoNames /\ forgets' = forgets + 1
  /\ UNCHANGED <<hsmVars, up, silent, pc, tries, keys, auth, token, read, data, components, changes, outages, restarts>>

-----------------------------------------------------------------------------
(* main begins, with the keys if it is to verify tokens.                   *)
Start ==
  /\ pc = "down" /\ pc' = IF UseJWKS THEN "jwks" ELSE "open"
  /\ tries' = 0
  /\ UNCHANGED <<hsmVars, up, silent, sub, keys, auth, token, read, data, components, boundVars>>

(* Mutant: the keys are made in a variable of their own.                   *)
FetchOtherKeys ==
  /\ pc = "jwks"
  /\ pc' = "open" /\ tries' = 0 /\ UNCHANGED keys
  /\ UNCHANGED <<hsmVars, up, silent, sub, auth, token, read, data, components, boundVars>>

(* After the last attempt, which is one more than RetryCount, main goes on *)
(* without keys.                                                           *)
FetchKeys ==
  /\ pc = "jwks"
  /\ \/ "jwks" \in up /\ pc' = "open" /\ tries' = 0 /\ keys' = TRUE
     \/ "jwks" \notin up /\ tries < RetryCount /\ tries' = tries + 1 /\ UNCHANGED <<pc, keys>>
     \/ "jwks" \notin up /\ tries = RetryCount /\ pc' = "open" /\ tries' = 0 /\ UNCHANGED keys
  /\ UNCHANGED <<hsmVars, up, silent, sub, auth, token, read, data, components, boundVars>>

(* protectedGetState finds that the data must be read.                     *)
StartRead ==
  /\ pc = "idle" /\ pc' = "test" /\ tries' = 0 /\ read' = NoNames
  /\ UNCHANGED <<hsmVars, up, silent, sub, keys, auth, token, data, components, boundVars>>

(* Where SmOpen and a read go on, and where they give up: log.Fatalf, or   *)
(* nil from getStateFromHSM.                                               *)
AfterAuth == IF pc \in {"open", "opentoken"} THEN "store" ELSE "components"
GivenUp == IF pc \in {"open", "opentoken", "store"} THEN "down" ELSE "idle"

(* The process ends, and what it has in memory with it.                    *)
Forget ==
  /\ keys' = FALSE /\ token' = "none" /\ auth' = FALSE
  /\ read' = NoNames /\ data' = NoNames /\ components' = NoNames

Fail ==
  /\ pc' = GivenUp /\ tries' = 0
  /\ IF GivenUp = "down" THEN Forget ELSE UNCHANGED <<keys, auth, token, read, data, components>>

(* Mutant: one attempt too many.                                           *)
TryOnceMore ==
  IF tries < RetryCount
  THEN tries' = tries + 1 /\ UNCHANGED <<pc, keys, auth, token, read, data, components>>
  ELSE Fail

(* An attempt in vain, which may be the last one.                          *)
TryAgain ==
  IF tries + 1 < RetryCount
  THEN tries' = tries + 1 /\ UNCHANGED <<pc, keys, auth, token, read, data, components>>
  ELSE Fail

(* TestSMAuthEnabled: HSM answers 401, or something else.                  *)
TestAuth ==
  /\ pc \in {"open", "test"}
  /\ IF "hsm" \in up
     THEN /\ auth' = wants /\ tries' = 0
          /\ pc' = IF wants THEN (IF pc = "open" THEN "opentoken" ELSE "token") ELSE AfterAuth
          /\ UNCHANGED <<keys, token, read, data, components>>
     ELSE TryAgain
  /\ UNCHANGED <<hsmVars, up, silent, sub, boundVars>>

(* Mutant: another token is waited for.                                    *)
RefreshTokenForEver ==
  /\ pc \in {"opentoken", "token"}
  /\ token = "good" \/ "opaal" \in up
  /\ token' = "good" /\ tries' = 0 /\ pc' = AfterAuth
  /\ UNCHANGED <<keys, auth, read, data, components>>
  /\ UNCHANGED <<hsmVars, up, silent, sub, boundVars>>

(* JWTTestAndRefresh and PollClientCreds.                                  *)
RefreshToken ==
  /\ pc \in {"opentoken", "token"}
  /\ IF token = "good" \/ "opaal" \in up
     THEN /\ token' = "good" /\ tries' = 0 /\ pc' = AfterAuth
          /\ UNCHANGED <<keys, auth, read, data, components>>
     ELSE TryAgain
  /\ UNCHANGED <<hsmVars, up, silent, sub, boundVars>>

(* kvOpen or sqlOpen; main then listens.                                   *)
OpenStore ==
  /\ pc = "store"
  /\ IF "store" \in up
     THEN pc' = "idle" /\ tries' = 0 /\ UNCHANGED <<keys, auth, token, read, data, components>>
     ELSE TryAgain
  /\ UNCHANGED <<hsmVars, up, silent, sub, boundVars>>

-----------------------------------------------------------------------------
(* The three GETs carry the token that was checked before the first.  No   *)
(* status is looked at.                                                    *)
Refused == wants /\ ~(auth /\ token = "good")

GetComponents ==
  /\ pc = "components"
  /\ IF "hsm" \in up
     THEN /\ read' = [nodes |-> IF Refused THEN None ELSE list, bmcs |-> "none"]
          /\ pc' = "endpoints"
          /\ UNCHANGED <<tries, keys, auth, token, data, components>>
     ELSE Fail
  /\ UNCHANGED <<hsmVars, up, silent, sub, boundVars>>

(* Endpoints of other nodes are left out.                                  *)
Bmcs == IF Refused \/ read.nodes = None THEN "none" ELSE "all"

(* Mutant: a read goes on without the endpoints.                           *)
GoOnWithoutEndpoints ==
  /\ pc = "endpoints" /\ pc' = "ethernet"
  /\ read' = [read EXCEPT !.bmcs = IF "hsm" \in up THEN Bmcs ELSE "none"]
  /\ UNCHANGED <<hsmVars, up, silent, sub, tries, keys, auth, token, data, components, boundVars>>

GetEndpoints ==
  /\ pc = "endpoints"
  /\ IF "hsm" \in up
     THEN /\ read' = [read EXCEPT !.bmcs = Bmcs]
          /\ pc' = "ethernet"
          /\ UNCHANGED <<tries, keys, auth, token, data, components>>
     ELSE Fail
  /\ UNCHANGED <<hsmVars, up, silent, sub, boundVars>>

(* The read is over: protectedGetState stores it.                          *)
Return == pc' = "idle" /\ data' = read /\ UNCHANGED <<tries, keys, auth, token, read>>

(* An error document is no list of interfaces.  subscribe() has no list to *)
(* send, has sent it before, or sends it.                                  *)
GetEthernet ==
  /\ pc = "ethernet"
  /\ \/ ("hsm" \notin up \/ Refused) /\ Fail
     \/ /\ "hsm" \in up /\ ~Refused /\ (read.nodes = None \/ read = components)
        /\ Return /\ UNCHANGED components
     \/ /\ "hsm" \in up /\ ~Refused /\ read.nodes # None /\ read # components
        /\ pc' = "post" /\ UNCHANGED <<tries, keys, auth, token, read, data, components>>
  /\ UNCHANGED <<hsmVars, up, silent, sub, boundVars>>

(* hmnfd takes a POST of a subscriber that it does not know, and refuses   *)
(* another.                                                                *)
Taken == /\ "hmnfd" \in up /\ sub = NoNames
         /\ sub' = read /\ components' = read /\ Return

Conflict == /\ "hmnfd" \in up /\ sub # NoNames
            /\ pc' = "patch" /\ UNCHANGED <<sub, tries, keys, auth, token, read, data, components>>

(* Mutant: the list is noted before it is sent.                            *)
PostNoted ==
  /\ pc = "post"
  /\ \/ Taken \/ Conflict
     \/ "hmnfd" \notin up /\ Return /\ components' = read /\ UNCHANGED sub
  /\ UNCHANGED <<hsmVars, up, silent, boundVars>>

(* Without an answer subscribe() returns at once, whether the request was  *)
(* carried out or not.                                                     *)
Post ==
  /\ pc = "post"
  /\ \/ Taken \/ Conflict
     \/ /\ "hmnfd" \notin up /\ Return /\ UNCHANGED components
        /\ \/ UNCHANGED sub
           \/ LostAnswers /\ sub = NoNames /\ sub' = read
  /\ UNCHANGED <<hsmVars, up, silent, boundVars>>

(* Mutant: no PATCH is sent.                                               *)
PatchLeftOut ==
  /\ pc = "patch"
  /\ Return /\ UNCHANGED <<sub, components>>
  /\ UNCHANGED <<hsmVars, up, silent, boundVars>>

(* hmnfd takes a PATCH of a subscriber that it knows.                      *)
Patch ==
  /\ pc = "patch" /\ Return
  /\ \/ "hmnfd" \in up /\ sub # NoNames /\ sub' = read /\ components' = read
     \/ "hmnfd" \in up /\ sub = NoNames /\ UNCHANGED <<sub, components>>
     \/ /\ "hmnfd" \notin up /\ UNCHANGED components
        /\ \/ UNCHANGED sub
           \/ LostAnswers /\ sub # NoNames /\ sub' = read
  /\ UNCHANGED <<hsmVars, up, silent, boundVars>>

(* BSS is restarted.  hmnfd keeps its subscription.                        *)
Restart ==
  /\ pc # "down" /\ restarts < MaxRestarts
  /\ pc' = "down" /\ tries' = 0 /\ restarts' = restarts + 1
  /\ Forget
  /\ UNCHANGED <<hsmVars, up, silent, sub, changes, outages, forgets>>

-----------------------------------------------------------------------------
(* The service whose answer BSS waits for.                                 *)
Awaited ==
  CASE pc = "jwks" -> {"jwks"}
    [] pc \in {"open", "test"} \union Gets -> {"hsm"}
    [] pc \in {"opentoken", "token"} /\ token # "good" -> {"opaal"}
    [] pc = "store" -> {"store"}
    [] pc \in {"post", "patch"} -> {"hmnfd"}
    [] OTHER -> {}

(* No client has a timeout: a request that is not answered is not over.    *)
Hangs == Awaited \intersect silent # {}

BssStep ==
  /\ ~Hangs
  /\ \/ FetchKeys \/ TestAuth \/ RefreshToken \/ OpenStore
     \/ GetComponents \/ GetEndpoints \/ GetEthernet
     \/ Post \/ Patch

Next ==
  \/ HsmChanges \/ TokenExpires \/ HmnfdForgets
  \/ \E s \in Service : GoesDown(s) \/ GoesSilent(s) \/ ComesBack(s)
  \/ Start \/ StartRead \/ BssStep \/ Restart

Spec == Init /\ [][Next]_vars

(* The goroutine that starts BSS, or reads HSM, goes on once it has the    *)
(* answer that it waits for, or knows that there is none.                  *)
FairSpec == Spec /\ WF_vars(BssStep)

-----------------------------------------------------------------------------
Starting == {"jwks", "open", "opentoken", "store"}
Pc == Starting \union {"down", "idle", "test", "token", "post", "patch"} \union Gets

TypeOK ==
  /\ list \in List /\ wants \in BOOLEAN /\ up \in SUBSET Service
  /\ silent \in SUBSET (Service \ up)
  /\ {sub, read, data, components} \subseteq Names
  /\ pc \in Pc /\ tries \in 0 .. RetryCount /\ (pc # "jwks" => tries < RetryCount)
  /\ keys \in BOOLEAN /\ auth \in BOOLEAN /\ token \in {"none", "good", "expired"}
  /\ changes \in 0 .. MaxChanges /\ outages \in 0 .. MaxOutages
  /\ restarts \in 0 .. MaxRestarts /\ forgets \in 0 .. MaxForgets

(* As long as hmnfd's answers arrive and it keeps its subscriptions, BSS   *)
(* only believes in a subscription that hmnfd has: subscribe() may leave   *)
(* out a list that it has sent before.                                     *)
SubscriptionHeld == forgets = 0 /\ components # NoNames => sub = components

(* With tokens that outlast a read, the nodes and BMCs that BSS holds are  *)
(* lists of HSM, never an error document's emptiness.                      *)
NeverHollow == data # NoNames => data.nodes \in List /\ data.bmcs = "all"

(* A read that ends with hmnfd up leaves hmnfd subscribed to what was      *)
(* read, over BSS's restarts, outages and lists that come back, as long as *)
(* hmnfd's answers arrive and it keeps its subscriptions.                  *)
EndsRead == \/ pc = "ethernet" /\ "hsm" \in up /\ ~Refused /\ pc' = "idle"
            \/ pc \in {"post", "patch"} /\ pc' = "idle"

ReadSubscribes ==
  [][/\ EndsRead /\ data' = read /\ data' # NoNames
     /\ "hmnfd" \in up /\ forgets = 0
     => sub' = read]_vars

(* BSS gives up its start, or serves without the keys for its protected    *)
(* routes, only after an outage.                                           *)
StartsWhenReachable ==
  [][outages = 0 /\ pc \in Starting /\ pc' \notin Starting /\ restarts' = restarts
     => pc' = "idle" /\ keys' = UseJWKS]_vars

(* A BSS that is to verify tokens has the keys when it serves.             *)
ServesWithKeys == UseJWKS /\ pc \notin Starting \union {"down"} => keys

(* Start-up and every read come to an end, and smMutex, which a read       *)
(* holds, is released, though services stay down: unless one that is asked *)
(* falls silent, for ever or again and again.                              *)
AtRest == pc \in {"idle", "down"}
AttemptEnds == ~[]<>Hangs => (~AtRest ~> AtRest)

(* PollClientCreds "tries retryCount times every retryInterval seconds".   *)
PollEnds == pc \in {"opentoken", "token"} ~> pc \notin {"opentoken", "token"}
=============================================================================
