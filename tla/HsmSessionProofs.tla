-------------------------- MODULE HsmSessionProofs --------------------------
(***************************************************************************)
(* Safety of HsmSession for every set of lists and every bound: BSS only   *)
(* believes in a subscription that hmnfd has, a read that ends with hmnfd  *)
(* up leaves it subscribed, error documents are not stored while tokens    *)
(* outlast a read, and a start-up without outages succeeds.                *)
(***************************************************************************)
EXTENDS HsmSession, TLAPS

Whole(names) == names.nodes \in List /\ names.bmcs = "all"

(* There is something to send, and hmnfd knows the subscriber of a PATCH.  *)
SubscriptionInv ==
  /\ pc \in {"post", "patch"} => read # NoNames
  /\ pc = "patch" /\ forgets = 0 => sub # NoNames
  /\ SubscriptionHeld

(* A read that HSM did not refuse has HSM's lists.                         *)
HollowInv ==
  /\ NeverHollow
  /\ pc = "endpoints" => Refused \/ read.nodes \in List
  /\ pc = "ethernet" => Refused \/ Whole(read)
  /\ pc \in {"post", "patch"} => Whole(read)

(* Without an outage everything answers, and the keys are there.           *)
ReachInv ==
  /\ outages = 0 => up = Service
  /\ pc = "jwks" => UseJWKS
  /\ keys => UseJWKS
  /\ outages = 0 /\ pc \in {"open", "opentoken", "store"} /\ UseJWKS => keys

-----------------------------------------------------------------------------
(* The steps of a read or of a start-up that only vary in where they lead. *)
LEMMA NoNamesTyped == NoNames \in Names
BY DEF NoNames, Names, Nodes

LEMMA FailTyped ==
  ASSUME TypeOK, Fail
  PROVE  /\ pc' \in {"down", "idle"} /\ tries' = 0
         /\ keys' \in BOOLEAN /\ auth' \in BOOLEAN
         /\ token' \in {"none", "good", "expired"}
         /\ {read', data', components'} \subseteq Names
<1>1. CASE GivenUp = "down"
  BY <1>1, NoNamesTyped DEF Fail, Forget
<1>2. CASE GivenUp # "down"
  BY <1>2 DEF TypeOK, Fail, GivenUp
<1>3. QED
  BY <1>1, <1>2

LEMMA TryAgainTyped ==
  ASSUME TypeOK, TryAgain, pc # "jwks"
  PROVE  /\ pc' = pc \/ pc' \in {"down", "idle"}
         /\ tries' \in 0 .. RetryCount - 1
         /\ keys' \in BOOLEAN /\ auth' \in BOOLEAN
         /\ token' \in {"none", "good", "expired"}
         /\ {read', data', components'} \subseteq Names
<1>1. CASE tries + 1 < RetryCount
  BY <1>1, SessionAssumption DEF TypeOK, TryAgain
<1>2. CASE ~(tries + 1 < RetryCount)
  BY <1>2, FailTyped, SessionAssumption DEF TypeOK, TryAgain
<1>3. QED
  BY <1>1, <1>2

LEMMA InitTypeOK == Init => TypeOK
<1> SUFFICES ASSUME Init PROVE TypeOK
  OBVIOUS
<1>1. keys \in BOOLEAN /\ auth \in BOOLEAN
  BY Zenon DEF Init
<1>2. /\ list \in List /\ wants \in BOOLEAN /\ up \in SUBSET Service
      /\ silent \in SUBSET (Service \ up)
      /\ {sub, read, data, components} \subseteq Names
      /\ token \in {"none", "good", "expired"}
  BY NoNamesTyped DEF Init
<1>3. /\ pc \in Pc /\ tries \in 0 .. RetryCount /\ (pc # "jwks" => tries < RetryCount)
      /\ changes \in 0 .. MaxChanges /\ outages \in 0 .. MaxOutages
      /\ restarts \in 0 .. MaxRestarts /\ forgets \in 0 .. MaxForgets
  BY SessionAssumption DEF Init, Pc, Starting
<1>4. QED
  BY <1>1, <1>2, <1>3, Zenon DEF TypeOK

LEMMA ServicesTyped ==
  ASSUME TypeOK,
         \/ HsmChanges \/ TokenExpires \/ HmnfdForgets
         \/ \E s \in Service : GoesDown(s) \/ GoesSilent(s) \/ ComesBack(s)
  PROVE  TypeOK'
<1> USE SessionAssumption DEF TypeOK, hsmVars, boundVars
<1>1. CASE HsmChanges
  <2>1. wants' \in BOOLEAN
    BY <1>1, Zenon DEF HsmChanges
  <2>2. QED
    BY <1>1, <2>1 DEF HsmChanges
<1>2. CASE TokenExpires
  BY <1>2 DEF TokenExpires
<1>3. CASE HmnfdForgets
  BY <1>3, NoNamesTyped DEF HmnfdForgets
<1>4. ASSUME NEW s \in Service, GoesDown(s) \/ GoesSilent(s) \/ ComesBack(s) PROVE TypeOK'
  BY <1>4 DEF GoesDown, GoesSilent, ComesBack
<1>5. QED
  BY <1>1, <1>2, <1>3, <1>4

LEMMA BssTyped == ASSUME TypeOK, Start \/ StartRead \/ BssStep \/ Restart PROVE TypeOK'
<1> USE SessionAssumption DEF TypeOK, hsmVars, boundVars, Pc, Starting, Gets
<1>1. CASE Start
  BY <1>1 DEF Start
<1>2. CASE StartRead
  BY <1>2, NoNamesTyped DEF StartRead
<1>3. CASE FetchKeys
  <2>1. keys' \in BOOLEAN
    BY <1>3, Zenon DEF FetchKeys
  <2>2. QED
    BY <1>3, <2>1 DEF FetchKeys
<1>4. CASE TestAuth
  <2>1. CASE "hsm" \in up
    BY <1>4, <2>1 DEF TestAuth, AfterAuth
  <2>2. CASE "hsm" \notin up
    BY <1>4, <2>2, TryAgainTyped DEF TestAuth
  <2>3. QED
    BY <2>1, <2>2
<1>5. CASE RefreshToken
  <2>1. CASE token = "good" \/ "opaal" \in up
    BY <1>5, <2>1 DEF RefreshToken, AfterAuth
  <2>2. CASE ~(token = "good" \/ "opaal" \in up)
    BY <1>5, <2>2, TryAgainTyped DEF RefreshToken
  <2>3. QED
    BY <2>1, <2>2
<1>6. CASE OpenStore
  <2>1. CASE "store" \in up
    BY <1>6, <2>1 DEF OpenStore
  <2>2. CASE "store" \notin up
    BY <1>6, <2>2, TryAgainTyped DEF OpenStore
  <2>3. QED
    BY <2>1, <2>2
<1>7. CASE GetComponents
  <2>1. CASE "hsm" \in up
    <3>1. read' \in Names
      BY <1>7, <2>1 DEF GetComponents, Names, Nodes
    <3>2. QED
      BY <1>7, <2>1, <3>1 DEF GetComponents
  <2>2. CASE "hsm" \notin up
    BY <1>7, <2>2, FailTyped DEF GetComponents
  <2>3. QED
    BY <2>1, <2>2
<1>8. CASE GetEndpoints
  <2>1. CASE "hsm" \in up
    <3>1. read' \in Names
      BY <1>8, <2>1 DEF GetEndpoints, Names, Bmcs
    <3>2. QED
      BY <1>8, <2>1, <3>1 DEF GetEndpoints
  <2>2. CASE "hsm" \notin up
    BY <1>8, <2>2, FailTyped DEF GetEndpoints
  <2>3. QED
    BY <2>1, <2>2
<1>9. CASE GetEthernet
  BY <1>9, FailTyped DEF GetEthernet, Return
<1>10. CASE Post
  BY <1>10 DEF Post, Taken, Conflict, Return
<1>11. CASE Patch
  BY <1>11 DEF Patch, Return
<1>12. CASE Restart
  <2>1. keys' \in BOOLEAN /\ auth' \in BOOLEAN
    BY <1>12, Zenon DEF Restart, Forget
  <2>2. QED
    BY <1>12, <2>1, NoNamesTyped DEF Restart, Forget
<1>13. QED
  BY <1>1, <1>2, <1>3, <1>4, <1>5, <1>6, <1>7, <1>8, <1>9, <1>10, <1>11, <1>12 DEF BssStep

LEMMA StepTypeOK == TypeOK /\ [Next]_vars => TypeOK'
<1>1. CASE UNCHANGED vars
  BY <1>1 DEF TypeOK, vars, hsmVars, boundVars
<1>2. ASSUME TypeOK, Next PROVE TypeOK'
  BY <1>2, ServicesTyped, BssTyped DEF Next
<1>3. QED
  BY <1>1, <1>2

(* TypeOK: every variable of main, of a read and of the services stays in  *)
(* its range, the attempts of each loop below their count.                 *)
THEOREM TypeCorrect == Spec => []TypeOK
<1>1. QED
  BY InitTypeOK, StepTypeOK, PTL DEF Spec
-----------------------------------------------------------------------------
(* SubscriptionInv does not depend on the other parts.                     *)
LEMMA StepSubscription ==
  ASSUME LostAnswers = FALSE, TypeOK, SubscriptionInv, [Next]_vars
  PROVE  SubscriptionInv'
<1> USE DEF SubscriptionInv, SubscriptionHeld, hsmVars, boundVars
<1>1. CASE UNCHANGED vars
  BY <1>1 DEF vars
<1>2. CASE HsmChanges \/ TokenExpires \/ \E s \in Service : GoesDown(s) \/ GoesSilent(s) \/ ComesBack(s)
  BY <1>2 DEF HsmChanges, TokenExpires, GoesDown, GoesSilent, ComesBack
<1>3. CASE HmnfdForgets
  <2>1. forgets' # 0
    BY <1>3, SessionAssumption DEF HmnfdForgets, TypeOK
  <2>2. QED
    BY <1>3, <2>1 DEF HmnfdForgets
<1>4. CASE Start \/ StartRead \/ FetchKeys
  BY <1>4 DEF Start, StartRead, FetchKeys
<1>5. Fail => components' \in {components, NoNames} /\ pc' \in {"down", "idle"}
  BY DEF Fail, Forget, GivenUp
<1>6. pc \notin {"post", "patch"} /\ TryAgain
        => components' \in {components, NoNames} /\ pc' \notin {"post", "patch"}
  BY <1>5 DEF TryAgain
<1>7. CASE TestAuth \/ RefreshToken \/ OpenStore
  <2>1. components' \in {components, NoNames} /\ pc' \notin {"post", "patch"}
    BY <1>6, <1>7 DEF TestAuth, RefreshToken, OpenStore, AfterAuth
  <2>2. sub' = sub /\ forgets' = forgets
    BY <1>7 DEF TestAuth, RefreshToken, OpenStore
  <2>3. QED
    BY <2>1, <2>2
<1>8. CASE GetComponents \/ GetEndpoints
  <2>1. components' \in {components, NoNames} /\ pc' \notin {"post", "patch"}
    BY <1>5, <1>8 DEF GetComponents, GetEndpoints
  <2>2. sub' = sub /\ forgets' = forgets
    BY <1>8 DEF GetComponents, GetEndpoints
  <2>3. QED
    BY <2>1, <2>2
<1>9. CASE GetEthernet
  <2>1. read.nodes # None => read # NoNames
    BY DEF NoNames
  <2>2. QED
    BY <1>5, <1>9, <2>1 DEF GetEthernet, Return
<1>10. CASE Post
  BY <1>10 DEF Post, Taken, Conflict, Return
<1>11. CASE Patch
  BY <1>11 DEF Patch, Return
<1>12. CASE Restart
  BY <1>12 DEF Restart, Forget
<1>13. QED
  BY <1>1, <1>2, <1>3, <1>4, <1>7, <1>8, <1>9, <1>10, <1>11, <1>12 DEF Next, BssStep

LEMMA InitSubscription == Init => SubscriptionInv
BY DEF Init, SubscriptionInv, SubscriptionHeld

(* SubscriptionHeld: with hmnfd's answers not lost, what BSS notes as      *)
(* subscribed is what hmnfd has, whatever goes down, restarts or changes.  *)
THEOREM SubscriptionTrue == ASSUME LostAnswers = FALSE PROVE Spec => []SubscriptionHeld
<1>1. TypeOK /\ SubscriptionInv /\ [Next]_vars => TypeOK' /\ SubscriptionInv'
  BY StepTypeOK, StepSubscription
<1>2. Init => TypeOK /\ SubscriptionInv
  BY InitTypeOK, InitSubscription
<1>3. SubscriptionInv => SubscriptionHeld
  BY DEF SubscriptionInv
<1>4. QED
  BY <1>1, <1>2, <1>3, PTL DEF Spec

-----------------------------------------------------------------------------
(* Tokens and HSM's wish for them stay as they are during the GETs.        *)
LEMMA StepHollow ==
  ASSUME LongTokens = TRUE, TypeOK, HollowInv, [Next]_vars
  PROVE  HollowInv'
<1> USE DEF HollowInv, NeverHollow, Whole, Refused, hsmVars, boundVars, Gets
<1>1. CASE UNCHANGED vars
  BY <1>1 DEF vars
<1>2. CASE HsmChanges \/ TokenExpires
  BY <1>2 DEF HsmChanges, TokenExpires
<1>3. CASE HmnfdForgets \/ \E s \in Service : GoesDown(s) \/ GoesSilent(s) \/ ComesBack(s)
  BY <1>3 DEF HmnfdForgets, GoesDown, GoesSilent, ComesBack
<1>4. CASE Start \/ StartRead \/ FetchKeys
  BY <1>4 DEF Start, StartRead, FetchKeys
<1>5. Fail => data' \in {data, NoNames} /\ pc' \in {"down", "idle"}
  BY DEF Fail, Forget, GivenUp
<1>6. CASE TestAuth \/ RefreshToken \/ OpenStore
  <2>1. pc \in {"open", "test", "opentoken", "token", "store"}
    BY <1>6 DEF TestAuth, RefreshToken, OpenStore
  <2>2. TryAgain => data' \in {data, NoNames} /\ pc' \in {pc, "down", "idle"}
    BY <1>5 DEF TryAgain
  <2>3. data' \in {data, NoNames}
        /\ pc' \in {"open", "test", "opentoken", "token", "store", "down", "idle", "components"}
    BY <1>6, <2>1, <2>2 DEF TestAuth, RefreshToken, OpenStore, AfterAuth
  <2>4. QED
    BY <2>3
<1>7. CASE GetComponents
  BY <1>5, <1>7 DEF GetComponents, TypeOK
<1>8. CASE GetEndpoints
  BY <1>5, <1>8, SessionAssumption DEF GetEndpoints, Bmcs, TypeOK, Names
<1>9. CASE GetEthernet
  BY <1>5, <1>9 DEF GetEthernet, Return
<1>10. CASE Post
  BY <1>10 DEF Post, Taken, Conflict, Return
<1>11. CASE Patch
  BY <1>11 DEF Patch, Return
<1>12. CASE Restart
  BY <1>12 DEF Restart, Forget
<1>13. QED
  BY <1>1, <1>2, <1>3, <1>4, <1>6, <1>7, <1>8, <1>9, <1>10, <1>11, <1>12 DEF Next, BssStep

(* NeverHollow: with tokens that outlast a read, no error document of HSM  *)
(* is stored as an empty list.                                             *)
THEOREM NothingHollow == ASSUME LongTokens = TRUE PROVE Spec => []NeverHollow
<1>1. TypeOK /\ HollowInv /\ [Next]_vars => TypeOK' /\ HollowInv'
  BY StepTypeOK, StepHollow
<1>2. Init => TypeOK /\ HollowInv
  BY InitTypeOK DEF Init, HollowInv, NeverHollow
<1>3. HollowInv => NeverHollow
  BY DEF HollowInv
<1>4. QED
  BY <1>1, <1>2, <1>3, PTL DEF Spec

(* ReadSubscribes: a read that ends with hmnfd up leaves hmnfd with the    *)
(* list that was read.                                                     *)
THEOREM ReadsSubscribe ==
  ASSUME LostAnswers = FALSE, LongTokens = TRUE PROVE Spec => ReadSubscribes
<1> DEFINE Subscribes ==
      EndsRead /\ data' = read /\ data' # NoNames /\ "hmnfd" \in up /\ forgets = 0 => sub' = read
<1>1. TypeOK /\ SubscriptionInv /\ HollowInv /\ [Next]_vars
        => TypeOK' /\ SubscriptionInv' /\ HollowInv'
  BY StepTypeOK, StepSubscription, StepHollow
<1>2. Init => TypeOK /\ SubscriptionInv /\ HollowInv
  BY InitTypeOK, InitSubscription DEF Init, HollowInv, NeverHollow
<1>3. ASSUME TypeOK, SubscriptionInv, HollowInv, Next, EndsRead, data' = read, data' # NoNames,
             "hmnfd" \in up, forgets = 0
      PROVE  sub' = read
  <2> USE DEF SubscriptionInv, SubscriptionHeld
  <2>1. CASE GetEthernet
    <3>1. read.nodes \in List /\ ~Refused
      BY <1>3, <2>1 DEF HollowInv, Whole, GetEthernet, EndsRead
    <3>2. read = components
      BY <1>3, <2>1, <3>1, SessionAssumption DEF GetEthernet, EndsRead
    <3>3. QED
      BY <1>3, <2>1, <3>2 DEF GetEthernet
  <2>2. CASE Post
    BY <1>3, <2>2 DEF Post, Taken, Conflict, Return, EndsRead
  <2>3. CASE Patch
    BY <1>3, <2>3 DEF Patch, Return, EndsRead
  <2>4. GetEthernet \/ Post \/ Patch
    BY <1>3 DEF Next, BssStep, EndsRead, HsmChanges, TokenExpires, HmnfdForgets, GoesDown, GoesSilent, ComesBack,
       Start, StartRead, FetchKeys, TestAuth, RefreshToken, OpenStore, GetComponents,
       GetEndpoints, Restart, hsmVars, boundVars
  <2>5. QED
    BY <2>1, <2>2, <2>3, <2>4
<1>4. TypeOK /\ SubscriptionInv /\ HollowInv /\ [Next]_vars => [Subscribes]_vars
  BY <1>3
<1>5. QED
  BY <1>1, <1>2, <1>4, PTL DEF Spec, ReadSubscribes

-----------------------------------------------------------------------------
LEMMA StepReach == TypeOK /\ ReachInv /\ [Next]_vars => ReachInv'
<1> SUFFICES ASSUME TypeOK, ReachInv, [Next]_vars PROVE ReachInv'
  OBVIOUS
<1> USE DEF ReachInv, hsmVars, boundVars
<1>1. CASE UNCHANGED vars
  BY <1>1 DEF vars
<1>2. CASE HsmChanges \/ TokenExpires \/ HmnfdForgets
  BY <1>2 DEF HsmChanges, TokenExpires, HmnfdForgets
<1>3. ASSUME NEW s \in Service, GoesDown(s) \/ GoesSilent(s) PROVE ReachInv'
  <2>1. outages' # 0
    BY <1>3, SessionAssumption DEF GoesDown, GoesSilent, TypeOK
  <2>2. QED
    BY <1>3, <2>1 DEF GoesDown, GoesSilent
<1>4. ASSUME NEW s \in Service, ComesBack(s) PROVE ReachInv'
  BY <1>4 DEF ComesBack
<1>5. CASE Start \/ StartRead
  BY <1>5 DEF Start, StartRead
<1>6. CASE FetchKeys
  <2>1. outages = 0 => "jwks" \in up
    BY DEF Service
  <2>2. QED
    BY <1>6, <2>1 DEF FetchKeys
<1>7. Fail => pc' \in {"down", "idle"} /\ (keys' = keys \/ ~keys')
  BY DEF Fail, Forget, GivenUp
<1>8. TryAgain => \/ pc' = pc /\ keys' = keys
                  \/ pc' \in {"down", "idle"} /\ (keys' = keys \/ ~keys')
  BY <1>7 DEF TryAgain
<1>9. CASE TestAuth \/ RefreshToken \/ OpenStore
  <2>1. /\ pc \in {"open", "test", "opentoken", "token", "store"}
        /\ up' = up /\ outages' = outages
    BY <1>9 DEF TestAuth, RefreshToken, OpenStore
  <2>2. \/ keys' = keys /\ (pc' \in {"opentoken", "store"} => pc \in {"open", "opentoken", "store"})
             /\ pc' \in {"opentoken", "store", "token", "components", "idle"}
        \/ TryAgain
    BY <1>9 DEF TestAuth, RefreshToken, OpenStore, AfterAuth
  <2>3. CASE TryAgain
    BY <1>8, <2>1, <2>3
  <2>4. QED
    BY <2>1, <2>2, <2>3
<1>10. CASE GetComponents \/ GetEndpoints \/ GetEthernet
  BY <1>7, <1>10 DEF GetComponents, GetEndpoints, GetEthernet, Return
<1>11. CASE Post \/ Patch
  BY <1>11 DEF Post, Taken, Conflict, Patch, Return
<1>12. CASE Restart
  <2>1. pc' = "down" /\ up' = up /\ outages' = outages
    BY <1>12 DEF Restart
  <2>2. ~keys'
    BY <1>12, Zenon DEF Restart, Forget
  <2>3. QED
    BY <2>1, <2>2
<1>13. QED
  BY <1>1, <1>2, <1>3, <1>4, <1>5, <1>6, <1>9, <1>10, <1>11, <1>12 DEF Next, BssStep

(* StartsWhenReachable: only an outage makes BSS give up its start, or     *)
(* serve without its keys.                                                 *)
THEOREM StartSucceeds == Spec => StartsWhenReachable
<1> DEFINE Succeeds ==
      outages = 0 /\ pc \in Starting /\ pc' \notin Starting /\ restarts' = restarts
        => pc' = "idle" /\ keys' = UseJWKS
<1>1. Init => TypeOK /\ ReachInv
  BY InitTypeOK DEF Init, ReachInv
<1>2. TypeOK /\ ReachInv /\ [Next]_vars => TypeOK' /\ ReachInv'
  BY StepTypeOK, StepReach
<1>3. ASSUME TypeOK, ReachInv, Next, outages = 0, pc \in Starting, pc' \notin Starting,
             restarts' = restarts
      PROVE  pc' = "idle" /\ keys' = UseJWKS
  <2>1. up = Service /\ {"hsm", "store", "opaal"} \subseteq up
    BY <1>3 DEF ReachInv, Service
  <2>2. ~Restart
    BY <1>3, SessionAssumption DEF Restart, TypeOK
  <2>3. ~(FetchKeys \/ TestAuth \/ RefreshToken)
    <3>1. ~FetchKeys
      BY <1>3, <2>1 DEF FetchKeys, Starting
    <3>2. ~TestAuth
      <4>1. SUFFICES ASSUME TestAuth PROVE FALSE
        OBVIOUS
      <4>2. pc = "open" /\ "hsm" \in up
        BY <1>3, <2>1, <4>1 DEF TestAuth, Starting
      <4>3. pc' \in {"opentoken", "store"}
        BY <4>1, <4>2 DEF TestAuth, AfterAuth
      <4>4. QED
        BY <1>3, <4>3 DEF Starting
    <3>3. ~RefreshToken
      BY <1>3, <2>1 DEF RefreshToken, AfterAuth, Starting
    <3>4. QED
      BY <3>1, <3>2, <3>3
  <2>4. OpenStore
    BY <1>3, <2>2, <2>3 DEF Next, BssStep, Starting, HsmChanges, TokenExpires, HmnfdForgets,
       GoesDown, GoesSilent, ComesBack, Start, StartRead, GetComponents, GetEndpoints, GetEthernet, Post, Patch,
       hsmVars, boundVars, Gets
  <2>5. pc' = "idle" /\ keys' = keys /\ pc = "store"
    BY <1>3, <2>1, <2>4 DEF OpenStore
  <2>6. keys <=> UseJWKS
    BY <1>3, <2>5 DEF ReachInv
  <2>7. keys \in BOOLEAN /\ UseJWKS \in BOOLEAN
    BY <1>3, SessionAssumption DEF TypeOK
  <2>8. QED
    BY <2>5, <2>6, <2>7
<1>4. TypeOK /\ ReachInv /\ [Next]_vars => [Succeeds]_vars
  BY <1>3
<1>5. QED
  BY <1>1, <1>2, <1>4, PTL DEF Spec, StartsWhenReachable
=============================================================================
