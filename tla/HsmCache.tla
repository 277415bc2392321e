------------------------------ MODULE HsmCache ------------------------------
(***************************************************************************)
(* The cache of the Hardware State Manager's (HSM) data that every request *)
(* of BSS is answered from (sm.go), and the notification protocol that     *)
(* tells it to refresh (scn.go).                                           *)
(*                                                                         *)
(* HSM's contents are abstracted to a version number.  A fetch reads the   *)
(* three collections one after the other, so a snapshot is three versions. *)
(* Requests are processes that step once per access to shared state.       *)
(* Time is counted in seconds, the grain of time.Now().Unix().             *)
(***************************************************************************)
EXTENDS Integers

CONSTANTS
  Node,        \* booting nodes, each with one boot script request at a time
  Caller,      \* clients of POST /hosts and of the cloud-init endpoints
  Worker,      \* goroutines of "go refreshState(ts)"; bounds how many are alive
  Evict,       \* cacheEvictionTime of FindXnameByIP, in seconds
  MaxClock,    \* bound: last second of the behaviours
  MaxVersion,  \* bound: number of versions HSM's contents go through
  MaxFaults,   \* bound: failed HSM fetches and failed accesses to the KV store
  Known,       \* Known[n]: the versions of HSM in which node n is usable
  IpKnown      \* the versions of HSM in which the callers' address is listed

Proc == Node \union Caller \union Worker
Time == 0 .. MaxClock
Version == 1 .. MaxVersion

ASSUME TimeAssumption ==
  /\ Evict \in Nat /\ MaxClock \in Nat /\ MaxVersion \in Nat \ {0}
  /\ Evict < MaxClock /\ MaxFaults \in Nat

ASSUME ProcAssumption ==
  /\ Node \intersect Caller = {}
  /\ Node \intersect Worker = {}
  /\ Caller \intersect Worker = {}

ASSUME DataAssumption ==
  /\ Known \in [Node -> SUBSET Version]
  /\ IpKnown \subseteq Version

(***************************************************************************)
(* smData: the version of each collection it was built from, 0 when nil.   *)
(***************************************************************************)
Snapshot == [comp : 0 .. MaxVersion, ep : 0 .. MaxVersion, eth : 0 .. MaxVersion]
NoData == [comp |-> 0, ep |-> 0, eth |-> 0]

Free == "free"   \* smMutex is not held
ASSUME FreeAssumption == Free \notin Proc

Notification == [ts : Time, ver : Version]

VARIABLES
  clock,        \* time.Now().Unix()
  hsm,          \* current version of HSM's contents
  changedAt,    \* changedAt[v]: the second in which version v appeared
  noticed,      \* last version hmnfd has posted a notification for
  pending,      \* notifications that are timestamped but not yet stored
  kvTs,         \* UpdateTimestampKey in the KV store, 0 when absent
  told,         \* history: newest version a stored notification stood for
  mutex,        \* holder of smMutex
  smTimeStamp, smData,
  okTs,         \* history: smTimeStamp of the last fetch that succeeded
  fetchedAt,    \* history: the second in which the last fetch was decided
  faults,       \* failures so far
  buf,          \* the snapshot the holder of smMutex is reading
  pc, op, arg,  \* per process: step, operation, argument ts of protectedGetState
  got,          \* per process: the data protectedGetState returned
  arch,         \* per node: its request carries the arch parameter
  visible       \* history, per node: the version announced by a notification
                \* that was newer than the cache when the request arrived

hsmVars  == <<clock, hsm, changedAt, noticed>>
noteVars == <<pending, kvTs, told>>
smVars   == <<mutex, smTimeStamp, smData, okTs, fetchedAt, buf>>
procVars == <<pc, op, arg, got, arch, visible>>
vars == <<hsmVars, noteVars, smVars, procVars, faults>>

FetchPc == {"components", "endpoints", "ethernet"}

Init ==
  /\ clock = Evict + 1
  /\ hsm = 1
  /\ changedAt = [v \in Version |-> 0]
  /\ noticed = 1
  /\ pending = {} /\ kvTs = 0 /\ told = 0
  /\ mutex = Free /\ smTimeStamp = 0 /\ smData = NoData
  /\ okTs = 0 /\ fetchedAt = 0 /\ buf = NoData
  /\ faults = 0
  /\ pc = [p \in Proc |-> "idle"]
  /\ op = [p \in Proc |-> "none"]
  /\ arg = [p \in Proc |-> 0]
  /\ got = [p \in Proc |-> NoData]
  /\ arch = [n \in Node |-> FALSE]
  /\ visible = [n \in Node |-> 0]

-----------------------------------------------------------------------------
(* The environment: time, HSM, and hmnfd.                                  *)

Tick ==
  /\ clock < MaxClock
  /\ clock' = clock + 1
  /\ UNCHANGED <<hsm, changedAt, noticed, noteVars, smVars, procVars, faults>>

HsmChange ==
  /\ hsm < MaxVersion
  /\ hsm' = hsm + 1
  /\ changedAt' = [changedAt EXCEPT ![hsm + 1] = clock]
  /\ UNCHANGED <<clock, noticed, noteVars, smVars, procVars, faults>>

(* stateChangeNotification up to the call of time.Now().                   *)
Notify ==
  /\ noticed < hsm
  /\ noticed' = hsm
  /\ pending' = pending \union {[ts |-> clock, ver |-> hsm]}
  /\ UNCHANGED <<clock, hsm, changedAt, kvTs, told, smVars, procVars, faults>>

(* ... and its Store, which handlers of two notifications may reorder.     *)
StoreNotification ==
  \E m \in pending :
    /\ pending' = pending \ {m}
    /\ kvTs' = m.ts
    /\ told' = IF m.ver > told THEN m.ver ELSE told
    /\ UNCHANGED <<hsmVars, smVars, procVars, faults>>

(* A failed Store is only logged: the notification is gone.                *)
StoreNotificationFails ==
  /\ faults < MaxFaults
  /\ faults' = faults + 1
  /\ \E m \in pending : pending' = pending \ {m}
  /\ UNCHANGED <<hsmVars, kvTs, told, smVars, procVars>>

-----------------------------------------------------------------------------
(* protectedGetState(ts).                                                  *)

(* Mutant: the stamp is not compared.                                      *)
MustFetchForced(ts) == ts < 0 \/ smData = NoData

MustFetch(ts) == ts < 0 \/ ts > smTimeStamp \/ smData = NoData

(* What a process does with the result: HostsPost and the goroutines of    *)
(* checkState drop it, everyone else goes on to use it.                    *)
AfterGet(p) == IF p \in Worker \/ op[p] = "hosts" THEN "idle" ELSE "got"

AcquireHit(p) ==
  /\ pc[p] = "lock" /\ mutex = Free
  /\ ~MustFetch(arg[p])
  /\ got' = [got EXCEPT ![p] = smData]
  /\ pc' = [pc EXCEPT ![p] = AfterGet(p)]
  /\ UNCHANGED <<hsmVars, noteVars, smVars, op, arg, arch, visible, faults>>

(* The timestamp is set before the data is read.                           *)
AcquireMiss(p) ==
  /\ pc[p] = "lock" /\ mutex = Free
  /\ MustFetch(arg[p])
  /\ mutex' = p
  /\ smTimeStamp' = IF arg[p] <= 0 THEN clock ELSE arg[p]
  /\ fetchedAt' = clock
  /\ pc' = [pc EXCEPT ![p] = "components"]
  /\ UNCHANGED <<hsmVars, noteVars, smData, okTs, buf, op, arg, got, arch,
                 visible, faults>>

GetComponents(p) ==
  /\ pc[p] = "components"
  /\ buf' = [comp |-> hsm, ep |-> 0, eth |-> 0]
  /\ pc' = [pc EXCEPT ![p] = "endpoints"]
  /\ UNCHANGED <<hsmVars, noteVars, mutex, smTimeStamp, smData, okTs, fetchedAt,
                 op, arg, got, arch, visible, faults>>

GetEndpoints(p) ==
  /\ pc[p] = "endpoints"
  /\ buf' = [buf EXCEPT !.ep = hsm]
  /\ pc' = [pc EXCEPT ![p] = "ethernet"]
  /\ UNCHANGED <<hsmVars, noteVars, mutex, smTimeStamp, smData, okTs, fetchedAt,
                 op, arg, got, arch, visible, faults>>

(* Mutant: the data is stamped with the second its reading ended in.       *)
GetEthernetStamped(p) ==
  /\ pc[p] = "ethernet"
  /\ smData' = [buf EXCEPT !.eth = hsm]
  /\ smTimeStamp' = clock /\ okTs' = clock
  /\ buf' = NoData
  /\ mutex' = Free
  /\ got' = [got EXCEPT ![p] = smData']
  /\ pc' = [pc EXCEPT ![p] = AfterGet(p)]
  /\ UNCHANGED <<hsmVars, noteVars, fetchedAt, op, arg, arch, visible, faults>>

(* The last GET, after which the new data is published and the lock freed. *)
GetEthernet(p) ==
  /\ pc[p] = "ethernet"
  /\ smData' = [buf EXCEPT !.eth = hsm]
  /\ okTs' = smTimeStamp
  /\ buf' = NoData
  /\ mutex' = Free
  /\ got' = [got EXCEPT ![p] = smData']
  /\ pc' = [pc EXCEPT ![p] = AfterGet(p)]
  /\ UNCHANGED <<hsmVars, noteVars, smTimeStamp, fetchedAt, op, arg, arch,
                 visible, faults>>

(* Mutant: the nil result of a failed fetch is published.                  *)
FetchFailsNil(p) ==
  /\ pc[p] \in FetchPc
  /\ faults < MaxFaults
  /\ faults' = faults + 1
  /\ buf' = NoData /\ smData' = NoData
  /\ mutex' = Free
  /\ got' = [got EXCEPT ![p] = NoData]
  /\ pc' = [pc EXCEPT ![p] = AfterGet(p)]
  /\ UNCHANGED <<hsmVars, noteVars, smTimeStamp, okTs, fetchedAt, op, arg, arch,
                 visible>>

(* getStateFromHSM returns nil: the old data stays, under the new stamp.   *)
FetchFails(p) ==
  /\ pc[p] \in FetchPc
  /\ faults < MaxFaults
  /\ faults' = faults + 1
  /\ buf' = NoData
  /\ mutex' = Free
  /\ got' = [got EXCEPT ![p] = smData]
  /\ pc' = [pc EXCEPT ![p] = AfterGet(p)]
  /\ UNCHANGED <<hsmVars, noteVars, smTimeStamp, smData, okTs, fetchedAt, op,
                 arg, arch, visible>>

Fetch(p) == GetComponents(p) \/ GetEndpoints(p) \/ GetEthernet(p) \/ FetchFails(p)

-----------------------------------------------------------------------------
(* BootscriptGet, from its lookup to its answer.                           *)

(* A request of node n arrives; a says whether its URL carries arch.       *)
Request(n, a) ==
  /\ pc' = [pc EXCEPT ![n] = "lock"]
  /\ op' = [op EXCEPT ![n] = "boot"]
  /\ arg' = [arg EXCEPT ![n] = 0]
  /\ arch' = [arch EXCEPT ![n] = a]
  /\ visible' = [visible EXCEPT ![n] = IF kvTs > smTimeStamp THEN told ELSE 0]
  /\ UNCHANGED <<hsmVars, noteVars, smVars, got, faults>>

StartBoot(n) == pc[n] = "idle" /\ \E a \in BOOLEAN : Request(n, a)

(* The node runs the "sleep; chain" script it was sent.                    *)
Retry(n) == pc[n] = "chained" /\ Request(n, arch[n])

(* The node is not in the components, or its endpoint is not enabled.      *)
Unknown(n) == got[n].comp \notin Known[n] \/ got[n].ep \notin Known[n]

(* checkState's argument and its verdict.                                  *)
Forced(n) == Unknown(n) /\ ~arch[n]
OutOfDate == smTimeStamp < kvTs

(* The lookup dereferences a nil *SMData: the handler panics.              *)
BootPanic(n) ==
  /\ pc[n] = "got"
  /\ got[n] = NoData
  /\ pc' = [pc EXCEPT ![n] = "idle"]
  /\ UNCHANGED <<hsmVars, noteVars, smVars, op, arg, got, arch, visible, faults>>

(* checkState starts refreshState(ts) in goroutine w and the node is told  *)
(* to come back, with the architecture or without.                         *)
Chain(n, w, ts, a) ==
  /\ pc[n] = "got" /\ pc[w] = "idle"
  /\ got[n] # NoData
  /\ Forced(n) \/ OutOfDate
  /\ pc' = [pc EXCEPT ![n] = "chained", ![w] = "lock"]
  /\ op' = [op EXCEPT ![w] = "refresh"]
  /\ arg' = [arg EXCEPT ![w] = ts]
  /\ arch' = [arch EXCEPT ![n] = a]
  /\ UNCHANGED <<hsmVars, noteVars, smVars, got, visible, faults>>

(* Mutants: the chain loses the architecture; the refresh is not told the  *)
(* notification's timestamp.                                               *)
DelayNoArch(n, w) == Chain(n, w, IF Forced(n) THEN -1 ELSE kvTs, FALSE)
DelayNoStamp(n, w) == Chain(n, w, IF Forced(n) THEN -1 ELSE 0, Unknown(n))

(* Only the chain for unknown nodes carries the architecture.  A component *)
(* that is not enabled gets the other one if there was no discovery kernel *)
(* for it, and the cache fell out of date while BSS looked.                *)
Delay(n, w) ==
  \/ Chain(n, w, IF Forced(n) THEN -1 ELSE kvTs, Unknown(n))
  \/ /\ ~Forced(n) /\ got[n].comp \in Known[n]
     /\ Chain(n, w, kvTs, FALSE)

(* The script is built from what the lookup returned.                      *)
Answer(n) ==
  /\ pc[n] = "got"
  /\ got[n] # NoData
  /\ ~Forced(n)
  /\ \/ ~OutOfDate /\ UNCHANGED faults
     \/ faults < MaxFaults /\ faults' = faults + 1   \* kvstore.Get failed
  /\ pc' = [pc EXCEPT ![n] = "idle"]
  /\ UNCHANGED <<hsmVars, noteVars, smVars, op, arg, got, arch, visible>>

-----------------------------------------------------------------------------
(* HostsPost and FindXnameByIP.                                            *)

Call(c, o, ts) ==
  /\ pc' = [pc EXCEPT ![c] = "lock"]
  /\ op' = [op EXCEPT ![c] = o]
  /\ arg' = [arg EXCEPT ![c] = ts]
  /\ UNCHANGED <<hsmVars, noteVars, smVars, got, arch, visible, faults>>

HostsPost(c) == pc[c] = "idle" /\ Call(c, "hosts", clock)

(* Mutant: cacheEvictionTime is taken for minutes.                         *)
FindXnameByIPMinutes(c) == pc[c] = "idle" /\ Call(c, "ip", clock - 60 * Evict)

FindXnameByIP(c) == pc[c] = "idle" /\ Call(c, "ip", clock - Evict)

IpFound(c) == got[c].eth \in IpKnown

(* Not found in the first answer: force current data.                      *)
FindAgain(c) ==
  /\ pc[c] = "got" /\ op[c] = "ip"
  /\ got[c] # NoData /\ ~IpFound(c)
  /\ Call(c, "ip2", clock)

(* Found, or not found twice, or a panic on nil data.                      *)
IpAnswer(c) ==
  /\ pc[c] = "got"
  /\ got[c] = NoData \/ IpFound(c) \/ op[c] = "ip2"
  /\ pc' = [pc EXCEPT ![c] = "idle"]
  /\ UNCHANGED <<hsmVars, noteVars, smVars, op, arg, got, arch, visible, faults>>

-----------------------------------------------------------------------------
Acquire(p) == AcquireHit(p) \/ AcquireMiss(p)

NodeStep(n) ==
  \/ StartBoot(n) \/ Retry(n) \/ BootPanic(n) \/ Answer(n)
  \/ \E w \in Worker : Delay(n, w)

CallerStep(c) == HostsPost(c) \/ FindXnameByIP(c) \/ FindAgain(c) \/ IpAnswer(c)

Environment ==
  Tick \/ HsmChange \/ Notify \/ StoreNotification \/ StoreNotificationFails

Next ==
  \/ Environment
  \/ \E p \in Proc : Acquire(p) \/ Fetch(p)
  \/ \E n \in Node : NodeStep(n)
  \/ \E c \in Caller : CallerStep(c)

Spec == Init /\ [][Next]_vars

(***************************************************************************)
(* Handlers that have started run on, HSM answers or fails each GET, and   *)
(* sync.Mutex does not starve a waiter.  Nodes run the chain script they   *)
(* were sent, and boot again from time to time.                            *)
(***************************************************************************)
Fairness ==
  /\ \A p \in Proc : SF_vars(Acquire(p)) /\ WF_vars(Fetch(p))
  /\ \A n \in Node :
       /\ WF_vars(StartBoot(n)) /\ WF_vars(Retry(n))
       /\ WF_vars(BootPanic(n)) /\ WF_vars(Answer(n))
       /\ SF_vars(\E w \in Worker : Delay(n, w))
  /\ \A c \in Caller : WF_vars(FindAgain(c) \/ IpAnswer(c))

FairSpec == Spec /\ Fairness

-----------------------------------------------------------------------------
TypeOK ==
  /\ clock \in Evict + 1 .. MaxClock /\ hsm \in Version /\ noticed \in Version
  /\ changedAt \in [Version -> Time]
  /\ pending \subseteq Notification
  /\ kvTs \in Time /\ told \in 0 .. MaxVersion
  /\ mutex \in Proc \union {Free}
  /\ smTimeStamp \in Time /\ okTs \in Time /\ fetchedAt \in Time
  /\ smData \in Snapshot /\ buf \in Snapshot
  /\ faults \in 0 .. MaxFaults
  /\ pc \in [Proc -> {"idle", "lock", "got", "chained"} \union FetchPc]
  /\ op \in [Proc -> {"none", "boot", "hosts", "ip", "ip2", "refresh"}]
  /\ arg \in [Proc -> Time \union {-1}]
  /\ got \in [Proc -> Snapshot]
  /\ arch \in [Node -> BOOLEAN]
  /\ visible \in [Node -> 0 .. MaxVersion]

(* Everything HSM held before second t is in snapshot d.                   *)
Covers(d, t) == \A v \in 1 .. hsm : changedAt[v] < t => v <= d.comp

(* The timestamp is an honest claim about the data: whatever HSM changed   *)
(* before the second the last good fetch is stamped with has been read,    *)
(* although the stamp is set before the three GETs of getStateFromHSM and  *)
(* the changes, notifications and other refreshes interleave with them.    *)
StampCovered == smData # NoData => Covers(smData, okTs)

(* The contract of protectedGetState(ts): unless something failed, the     *)
(* caller holds data that includes every change made before second ts.     *)
(* For FindXnameByIP this bounds how old a DHCP lease it may answer from.  *)
BoundedStaleness ==
  faults = 0 =>
    \A c \in Caller :
      pc[c] = "got" /\ got[c] # NoData => Covers(got[c], arg[c])

(* The data other requests see never goes back to an older reading of HSM, *)
(* whichever goroutines refresh and in whatever order they get the lock.   *)
NoOlder(d, e) == d.comp <= e.comp /\ d.ep <= e.ep /\ d.eth <= e.eth
DataNeverRegresses == [][NoOlder(smData, smData')]_vars

(* A node that asked for a boot script is not sent round the chain of      *)
(* "sleep; chain" scripts forever: neither a node that HSM does not know   *)
(* yet or no longer, nor the notification on record keeps it there, though *)
(* its refresh may fail or be overtaken.  Newer notifications may, if they *)
(* never stop coming: BSS then refreshes again for each.                   *)
AskedIsAnswered ==
  \A n \in Node, t \in Time :
    (pc[n] = "lock" /\ kvTs = t) ~> (pc[n] = "idle" \/ kvTs > t)

(* A notification that checkState can tell from the cache's stamp is       *)
(* followed by data that includes what it, and any before it, announced.   *)
(* Two things may undo it: a failure, because the stamp of a fetch stays   *)
(* when the fetch fails, and a handler that is late and stores an older    *)
(* timestamp over it.                                                      *)
SeenNotificationIsFetched ==
  \A v \in Version \ {1}, t \in Time \ {0} :
    (faults = 0 /\ kvTs = t /\ OutOfDate /\ told = v)
      ~> (faults > 0 \/ kvTs < t \/ (smData # NoData /\ smData.comp >= v))

(* scn.go, stateChangeNotification: "giving BSS time to retrieve the SM    *)
(* data", also if the first attempt to retrieve it fails.                  *)
NotificationSurvivesFailure ==
  \A v \in Version \ {1}, t \in Time \ {0} :
    (kvTs = t /\ OutOfDate /\ told = v)
      ~> (kvTs < t \/ (smData # NoData /\ smData.comp >= v))

(* The same: "This is the approx. time that SM updated something", for     *)
(* the newest update that a notification was stored for.                   *)
NewestIsFetched ==
  \A v \in Version :
    (faults = 0 /\ OutOfDate /\ told = v)
      ~> (faults > 0 \/ (smData # NoData /\ smData.comp >= v))

(* scn.go, stateChangeNotification: "The next time BSS needs to check a    *)
(* host, it will see if it is up-to-date, and if not, it will fetch new SM *)
(* data at that time", for every notification that was stored.             *)
NotificationIsFetched ==
  \A v \in Version : told = v ~> (smData # NoData /\ smData.comp >= v)

(* The same comment on requests: BSS "will respond to immediate requests   *)
(* with a chained response", so a request that arrives while a newer       *)
(* notification is on record is not answered from the data before it.      *)
NoStaleScript ==
  [][\A n \in Node : Answer(n) => got[n].comp >= visible[n]]_vars

(* sm.go, FindXnameByIP: its first lookup "will cause refreshState to      *)
(* refresh ever `cacheEvictionTime` minutes", not more often.              *)
EvictionInterval ==
  [][\A c \in Caller :
       AcquireMiss(c) /\ op[c] = "ip" /\ smData # NoData
         => clock >= fetchedAt + Evict]_vars

=============================================================================
