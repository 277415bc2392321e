--------------------------- MODULE HsmCacheProofs ---------------------------
(***************************************************************************)
(* Safety of HsmCache for every set of nodes, callers and goroutines and   *)
(* every bound: the cache's timestamp is an honest claim about its data.   *)
(***************************************************************************)
EXTENDS HsmCache, TLAPS

(* The union of the next-state relation's parts, one disjunct per action.  *)
ProcStep(p) ==
  AcquireHit(p) \/ AcquireMiss(p) \/ GetComponents(p) \/ GetEndpoints(p)
    \/ GetEthernet(p) \/ FetchFails(p)

(* No recorded second lies in the future.                                  *)
ClockInv ==
  /\ smTimeStamp <= clock /\ okTs <= clock /\ kvTs <= clock
  /\ \A m \in pending : m.ts <= clock
  /\ \A p \in Proc : arg[p] <= clock
  /\ \A v \in 1 .. hsm : changedAt[v] <= clock

(* Only the holder of smMutex fetches, under a stamp no older than it asked. *)
LockInv ==
  \A p \in Proc : pc[p] \in FetchPc => mutex = p /\ arg[p] <= smTimeStamp

(* What has been read so far is at least what the cache holds.             *)
VersionInv ==
  /\ NoOlder(smData, [comp |-> hsm, ep |-> hsm, eth |-> hsm])
  /\ \A p \in Proc :
       /\ pc[p] \in {"endpoints", "ethernet"} =>
            smData.comp <= buf.comp /\ buf.comp <= hsm /\ Covers(buf, smTimeStamp)
       /\ pc[p] = "ethernet" => smData.ep <= buf.ep /\ buf.ep <= hsm

(* Without failures the stamp is the stamp of the last good fetch.         *)
FaultFreeInv == faults = 0 /\ mutex = Free => okTs = smTimeStamp

IInv ==
  /\ TypeOK /\ ClockInv /\ LockInv /\ VersionInv
  /\ StampCovered /\ FaultFreeInv /\ BoundedStaleness

-----------------------------------------------------------------------------
LEMMA InitIInv == Init => IInv
<1> SUFFICES ASSUME Init PROVE IInv
  OBVIOUS
<1> USE TimeAssumption, FreeAssumption DEF Init
<1>1. TypeOK
  BY DEF TypeOK, Time, Version, Snapshot, NoData
<1>2. ClockInv
  BY DEF ClockInv, Version
<1>3. LockInv
  BY DEF LockInv, FetchPc
<1>4. VersionInv
  BY DEF VersionInv, NoOlder, NoData
<1>5. StampCovered /\ FaultFreeInv /\ BoundedStaleness
  BY <1>1 DEF StampCovered, FaultFreeInv, BoundedStaleness, Proc
<1>6. QED
  BY <1>1, <1>2, <1>3, <1>4, <1>5 DEF IInv

LEMMA VersionRange == \A v \in Version : v \in 1 .. MaxVersion /\ v \in 0 .. MaxVersion
BY TimeAssumption DEF Version

(* TypeOK is inductive by itself.                                          *)
LEMMA TypeStep == TypeOK /\ [Next]_vars => TypeOK'
<1> SUFFICES ASSUME TypeOK, [Next]_vars PROVE TypeOK'
  OBVIOUS
<1> USE TimeAssumption DEF TypeOK, hsmVars, noteVars, smVars, procVars
<1>1. CASE Tick
  BY <1>1 DEF Tick, Time
<1>2. CASE HsmChange
  BY <1>2 DEF HsmChange, Version, Time
<1>3. CASE Notify
  BY <1>3 DEF Notify, Notification, Time
<1>4. CASE StoreNotification
  BY <1>4 DEF StoreNotification, Notification, Version
<1>5. CASE StoreNotificationFails
  BY <1>5 DEF StoreNotificationFails
<1>6. ASSUME NEW p \in Proc, ProcStep(p) PROVE TypeOK'
  <2>1. CASE AcquireHit(p)
    BY <2>1 DEF AcquireHit, AfterGet
  <2>2. CASE AcquireMiss(p)
    BY <2>2 DEF AcquireMiss, FetchPc, Time
  <2>3. CASE GetComponents(p)
    <3>1. buf' \in Snapshot
      BY <2>3 DEF GetComponents, Version, Snapshot
    <3>2. pc' \in [Proc -> {"idle", "lock", "got", "chained"} \union FetchPc]
      BY <2>3 DEF GetComponents, FetchPc
    <3>3. QED
      BY <2>3, <3>1, <3>2 DEF GetComponents
  <2>4. CASE GetEndpoints(p)
    <3>1. buf' \in Snapshot
      BY <2>4, VersionRange DEF GetEndpoints, Snapshot
    <3>2. QED
      BY <2>4, <3>1 DEF GetEndpoints, FetchPc
  <2>5. CASE GetEthernet(p)
    <3>1. smData' \in Snapshot
      BY <2>5, VersionRange DEF GetEthernet, Snapshot
    <3>2. buf' \in Snapshot
      BY <2>5 DEF GetEthernet, Snapshot, NoData
    <3>3. pc' \in [Proc -> {"idle", "lock", "got", "chained"} \union FetchPc]
      BY <2>5 DEF GetEthernet, AfterGet
    <3>4. QED
      BY <2>5, <3>1, <3>2, <3>3 DEF GetEthernet
  <2>6. CASE FetchFails(p)
    BY <2>6 DEF FetchFails, AfterGet, FetchPc, Version, Snapshot, NoData
  <2>7. QED
    BY <1>6, <2>1, <2>2, <2>3, <2>4, <2>5, <2>6 DEF ProcStep
<1>7. ASSUME NEW n \in Node, NodeStep(n) PROVE TypeOK'
  <2> n \in Proc
    BY DEF Proc
  <2>1. CASE StartBoot(n) \/ Retry(n)
    BY <2>1 DEF StartBoot, Retry, Request, Time
  <2>2. CASE BootPanic(n) \/ Answer(n)
    BY <2>2 DEF BootPanic, Answer
  <2>3. ASSUME NEW w \in Worker, Delay(n, w) PROVE TypeOK'
    <3>1. Unknown(n) \in BOOLEAN
      BY DEF Unknown
    <3>2. \E ts \in Time \union {-1}, a \in BOOLEAN : Chain(n, w, ts, a)
      <4>1. CASE Chain(n, w, IF Forced(n) THEN -1 ELSE kvTs, Unknown(n))
        <5>1. (IF Forced(n) THEN -1 ELSE kvTs) \in Time \union {-1}
          OBVIOUS
        <5>2. QED
          BY <3>1, <4>1, <5>1
      <4>2. CASE Chain(n, w, kvTs, FALSE)
        <5>1. kvTs \in Time \union {-1} /\ FALSE \in BOOLEAN
          OBVIOUS
        <5>2. QED
          BY <4>2, <5>1
      <4>3. QED
        BY <2>3, <4>1, <4>2 DEF Delay
    <3>3. PICK ts \in Time \union {-1}, a \in BOOLEAN : Chain(n, w, ts, a)
      BY <3>2
    <3>4. QED
      BY <3>3 DEF Chain, Proc
  <2>4. QED
    BY <1>7, <2>1, <2>2, <2>3 DEF NodeStep
<1>8. ASSUME NEW c \in Caller, CallerStep(c) PROVE TypeOK'
  <2> c \in Proc
    BY DEF Proc
  <2>1. CASE HostsPost(c) \/ FindXnameByIP(c) \/ FindAgain(c)
    BY <2>1 DEF HostsPost, FindXnameByIP, FindAgain, Call, Time
  <2>2. CASE IpAnswer(c)
    BY <2>2 DEF IpAnswer
  <2>3. QED
    BY <1>8, <2>1, <2>2 DEF CallerStep
<1>9. CASE UNCHANGED vars
  BY <1>9 DEF vars
<1>10. QED
  BY <1>1, <1>2, <1>3, <1>4, <1>5, <1>6, <1>7, <1>8, <1>9
  DEF Next, Environment, Acquire, Fetch, ProcStep

(* Every variable keeps a value of its type.                               *)
THEOREM TypeCorrect == Spec => []TypeOK
<1>1. Init => TypeOK
  BY InitIInv DEF IInv
<1>2. QED
  BY <1>1, TypeStep, PTL DEF Spec

-----------------------------------------------------------------------------
(* Time passes and HSM moves on; what a step adds to HSM's history carries *)
(* the current second.                                                     *)
LEMMA HistoryStep ==
  ASSUME TypeOK, [Next]_vars
  PROVE  /\ clock <= clock' /\ hsm <= hsm'
         /\ \A v \in 1 .. hsm' :
              \/ v \in 1 .. hsm /\ changedAt'[v] = changedAt[v]
              \/ changedAt'[v] = clock
<1> USE DEF TypeOK, noteVars, smVars, procVars
<1>1. CASE Tick
  BY <1>1, TimeAssumption DEF Tick, Version
<1>2. CASE HsmChange
  BY <1>2, TimeAssumption DEF HsmChange, Version
<1>3. CASE UNCHANGED <<clock, hsm, changedAt>>
  BY <1>3, TimeAssumption DEF Version
<1>4. CASE Notify \/ StoreNotification \/ StoreNotificationFails
  BY <1>3, <1>4 DEF Notify, StoreNotification, StoreNotificationFails, hsmVars
<1>5. ASSUME NEW p \in Proc, ProcStep(p) PROVE UNCHANGED <<clock, hsm, changedAt>>
  BY <1>5 DEF ProcStep, AcquireHit, AcquireMiss, GetComponents, GetEndpoints,
              GetEthernet, FetchFails, hsmVars
<1>6. ASSUME NEW n \in Node, NodeStep(n) PROVE UNCHANGED <<clock, hsm, changedAt>>
  BY <1>6 DEF NodeStep, StartBoot, Retry, Request, BootPanic, Answer, Delay, Chain, hsmVars
<1>7. ASSUME NEW c \in Caller, CallerStep(c) PROVE UNCHANGED <<clock, hsm, changedAt>>
  BY <1>7 DEF CallerStep, HostsPost, FindXnameByIP, FindAgain, IpAnswer, Call, hsmVars
<1>8. CASE UNCHANGED vars
  BY <1>3, <1>8 DEF vars, hsmVars
<1>9. QED
  BY <1>1, <1>2, <1>3, <1>4, <1>5, <1>6, <1>7, <1>8
  DEF Next, Environment, Acquire, Fetch, ProcStep

(* What is covered stays covered: a change still to come is not before t.  *)
LEMMA CoversStep ==
  ASSUME TypeOK, [Next]_vars, NEW d \in Snapshot, NEW t \in Time,
         t <= clock, Covers(d, t)
  PROVE  \A v \in 1 .. hsm' : changedAt'[v] < t => v <= d.comp
BY HistoryStep, TimeAssumption DEF Covers, TypeOK, Time, Version

(* HSM as it is now covers everything up to the present second.            *)
LEMMA CoversNow ==
  ASSUME TypeOK, [Next]_vars, UNCHANGED <<hsm, changedAt>>, NEW t \in Time
  PROVE  \A v \in 1 .. hsm' : changedAt'[v] < t => v <= hsm
BY TimeAssumption DEF TypeOK, Version

-----------------------------------------------------------------------------
(* A step of the environment, of a node or of a caller leaves the cache    *)
(* and the lock alone, and starts or ends no fetch.                        *)
Quiet ==
  /\ UNCHANGED smVars
  /\ faults <= faults'
  /\ \A p \in Proc : pc'[p] \in FetchPc \/ pc[p] \in FetchPc =>
                       pc'[p] = pc[p] /\ arg'[p] = arg[p]
  /\ \A c \in Caller : pc'[c] = "got" =>
                         pc[c] = "got" /\ got'[c] = got[c] /\ arg'[c] = arg[c]

LEMMA QuietSteps ==
  ASSUME TypeOK,
         \/ Environment
         \/ \E n \in Node : NodeStep(n)
         \/ \E c \in Caller : CallerStep(c)
         \/ UNCHANGED vars
  PROVE  Quiet
<1>1. CASE Environment \/ UNCHANGED vars
  BY <1>1, TimeAssumption
  DEF Quiet, TypeOK, smVars, procVars, vars, Environment, Tick, HsmChange, Notify,
      StoreNotification, StoreNotificationFails
(* Each step of a node or a caller p changes pc[p] and perhaps arg[p].     *)
<1>2. ASSUME NEW p \in Proc, NEW x \in {"idle", "lock", "chained"}, NEW a,
             pc[p] \notin FetchPc, UNCHANGED <<smVars, got>>, faults <= faults',
             pc' = [pc EXCEPT ![p] = x], arg' = [arg EXCEPT ![p] = a]
      PROVE  Quiet
  <2>1. pc \in [Proc -> {"idle", "lock", "got", "chained"} \union FetchPc]
        /\ arg \in [Proc -> Time \union {-1}]
    BY DEF TypeOK
  <2>2. Caller \subseteq Proc
    BY DEF Proc
  <2>3. ASSUME NEW q \in Proc, pc'[q] \in FetchPc \/ pc[q] \in FetchPc
        PROVE  pc'[q] = pc[q] /\ arg'[q] = arg[q]
    BY <1>2, <2>1, <2>3 DEF FetchPc
  <2>4. ASSUME NEW c \in Caller, pc'[c] = "got"
        PROVE  pc[c] = "got" /\ got'[c] = got[c] /\ arg'[c] = arg[c]
    BY <1>2, <2>1, <2>2, <2>4
  <2>5. QED
    BY <1>2, <2>3, <2>4 DEF Quiet
<1>3. ASSUME NEW n \in Node, NodeStep(n) PROVE Quiet
  <2> n \in Proc /\ n \notin Caller
    BY ProcAssumption DEF Proc
  <2>1. CASE StartBoot(n) \/ Retry(n)
    <3>1. UNCHANGED <<smVars, got>> /\ faults <= faults' /\ pc[n] \notin FetchPc
      BY <2>1, TimeAssumption DEF StartBoot, Retry, Request, TypeOK, FetchPc
    <3>2. pc' = [pc EXCEPT ![n] = "lock"] /\ arg' = [arg EXCEPT ![n] = 0]
      BY <2>1 DEF StartBoot, Retry, Request
    <3>3. QED
      BY <1>2, <3>1, <3>2
  <2>2. CASE BootPanic(n) \/ Answer(n)
    <3>1. UNCHANGED <<smVars, got>> /\ faults <= faults' /\ pc[n] \notin FetchPc
      BY <2>2, TimeAssumption DEF BootPanic, Answer, TypeOK, FetchPc
    <3>2. pc' = [pc EXCEPT ![n] = "idle"] /\ arg' = [arg EXCEPT ![n] = arg[n]]
      BY <2>2 DEF BootPanic, Answer, TypeOK
    <3>3. QED
      BY <1>2, <3>1, <3>2
  <2>3. ASSUME NEW w \in Worker, Delay(n, w) PROVE Quiet
    <3>1. w \in Proc /\ w \notin Caller /\ w # n
      BY ProcAssumption DEF Proc
    <3>2. UNCHANGED <<smVars, got>> /\ faults <= faults'
      BY <2>3, TimeAssumption DEF Delay, Chain, TypeOK
    <3>3. /\ pc[n] = "got" /\ pc[w] = "idle"
          /\ pc' = [pc EXCEPT ![n] = "chained", ![w] = "lock"]
          /\ arg' = [arg EXCEPT ![w] = IF Forced(n) THEN -1 ELSE kvTs]
      BY <2>3 DEF Delay, Chain
    <3>4. pc \in [Proc -> {"idle", "lock", "got", "chained"} \union FetchPc]
          /\ arg \in [Proc -> Time \union {-1}]
      BY DEF TypeOK
    <3>5. ASSUME NEW q \in Proc, pc'[q] \in FetchPc \/ pc[q] \in FetchPc
          PROVE  pc'[q] = pc[q] /\ arg'[q] = arg[q]
      BY <3>1, <3>3, <3>4, <3>5 DEF FetchPc
    <3>6. ASSUME NEW c \in Caller PROVE pc'[c] = pc[c] /\ arg'[c] = arg[c]
      BY <3>1, <3>3, <3>4 DEF Proc
    <3>7. QED
      BY <3>2, <3>5, <3>6 DEF Quiet
  <2>4. QED
    BY <1>3, <2>1, <2>2, <2>3 DEF NodeStep
<1>4. ASSUME NEW c \in Caller, CallerStep(c) PROVE Quiet
  <2> c \in Proc
    BY DEF Proc
  <2>1. UNCHANGED <<smVars, got>> /\ faults <= faults' /\ pc[c] \notin FetchPc
    BY <1>4, TimeAssumption
    DEF CallerStep, HostsPost, FindXnameByIP, FindAgain, IpAnswer, Call, TypeOK, FetchPc
  <2>2. CASE HostsPost(c) \/ FindXnameByIP(c) \/ FindAgain(c)
    <3>1. /\ pc' = [pc EXCEPT ![c] = "lock"]
          /\ \E a : arg' = [arg EXCEPT ![c] = a]
      BY <2>2 DEF HostsPost, FindXnameByIP, FindAgain, Call
    <3>2. QED
      BY <1>2, <2>1, <3>1
  <2>3. CASE IpAnswer(c)
    <3>1. pc' = [pc EXCEPT ![c] = "idle"] /\ arg' = [arg EXCEPT ![c] = arg[c]]
      BY <2>3 DEF IpAnswer, TypeOK
    <3>2. QED
      BY <1>2, <2>1, <3>1
  <2>4. QED
    BY <1>4, <2>2, <2>3 DEF CallerStep
<1>5. QED
  BY <1>1, <1>3, <1>4

(* Quiet steps preserve everything that is said of the cache.              *)
LEMMA QuietIInv ==
  ASSUME IInv, [Next]_vars, Quiet
  PROVE  LockInv' /\ VersionInv' /\ StampCovered' /\ FaultFreeInv' /\ BoundedStaleness'
<1> USE DEF IInv
<1>1. LockInv'
  BY DEF Quiet, LockInv, smVars
<1>2. VersionInv'
  <2>1. NoOlder(smData, [comp |-> hsm, ep |-> hsm, eth |-> hsm])'
    <3>1. smData' = smData /\ smData \in Snapshot /\ hsm \in Version /\ hsm' \in Version
      BY TypeStep DEF Quiet, smVars, TypeOK
    <3>2. smData.comp <= hsm /\ smData.ep <= hsm /\ smData.eth <= hsm
      BY DEF VersionInv, NoOlder
    <3>3. smData.comp \in Int /\ smData.ep \in Int /\ smData.eth \in Int /\ hsm <= hsm'
      BY <3>1, HistoryStep DEF Snapshot
    <3>4. QED
      BY <3>1, <3>2, <3>3, VersionRange DEF NoOlder
  <2>2. ASSUME NEW p \in Proc, pc'[p] \in {"endpoints", "ethernet"}
        PROVE  /\ smData'.comp <= buf'.comp /\ buf'.comp <= hsm'
               /\ Covers(buf, smTimeStamp)'
    <3>1. /\ pc[p] = pc'[p] /\ UNCHANGED <<smData, buf, smTimeStamp>>
          /\ buf.comp \in Int /\ hsm \in Int /\ hsm' \in Int /\ hsm <= hsm'
      BY <2>2, HistoryStep, TypeStep, VersionRange
      DEF Quiet, smVars, FetchPc, TypeOK, Snapshot
    <3>2. smData.comp <= buf.comp /\ buf.comp <= hsm /\ Covers(buf, smTimeStamp)
      BY <2>2, <3>1 DEF VersionInv
    <3>3. Covers(buf, smTimeStamp)'
      BY <3>1, <3>2, CoversStep DEF ClockInv, TypeOK, Covers
    <3>4. QED
      BY <3>1, <3>2, <3>3
  <2>3. ASSUME NEW p \in Proc, pc'[p] = "ethernet"
        PROVE  smData'.ep <= buf'.ep /\ buf'.ep <= hsm'
    <3>1. /\ pc[p] = pc'[p] /\ UNCHANGED <<smData, buf>>
          /\ buf.ep \in Int /\ hsm \in Int /\ hsm' \in Int /\ hsm <= hsm'
      BY <2>3, HistoryStep, TypeStep, VersionRange
      DEF Quiet, smVars, FetchPc, TypeOK, Snapshot
    <3>2. QED
      BY <2>3, <3>1 DEF VersionInv
  <2>4. QED
    BY <2>1, <2>2, <2>3 DEF VersionInv
<1>3. StampCovered'
  BY CoversStep DEF StampCovered, ClockInv, Quiet, smVars, TypeOK, Covers
<1>4. FaultFreeInv'
  BY TimeAssumption DEF FaultFreeInv, Quiet, smVars, TypeOK
<1>5. BoundedStaleness'
  <2> SUFFICES ASSUME faults' = 0, NEW c \in Caller,
                      pc'[c] = "got", got'[c] # NoData
               PROVE  Covers(got[c], arg[c])'
    BY DEF BoundedStaleness
  <2>1. /\ c \in Proc /\ faults = 0
        /\ pc[c] = "got" /\ got'[c] = got[c] /\ arg'[c] = arg[c]
    BY TimeAssumption DEF Quiet, Proc, TypeOK
  <2>2. Covers(got[c], arg[c]) /\ got[c] \in Snapshot /\ arg[c] <= clock
    BY <2>1 DEF BoundedStaleness, TypeOK, ClockInv
  <2>3. CASE arg[c] \in Time
    BY <2>1, <2>2, <2>3, CoversStep DEF Covers
  <2>4. CASE arg[c] = -1
    <3>1. changedAt' \in [Version -> Time] /\ hsm' \in Version
      BY TypeStep DEF TypeOK
    <3>2. \A v \in 1 .. hsm' : changedAt'[v] \in Time
      BY <3>1, TimeAssumption DEF Version
    <3>3. \A v \in 1 .. hsm' : ~ (changedAt'[v] < -1)
      BY <3>2 DEF Time
    <3>4. QED
      BY <2>1, <2>4, <3>3 DEF Covers
  <2>5. QED
    BY <2>1, <2>3, <2>4 DEF TypeOK
<1>6. QED
  BY <1>1, <1>2, <1>3, <1>4, <1>5
-----------------------------------------------------------------------------
(* No step records a second that has not come yet.                         *)
LEMMA ClockStep == ASSUME IInv, [Next]_vars PROVE ClockInv'
<1> USE TimeAssumption DEF IInv, ClockInv, TypeOK
<1>0. clock \in Int /\ clock' \in Int /\ clock <= clock'
  BY HistoryStep, TypeStep
<1>1. \A v \in 1 .. hsm' : changedAt'[v] <= clock'
  <2> SUFFICES ASSUME NEW v \in 1 .. hsm' PROVE changedAt'[v] <= clock'
    OBVIOUS
  <2>1. CASE changedAt'[v] = clock
    BY <1>0, <2>1
  <2>2. CASE v \in 1 .. hsm /\ changedAt'[v] = changedAt[v]
    <3>1. changedAt[v] \in Int /\ changedAt[v] <= clock
      BY <2>2 DEF Version, Time
    <3>2. QED
      BY <1>0, <2>2, <3>1
  <2>3. QED
    BY <2>1, <2>2, HistoryStep
<1> DEFINE Rest == /\ smTimeStamp' <= clock' /\ okTs' <= clock' /\ kvTs' <= clock'
                   /\ \A m \in pending' : m.ts <= clock'
                   /\ \A p \in Proc : arg'[p] <= clock'
<1>3. ASSUME Environment \/ UNCHANGED vars PROVE Rest
  <2>1. UNCHANGED <<smTimeStamp, okTs, arg>>
    BY <1>3 DEF Environment, vars, Tick, HsmChange, Notify, StoreNotification,
                StoreNotificationFails, smVars, procVars
  <2>2. kvTs' <= clock' /\ \A m \in pending' : m.ts <= clock'
    BY <1>3, HistoryStep
    DEF Environment, vars, Tick, HsmChange, Notify, StoreNotification,
        StoreNotificationFails, hsmVars, noteVars, Notification, Time
  <2>3. smTimeStamp \in Int /\ okTs \in Int /\ \A p \in Proc : arg[p] \in Int
    BY DEF Time
  <2>4. QED
    BY <1>0, <2>1, <2>2, <2>3 DEF Rest
<1>4. ASSUME NEW p \in Proc, ProcStep(p) PROVE Rest
  <2>1. UNCHANGED <<clock, kvTs, pending, arg>>
    BY <1>4 DEF ProcStep, AcquireHit, AcquireMiss, GetComponents, GetEndpoints,
                GetEthernet, FetchFails, hsmVars, noteVars
  <2>2. smTimeStamp' \in {smTimeStamp, clock, arg[p]} /\ okTs' \in {okTs, smTimeStamp}
    BY <1>4 DEF ProcStep, AcquireHit, AcquireMiss, GetComponents, GetEndpoints,
                GetEthernet, FetchFails, smVars
  <2>3. QED
    BY <2>1, <2>2 DEF Rest, Time
<1>5. ASSUME NEW n \in Node, NodeStep(n) PROVE Rest
  <2>1. UNCHANGED <<clock, kvTs, pending, smTimeStamp, okTs>>
    BY <1>5 DEF NodeStep, StartBoot, Retry, Request, BootPanic, Answer, Delay, Chain,
                hsmVars, noteVars, smVars
  <2>2. \A p \in Proc : arg'[p] \in {arg[p], 0, -1, kvTs}
    BY <1>5 DEF NodeStep, StartBoot, Retry, Request, BootPanic, Answer, Delay, Chain
  <2>3. QED
    BY <2>1, <2>2 DEF Rest, Time
<1>6. ASSUME NEW c \in Caller, CallerStep(c) PROVE Rest
  <2>1. UNCHANGED <<clock, kvTs, pending, smTimeStamp, okTs>>
    BY <1>6 DEF CallerStep, HostsPost, FindXnameByIP, FindAgain, IpAnswer, Call,
                hsmVars, noteVars, smVars
  <2>2. \A p \in Proc : arg'[p] \in {arg[p], clock, clock - Evict}
    BY <1>6 DEF CallerStep, HostsPost, FindXnameByIP, FindAgain, IpAnswer, Call
  <2>3. QED
    BY <2>1, <2>2 DEF Rest, Time
<1>7. Rest
  BY <1>3, <1>4, <1>5, <1>6 DEF Next, Acquire, Fetch, ProcStep
<1>8. QED
  BY <1>1, <1>7

(* protectedGetState: getting the lock, with or without a fetch.           *)
LEMMA AcquireIInv ==
  ASSUME IInv, [Next]_vars, NEW p \in Proc, Acquire(p)
  PROVE  LockInv' /\ VersionInv' /\ StampCovered' /\ FaultFreeInv' /\ BoundedStaleness'
<1> USE DEF IInv
<1>1. CASE AcquireHit(p)
  <2>1. UNCHANGED <<hsm, changedAt, smVars, arg, faults>> /\ mutex = Free
    BY <1>1 DEF AcquireHit, hsmVars
  <2>2. /\ pc' = [pc EXCEPT ![p] = AfterGet(p)] /\ AfterGet(p) \in {"idle", "got"}
        /\ got' = [got EXCEPT ![p] = smData]
    BY <1>1 DEF AcquireHit, AfterGet
  <2>3. \A q \in Proc : pc'[q] \notin FetchPc
    BY <2>1, <2>2, FreeAssumption DEF LockInv, FetchPc, TypeOK
  <2>4. LockInv' /\ VersionInv' /\ StampCovered' /\ FaultFreeInv'
    BY <2>1, <2>3
    DEF LockInv, VersionInv, StampCovered, FaultFreeInv, Covers, NoOlder, smVars, FetchPc
  <2>5. ASSUME faults' = 0, NEW c \in Caller, pc'[c] = "got", got'[c] # NoData
        PROVE  Covers(got[c], arg[c])'
    <3>1. c \in Proc
      BY DEF Proc
    <3>2. CASE c = p
      <4>1. got'[c] = smData /\ smData # NoData /\ okTs = smTimeStamp
        BY <2>1, <2>2, <2>5, <3>2 DEF FaultFreeInv, TypeOK
      <4>2. Covers(smData, okTs) /\ arg[c] <= smTimeStamp
        BY <1>1, <3>2, <4>1, TimeAssumption
        DEF StampCovered, AcquireHit, MustFetch, TypeOK, Time
      <4>3. \A v \in 1 .. hsm : changedAt[v] \in Int
        BY TimeAssumption DEF TypeOK, Version, Time
      <4>4. arg[c] \in Int /\ arg'[c] = arg[c] /\ okTs \in Int /\ hsm' = hsm
            /\ changedAt' = changedAt
        BY <2>1, <3>1 DEF TypeOK, Time
      <4>5. \A v \in 1 .. hsm : changedAt[v] < arg[c] => v <= smData.comp
        BY <4>1, <4>2, <4>3, <4>4 DEF Covers
      <4>6. QED
        BY <4>1, <4>4, <4>5 DEF Covers
    <3>3. CASE c # p
      BY <2>1, <2>2, <2>5, <3>1, <3>3 DEF BoundedStaleness, Covers, TypeOK
    <3>4. QED
      BY <3>2, <3>3
  <2>6. QED
    BY <2>4, <2>5 DEF BoundedStaleness
<1>2. CASE AcquireMiss(p)
  <2>1. /\ UNCHANGED <<hsm, changedAt, smData, okTs, buf, arg, got, faults>>
        /\ mutex = Free /\ mutex' = p /\ mutex' # Free
    BY <1>2, FreeAssumption DEF AcquireMiss, hsmVars
  <2>2. pc' = [pc EXCEPT ![p] = "components"] /\ arg[p] <= smTimeStamp'
    BY <1>2, TimeAssumption DEF AcquireMiss, ClockInv, TypeOK, Time
  <2>3. \A q \in Proc : pc'[q] \in FetchPc => q = p
    BY <2>1, <2>2, FreeAssumption DEF LockInv, TypeOK
  <2>4. LockInv' /\ FaultFreeInv' /\ StampCovered'
    BY <2>1, <2>2, <2>3 DEF LockInv, FaultFreeInv, StampCovered, Covers, TypeOK
  <2>5. VersionInv'
    BY <2>1, <2>2, <2>3 DEF VersionInv, NoOlder, TypeOK, FetchPc
  <2>6. BoundedStaleness'
    BY <2>1, <2>2 DEF BoundedStaleness, Covers, TypeOK, Proc
  <2>7. QED
    BY <2>4, <2>5, <2>6
<1>3. QED
  BY <1>1, <1>2 DEF Acquire
(* The three GETs and the publication of what they read.                   *)
LEMMA FetchIInv ==
  ASSUME IInv, [Next]_vars, NEW p \in Proc, Fetch(p)
  PROVE  LockInv' /\ VersionInv' /\ StampCovered' /\ FaultFreeInv' /\ BoundedStaleness'
<1> USE DEF IInv
<1>1. /\ UNCHANGED <<hsm, changedAt, smTimeStamp, arg>>
      /\ pc[p] \in FetchPc /\ mutex = p /\ arg[p] <= smTimeStamp
  BY DEF Fetch, GetComponents, GetEndpoints, GetEthernet, FetchFails, hsmVars,
         FetchPc, LockInv
<1>2. \A q \in Proc : pc[q] \in FetchPc => q = p
  BY <1>1 DEF LockInv
<1>3. /\ pc \in [Proc -> {"idle", "lock", "got", "chained"} \union FetchPc]
      /\ smData \in Snapshot /\ buf \in Snapshot /\ hsm \in Version
      /\ smTimeStamp \in Time /\ Caller \subseteq Proc
  BY DEF TypeOK, Proc
<1>4. NoOlder(smData, [comp |-> hsm, ep |-> hsm, eth |-> hsm])
  BY DEF VersionInv
(* Reading on: only buf and pc[p] change.                                  *)
<1>5. CASE GetComponents(p) \/ GetEndpoints(p)
  <2>1. /\ UNCHANGED <<mutex, smData, okTs, got, faults>>
        /\ \E x \in {"endpoints", "ethernet"} : pc' = [pc EXCEPT ![p] = x]
    BY <1>5 DEF GetComponents, GetEndpoints
  <2>2. \A q \in Proc \ {p} : pc'[q] = pc[q]
    BY <1>3, <2>1
  <2>3. LockInv' /\ StampCovered' /\ FaultFreeInv' /\ BoundedStaleness'
    <3>1. LockInv'
      BY <1>1, <1>2, <2>1, <2>2 DEF LockInv
    <3>2. StampCovered' /\ FaultFreeInv'
      BY <1>1, <2>1 DEF StampCovered, FaultFreeInv, Covers
    <3>3. \A c \in Caller : pc'[c] = "got" => pc[c] = "got"
      BY <1>3, <2>1, <2>2
    <3>4. BoundedStaleness'
      BY <1>1, <2>1, <3>3 DEF BoundedStaleness, Covers
    <3>5. QED
      BY <3>1, <3>2, <3>4
  <2>4. /\ smData.comp <= buf'.comp /\ buf'.comp <= hsm /\ Covers(buf, smTimeStamp)'
        /\ pc'[p] = "ethernet" => smData.ep <= buf'.ep /\ buf'.ep <= hsm
    <3>1. CASE GetComponents(p)
      <4>1. buf' = [comp |-> hsm, ep |-> 0, eth |-> 0] /\ pc'[p] = "endpoints"
        BY <1>3, <3>1 DEF GetComponents
      <4>2. Covers(buf, smTimeStamp)'
        BY <1>1, <1>3, <4>1, CoversNow DEF Covers
      <4>3. QED
        BY <1>3, <1>4, <4>1, <4>2, VersionRange DEF NoOlder
    <3>2. CASE GetEndpoints(p)
      <4>1. buf' = [buf EXCEPT !.ep = hsm] /\ pc[p] = "endpoints"
        BY <3>2 DEF GetEndpoints
      <4>2. buf'.comp = buf.comp /\ buf'.ep = hsm
        BY <1>3, <4>1 DEF Snapshot
      <4>3. /\ smData.comp <= buf.comp /\ buf.comp <= hsm
            /\ Covers(buf, smTimeStamp)
        BY <4>1 DEF VersionInv
      <4>4. QED
        BY <1>1, <1>3, <1>4, <4>2, <4>3, VersionRange DEF NoOlder, Covers
    <3>3. QED
      BY <1>5, <3>1, <3>2
  <2>5. VersionInv'
    BY <1>1, <1>2, <1>4, <2>1, <2>2, <2>4 DEF VersionInv, FetchPc, NoOlder
  <2>6. QED
    BY <2>3, <2>5
(* Letting go of the lock: with the new data, or with the old.             *)
<1>6. CASE GetEthernet(p) \/ FetchFails(p)
  <2>1. /\ mutex' = Free /\ pc' = [pc EXCEPT ![p] = AfterGet(p)]
        /\ got' = [got EXCEPT ![p] = smData'] /\ AfterGet(p) \in {"idle", "got"}
    BY <1>6 DEF GetEthernet, FetchFails, AfterGet
  <2>2. \A q \in Proc : pc'[q] \notin FetchPc
    BY <1>2, <1>3, <2>1 DEF FetchPc
  <2>3. LockInv'
    BY <2>2 DEF LockInv
  <2>4. CASE GetEthernet(p)
    <3>1. /\ smData' = [buf EXCEPT !.eth = hsm] /\ okTs' = smTimeStamp
          /\ pc[p] = "ethernet" /\ UNCHANGED faults
      BY <2>4 DEF GetEthernet
    <3>2. /\ smData'.comp = buf.comp /\ smData'.ep = buf.ep /\ smData'.eth = hsm
      BY <1>3, <3>1 DEF Snapshot
    <3>3. Covers(buf, smTimeStamp) /\ Covers(smData, okTs)'
      BY <1>1, <3>1, <3>2 DEF VersionInv, Covers
    <3>4. buf.comp <= hsm /\ buf.ep <= hsm
      BY <3>1 DEF VersionInv
    <3>5. VersionInv' /\ StampCovered' /\ FaultFreeInv'
      BY <1>1, <2>2, <3>1, <3>2, <3>3, <3>4, VersionRange, <1>3
      DEF VersionInv, NoOlder, StampCovered, FaultFreeInv, FetchPc
    <3>6. ASSUME faults' = 0, NEW c \in Caller, pc'[c] = "got", got'[c] # NoData
          PROVE  Covers(got[c], arg[c])'
      <4>1. CASE c = p
        <5>1. got'[c] = smData' /\ arg'[c] = arg[c] /\ arg[c] <= smTimeStamp
          BY <1>1, <1>3, <2>1, <4>1 DEF TypeOK
        <5>2. \A v \in 1 .. hsm : changedAt[v] \in Int
          BY <1>3, TimeAssumption DEF TypeOK, Version, Time
        <5>3. arg[c] \in Int /\ smTimeStamp \in Int
          BY <1>3 DEF TypeOK, Time
        <5>4. QED
          BY <1>1, <3>1, <3>3, <5>1, <5>2, <5>3 DEF Covers
      <4>2. CASE c # p
        BY <1>1, <1>3, <2>1, <3>1, <3>6, <4>2 DEF BoundedStaleness, Covers, TypeOK
      <4>3. QED
        BY <4>1, <4>2
    <3>7. QED
      BY <2>3, <3>5, <3>6 DEF BoundedStaleness
  <2>5. CASE FetchFails(p)
    <3>1. UNCHANGED <<smData, okTs>> /\ faults' = faults + 1 /\ faults' # 0
      BY <2>5 DEF FetchFails, TypeOK
    <3>2. VersionInv' /\ StampCovered' /\ FaultFreeInv' /\ BoundedStaleness'
      BY <1>1, <2>2, <3>1
      DEF VersionInv, NoOlder, StampCovered, FaultFreeInv, BoundedStaleness, Covers, FetchPc
    <3>3. QED
      BY <2>3, <3>2
  <2>6. QED
    BY <1>6, <2>4, <2>5
<1>7. QED
  BY <1>5, <1>6 DEF Fetch

LEMMA StepIInv == IInv /\ [Next]_vars => IInv'
<1> SUFFICES ASSUME IInv, [Next]_vars PROVE IInv'
  OBVIOUS
<1>1. TypeOK' /\ ClockInv'
  BY TypeStep, ClockStep DEF IInv
<1>2. Quiet \/ \E p \in Proc : Acquire(p) \/ Fetch(p)
  BY QuietSteps DEF Next, IInv
<1>3. QED
  BY <1>1, <1>2, QuietIInv, AcquireIInv, FetchIInv DEF IInv

LEMMA Invariance == Spec => []IInv
<1>1. QED
  BY InitIInv, StepIInv, PTL DEF Spec

-----------------------------------------------------------------------------
(* The cache's timestamp never claims more than its data holds.            *)
THEOREM StampIsHonest == Spec => []StampCovered
<1>1. IInv => StampCovered
  BY DEF IInv
<1>2. QED
  BY <1>1, Invariance, PTL

(* A caller that asks for data as of a second gets it, failures apart.     *)
THEOREM StalenessIsBounded == Spec => []BoundedStaleness
<1>1. IInv => BoundedStaleness
  BY DEF IInv
<1>2. QED
  BY <1>1, Invariance, PTL

(* Refreshes never replace data by an older reading of HSM.                *)
THEOREM NoRegression == Spec => DataNeverRegresses
<1>1. IInv /\ [Next]_vars => [NoOlder(smData, smData')]_vars
  <2> SUFFICES ASSUME IInv, [Next]_vars PROVE NoOlder(smData, smData')
    OBVIOUS
  <2>1. smData \in Snapshot /\ NoOlder(smData, smData)
    BY VersionRange DEF IInv, TypeOK, NoOlder, Snapshot
  <2>2. ASSUME NEW p \in Proc, GetEthernet(p) PROVE NoOlder(smData, smData')
    <3>1. buf \in Snapshot /\ smData' = [buf EXCEPT !.eth = hsm] /\ pc[p] = "ethernet"
      BY <2>2 DEF GetEthernet, IInv, TypeOK
    <3>2. smData'.comp = buf.comp /\ smData'.ep = buf.ep /\ smData'.eth = hsm
      BY <3>1 DEF Snapshot
    <3>3. QED
      BY <3>1, <3>2 DEF IInv, VersionInv, NoOlder
  <2>3. CASE smData' = smData
    BY <2>1, <2>3
  <2>4. Quiet => smData' = smData
    BY DEF Quiet, smVars
  <2>5. ASSUME NEW p \in Proc, Acquire(p) \/ Fetch(p)
        PROVE  smData' = smData \/ GetEthernet(p)
    BY <2>5 DEF Acquire, AcquireHit, AcquireMiss, Fetch, GetComponents, GetEndpoints,
                FetchFails, smVars
  <2>6. QED
    BY <2>2, <2>3, <2>4, <2>5, QuietSteps DEF Next, IInv
<1>2. QED
  BY <1>1, Invariance, PTL DEF Spec, DataNeverRegresses
=============================================================================
