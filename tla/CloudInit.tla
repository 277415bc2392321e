----------------------------- MODULE CloudInit ------------------------------
(***************************************************************************)
(* The cloud-init part of the records under /params/, which administrators *)
(* set with PUT, PATCH and DELETE of /bootparameters, which cloud-init on  *)
(* a node reads as meta-data and user-data, and into which it posts        *)
(* phone-home data.  A handler is a process that steps once per access to  *)
(* the store or to the HSM cache; kvMutex plays no part.                   *)
(*                                                                         *)
(* Abstracted: meta-data and user-data are flat maps; the random           *)
(* instance-id is left out; an administrator's request names one host and  *)
(* no image, whose steps are KvBoot's; phone-home data is one value.  With *)
(* Postgres there is no cloud-init data, only the history is kept.         *)
(***************************************************************************)
EXTENDS EndpointHistory, Sequences

CONSTANTS
  Client,            \* concurrent handlers
  Host,              \* names of records: nodes, role tags and the two tags
  Default, Global,   \* DefaultTag, GlobalTag
  Role, SubRole,     \* HSM's Role and SubRole of a node
  Key, Value,        \* of meta-data and user-data
  HostKey, RoleKey,  \* "local-hostname", "shasta-role"
  Phone,             \* non-empty phone-home data
  None,              \* no key, empty phone-home data, no role
  Null,              \* JSON's null
  Absent,            \* no record
  Requests,          \* the requests there are
  May,               \* May[c]: those that client c sends
  StoredBefore,      \* what the store may hold to begin with
  KnownBefore,       \* the nodes whose components HSM lists by then
  MaxFaults          \* bound: accesses to the store that fail

ASSUME CloudAssumption ==
  /\ Node \union {Default, Global} \subseteq Host /\ NoName \notin Host
  /\ Default \notin Node /\ Global \notin Node
  /\ {HostKey, RoleKey} \subseteq Key /\ HostKey # RoleKey /\ Node \subseteq Value
  /\ Role \in [Node -> Host \union {None}] /\ SubRole \in [Node -> Value]
  /\ {None, Null} \intersect Value = {} /\ None # Null
  /\ None \notin Host \union Phone /\ Null \notin Host
  /\ MaxFaults \in Nat

VARIABLES
  recs,      \* /params/<host>: its cloud-init data, or Absent
  located,   \* nodes whose address is in the HSM cache
  known,     \* nodes whose component is in the HSM cache
  cl,        \* the handlers' local states
  faults,    \* failed accesses so far
  calm       \* history: handlers around which nothing has changed since
             \* they began

vars == <<historyVars, recs, located, known, cl, faults, calm>>

Data == [Key -> Value \union {None, Null}]
CloudData == [meta : Data, user : Data, phone : Phone \union {None}]
NoData == [k \in Key |-> None]
NoCloudData == [meta |-> NoData, user |-> NoData, phone |-> None]

Admin == {"PUT", "PATCH", "DELETE"}
Method == Admin \union {"META", "USER", "PHONE", "BOOT"}
Request == [method : Method, name : Host, ci : CloudData]
ASSUME CloudRequestAssumption ==
  /\ Requests \subseteq Request /\ May \in [Client -> SUBSET Requests]
  /\ \A r \in Requests : r.method \notin Admin => r.name \in Node
  /\ KnownBefore \subseteq Node
  /\ StoredBefore \subseteq [Host -> CloudData \union {Absent}]

(* A handler: its request, when it began (if its access is recorded), the  *)
(* name the node was found under, the names to try, the data it holds, the *)
(* data of Global and of the role, what it serves, the second it records.  *)
Blank(r, t) == [pc |-> "idle", req |-> r, began |-> t, name |-> NoName, chain |-> <<>>,
                ci |-> NoCloudData, global |-> NoData, role |-> NoData,
                out |-> NoData, at |-> 0]

NoRequest == [method |-> "DELETE", name |-> Default, ci |-> NoCloudData]

Done == {"idle", "ok"}

Init ==
  /\ HistoryInit
  /\ recs \in IF useSQL THEN {[h \in Host |-> Absent]} ELSE StoredBefore
  /\ located = {} /\ known = KnownBefore
  /\ cl = [c \in Client |-> Blank(NoRequest, 0)]
  /\ faults = 0
  /\ calm = {}

-----------------------------------------------------------------------------
(* Merging.                                                                *)

IsNil(v) == v \in {None, Null}

(* updateCloudData: JSON merge patch, unless one of the two is empty.      *)
MergePatch(old, new) ==
  IF NoData \in {old, new} THEN (IF new = NoData THEN old ELSE new)
  ELSE [k \in Key |-> CASE new[k] = None -> old[k]
                        [] new[k] = Null -> None
                        [] OTHER -> new[k]]

updateCloudInit(d, p) ==
  [meta |-> MergePatch(d.meta, p.meta), user |-> MergePatch(d.user, p.user),
   phone |-> IF p.phone = None THEN d.phone ELSE p.phone]

(* Mutant: the arguments are swapped.                                      *)
mergeMapsSwapped(first, second) ==
  [k \in Key |-> IF first[k] = None THEN second[k] ELSE first[k]]

(* mergeMaps: second wins, with a null as well.                            *)
mergeMaps(first, second) ==
  [k \in Key |-> IF second[k] = None THEN first[k] ELSE second[k]]

(* generateMetaData, for a node that was found and whose component is      *)
(* among comps.                                                            *)
generateMetaData(n, meta, comps) ==
  [k \in Key |-> IF ~IsNil(meta[k]) \/ n \notin comps THEN meta[k]
                 ELSE CASE k = HostKey -> n
                        [] k = RoleKey -> SubRole[n]
                        [] OTHER -> meta[k]]

-----------------------------------------------------------------------------
Become(c, m) == cl' = [cl EXCEPT ![c] = m]

(* What is kept of an answer: nothing of a refusal or of an                *)
(* administrator's request.                                                *)
Refuse == Blank(NoRequest, 0)
Finish(m) ==
  IF m.req.method \in Admin THEN Refuse
  ELSE [Blank(m.req, m.began) EXCEPT
          !.pc = "ok", !.name = m.name, !.global = m.global, !.out = m.out]

Fault == faults < MaxFaults /\ faults' = faults + 1

(* lookupHost, for a name that may be no record's.                         *)
Stored(h) == IF h \in Host THEN recs[h] ELSE Absent

(* A step of c that others may notice.                                     *)
Disturb(c) == calm' = calm \intersect {c}

(* The HSM cache learns the address or the component of a node.            *)
Discover ==
  /\ \E n \in Node :
       \/ n \notin located /\ located' = located \union {n} /\ UNCHANGED known
       \/ n \notin known /\ known' = known \union {n} /\ UNCHANGED located
  /\ calm' = {}
  /\ UNCHANGED <<historyVars, recs, cl, faults>>

TimePasses == Tick /\ UNCHANGED <<recs, located, known, cl, faults, calm>>

(* With Postgres, administrators and phone-home are SqlBoot's.             *)
Begin(c) ==
  /\ cl[c].pc \in Done
  /\ \E r \in May[c] :
       /\ useSQL => r.method \in {"META", "USER", "BOOT"}
       /\ Become(c, [Blank(r, IF r.method \in {"USER", "BOOT"} THEN clock ELSE 0) EXCEPT
                       !.ci = r.ci,
                       !.pc = CASE r.method = "PUT" -> "write"
                                [] r.method \in {"PATCH", "DELETE"} -> "read"
                                [] r.method = "BOOT" -> "script"
                                [] OTHER -> "lookup"])
  /\ calm' = calm \union {c}
  /\ UNCHANGED <<historyVars, recs, located, known, faults>>

-----------------------------------------------------------------------------
(* Which node asks, and what is stored for it.                             *)

(* Mutant: the role's data before the node's own.                          *)
TriesRoleFirst(n) ==
  (IF n \in known /\ Role[n] # None THEN <<Role[n]>> ELSE <<>>)
    \o (IF n = NoName THEN <<>> ELSE <<n>>) \o <<Default>>

(* The records that LookupByName tries.                                    *)
Tries(n) ==
  (IF n = NoName THEN <<>> ELSE <<n>>)
    \o (IF n \in known /\ Role[n] # None THEN <<Role[n]>> ELSE <<>>) \o <<Default>>

AfterLookup(m, ci) ==
  [m EXCEPT !.chain = <<>>,
            !.ci = ci,
            !.pc = CASE m.req.method = "META" -> "global"
                     [] m.req.method = "USER" -> "generate"
                     [] OTHER -> "read"]

(* FindXnameByIP, without whose answer phone-home is refused, and the      *)
(* beginning of LookupByName, which finds no cloud-init data in Postgres.  *)
(* The cache gains nodes only, so reading it twice is reading it once.     *)
Lookup(c) ==
  LET m == [cl[c] EXCEPT !.name = IF cl[c].req.name \in located THEN cl[c].req.name
                                 ELSE NoName]
  IN  /\ m.pc = "lookup"
      /\ Become(c, IF m.name = NoName /\ m.req.method = "PHONE" THEN Refuse
                   ELSE IF useSQL THEN AfterLookup(m, NoCloudData)
                   ELSE [m EXCEPT !.chain = Tries(m.name), !.pc = "try"])
      /\ UNCHANGED <<historyVars, recs, located, known, faults, calm>>

(* lookup, one record after the other; a failed read counts as none.       *)
Try(c) ==
  LET m == cl[c]
      rec == recs[Head(m.chain)]
      next == IF Len(m.chain) > 1 THEN [m EXCEPT !.chain = Tail(@)]
              ELSE AfterLookup(m, NoCloudData)
  IN  /\ m.pc = "try"
      /\ \/ rec # Absent /\ Become(c, AfterLookup(m, rec)) /\ UNCHANGED faults
         \/ rec = Absent /\ Become(c, next) /\ UNCHANGED faults
         \/ Fault /\ Become(c, next)
      /\ UNCHANGED <<historyVars, recs, located, known, calm>>

-----------------------------------------------------------------------------
(* Meta-data and user-data.                                                *)

Part(rec, method) == IF method = "META" THEN rec.meta ELSE rec.user

(* Mutant: the role's data over the node's own.                            *)
MergedRoleWins(m) ==
  LET d == mergeMapsSwapped(m.role, Part(m.ci, m.req.method))
      h == m.ci.meta[HostKey]
  IN  IF m.req.method = "USER" /\ IsNil(d[HostKey]) /\ ~IsNil(h)
      THEN [d EXCEPT ![HostKey] = h] ELSE d

(* The role's data under the node's own; user-data gets a host name.       *)
Merged(m) ==
  LET d == mergeMaps(m.role, Part(m.ci, m.req.method))
      h == m.ci.meta[HostKey]
  IN  IF m.req.method = "USER" /\ IsNil(d[HostKey]) /\ ~IsNil(h)
      THEN [d EXCEPT ![HostKey] = h] ELSE d

(* The access is recorded after the answer, that to meta-data is not.      *)
Answered(m) ==
  LET served == [m EXCEPT !.out = Merged(m)]
  IN  IF m.req.method = "META" THEN Finish(served) ELSE [served EXCEPT !.pc = "stamp"]

(* With Postgres there is no kvstore, and the handler panics here.         *)
Panic(c) ==
  /\ useSQL /\ cl[c].pc \in {"global", "role"}
  /\ Become(c, Refuse)
  /\ UNCHANGED <<historyVars, recs, located, known, faults, calm>>

(* LookupGlobalData, whose error is ignored.                               *)
ReadGlobal(c) ==
  LET m == cl[c]
      with(data) == [m EXCEPT !.global = data, !.pc = "generate"]
  IN  /\ ~useSQL /\ m.pc = "global"
      /\ \/ /\ Become(c, with(IF recs[Global] = Absent THEN NoData ELSE recs[Global].meta))
            /\ UNCHANGED faults
         \/ Fault /\ Become(c, with(NoData))
      /\ UNCHANGED <<historyVars, recs, located, known, calm>>

Generate(c) ==
  LET m == [cl[c] EXCEPT !.ci.meta = generateMetaData(cl[c].name, @, known)]
  IN  /\ m.pc = "generate"
      /\ Become(c, IF IsNil(m.ci.meta[RoleKey]) THEN Answered(m) ELSE [m EXCEPT !.pc = "role"])
      /\ UNCHANGED <<historyVars, recs, located, known, faults, calm>>

(* LookupByRole of the sub-role, or of what the node's meta-data names.    *)
ReadRole(c) ==
  LET m == cl[c]
      rec == Stored(m.ci.meta[RoleKey])
      data == IF rec = Absent THEN NoData ELSE Part(rec, m.req.method)
  IN  /\ ~useSQL /\ m.pc = "role"
      /\ \/ Become(c, Answered([m EXCEPT !.role = data])) /\ UNCHANGED faults
         \/ Fault /\ Become(c, Answered(m))
      /\ UNCHANGED <<historyVars, recs, located, known, calm>>

-----------------------------------------------------------------------------
(* The history.                                                            *)

(* BootscriptGet: the node is sent a script, and the access counts for the *)
(* component it was found as; or it is delayed or refused.                 *)
Script(c) ==
  LET m == cl[c]
      n == m.req.name
  IN  /\ m.pc = "script"
      /\ \/ Become(c, [m EXCEPT !.name = IF n \in known THEN n ELSE NoName, !.pc = "stamp"])
         \/ Become(c, Refuse)
      /\ UNCHANGED <<historyVars, recs, located, known, faults, calm>>

(* Mutant: the endpoint is copied from the other handler.                  *)
AccessedCopied(m) == "bootscript"

Accessed(m) == IF m.req.method = "BOOT" THEN "bootscript" ELSE "user-data"

(* Mutant: nanoseconds for seconds.                                        *)
StampNano(c) ==
  /\ cl[c].pc = "stamp"
  /\ Become(c, [cl[c] EXCEPT !.at = clock * 1000, !.pc = "store"])
  /\ UNCHANGED <<historyVars, recs, located, known, faults, calm>>

(* updateEndpointAccessed takes the time,                                  *)
Stamp(c) ==
  /\ cl[c].pc = "stamp"
  /\ Become(c, [cl[c] EXCEPT !.at = clock, !.pc = "store"])
  /\ UNCHANGED <<historyVars, recs, located, known, faults, calm>>

(* and then stores it; an error is only logged.                            *)
StoreAccess(c) ==
  LET m == cl[c]
  IN  /\ m.pc = "store"
      /\ \/ Record(m.name, Accessed(m), m.at) /\ Disturb(c) /\ UNCHANGED faults
         \/ Fault /\ UNCHANGED <<historyVars, calm>>
      /\ Become(c, Finish(m))
      /\ UNCHANGED <<recs, located, known>>

-----------------------------------------------------------------------------
(* Changes of a record.                                                    *)

Target(m) == IF m.req.method = "PHONE" THEN m.name ELSE m.req.name

(* Mutant: the data that was sent is forgotten if it is empty.             *)
GivenIfAny(m) ==
  IF m.req.method # "PHONE" THEN m.req.ci
  ELSE IF m.req.ci.phone = None THEN m.ci ELSE [m.ci EXCEPT !.phone = m.req.ci.phone]

(* What Update is called with: phone-home passes on all it looked up.      *)
Given(m) ==
  IF m.req.method = "PHONE" THEN [m.ci EXCEPT !.phone = m.req.ci.phone] ELSE m.req.ci

(* Update and removeHost read the record, and fail without one; Update has *)
(* nothing to write if the merge changes nothing.                          *)
ReadRecord(c) ==
  LET m == cl[c]
      rec == recs[Target(m)]
      new == updateCloudInit(rec, Given(m))
  IN  /\ m.pc = "read"
      /\ \/ /\ rec # Absent
            /\ Become(c, IF m.req.method = "DELETE" THEN [m EXCEPT !.pc = "delete"]
                         ELSE IF new = rec THEN Finish(m)
                         ELSE [m EXCEPT !.ci = new, !.pc = "write"])
            /\ UNCHANGED faults
         \/ rec = Absent /\ Become(c, Refuse) /\ UNCHANGED faults
         \/ Fault /\ Become(c, Refuse)
      /\ UNCHANGED <<historyVars, recs, located, known, calm>>

(* Store's and Update's storeData, removeHost's Delete.                    *)
Change(c, pc, rec) ==
  /\ cl[c].pc = pc
  /\ \/ /\ recs' = [recs EXCEPT ![Target(cl[c])] = rec]
        /\ Become(c, Finish(cl[c]))
        /\ Disturb(c)
        /\ UNCHANGED faults
     \/ Fault /\ Become(c, Refuse) /\ UNCHANGED <<recs, calm>>
  /\ UNCHANGED <<historyVars, located, known>>

Write(c) == Change(c, "write", cl[c].ci)
Delete(c) == Change(c, "delete", Absent)

-----------------------------------------------------------------------------
Step(c) ==
  \/ Lookup(c) \/ Try(c)
  \/ ReadGlobal(c) \/ Generate(c) \/ ReadRole(c) \/ Panic(c)
  \/ Script(c) \/ Stamp(c) \/ StoreAccess(c)
  \/ ReadRecord(c) \/ Write(c) \/ Delete(c)

Next == TimePasses \/ Discover \/ \E c \in Client : Begin(c) \/ Step(c)

Spec == Init /\ [][Next]_vars

-----------------------------------------------------------------------------
State == [pc : Done \union {"write", "read", "delete", "script", "lookup", "try",
                            "global", "generate", "role", "stamp", "store"},
          req : Request, began : 0 .. MaxClock, name : Node \union {NoName}, chain : Seq(Host),
          ci : CloudData, global : Data, role : Data, out : Data, at : 0 .. MaxClock]

TypeOK ==
  /\ HistoryOK
  /\ recs \in [Host -> CloudData \union {Absent}]
  /\ located \subseteq Node /\ known \subseteq Node /\ calm \subseteq Client
  /\ cl \in [Client -> State]
  /\ faults \in 0 .. MaxFaults

(* Handlers that were alone, so far: nothing failed, and no other handler  *)
(* and no discovery changed anything since they began.                     *)
Alone == {c \in Client : c \in calm /\ faults = 0}

(* The data node n should see, as of one moment: its own, else its role's, *)
(* else the default's, with what HSM knows filled in.                      *)
Own(n) ==
  CASE n \in located /\ recs[n] # Absent -> recs[n]
    [] n \in located \intersect known /\ recs[n] = Absent /\ Stored(Role[n]) # Absent ->
         recs[Role[n]]
    [] OTHER -> IF recs[Default] = Absent THEN NoCloudData ELSE recs[Default]

ShouldSee(n, method) ==
  LET own == Own(n)
      meta == generateMetaData(n, own.meta, located \intersect known)
      sub == Stored(meta[RoleKey])
      mine == IF method = "META" THEN meta ELSE own.user
      seen == [k \in Key |-> IF mine[k] # None THEN mine[k]
                             ELSE IF sub # Absent THEN Part(sub, method)[k] ELSE None]
  IN  [k \in Key |-> IF method = "USER" /\ k = HostKey /\ IsNil(seen[k]) /\ ~IsNil(meta[k])
                     THEN meta[k] ELSE seen[k]]

(* A node gets its own values before its sub-role's, whatever it took to   *)
(* read them, and global data beside them.                                 *)
ServedIsMerged ==
  \A c \in Alone :
    LET m == cl[c]
        n == m.req.name
    IN  /\ m.pc \in {"stamp", "store", "ok"} /\ m.req.method \in {"META", "USER"} =>
             m.out = ShouldSee(n, m.req.method)
        /\ m.pc = "ok" /\ m.req.method = "META" /\ recs[Global] # Absent =>
             m.global = recs[Global].meta

(* Phone-home stores what it read together with what the node sent, and so *)
(* changes nothing but the phone-home data, up to keys that are null,      *)
(* which a merge drops.  It does so in the node's own record: those of the *)
(* role and the default, which it may have read, are no substitute.        *)
View(data) == [k \in Key |-> IF data[k] = Null THEN None ELSE data[k]]
PhoneHomeOnlyPhone ==
  [][\A c \in Alone : Write(c) /\ cl[c].req.method = "PHONE" /\ recs' # recs =>
       LET old == recs[cl[c].req.name]
           new == recs'[cl[c].req.name]
       IN  /\ old # Absent
           /\ cl[c].req.ci.phone \in {None, new.phone}
           /\ View(new.meta) = View(old.meta) /\ View(new.user) = View(old.user)]_vars

(* Whatever fails and however the handlers interleave, the phone-home data *)
(* in a record was sent for that name: that of a role or the default, that *)
(* phone-home may have looked up, does not get into a node's record.       *)
PhoneIsOwn ==
  \A h \in Host :
    recs[h] # Absent =>
      recs[h].phone \in
        {None} \union {r.ci.phone : r \in {q \in Requests : q.name = h}}
               \union {s[h].phone : s \in {t \in StoredBefore : t[h] # Absent}}

(* A node whose script or user-data was answered is in the history by all  *)
(* three ways of asking, on both backends, with a time not before it asked.*)
AccessIsFound ==
  \A c \in Alone :
    LET m == cl[c]
        e == IF m.req.method = "BOOT" THEN "bootscript" ELSE "user-data"
    IN  m.pc = "ok" /\ m.req.method \in {"BOOT", "USER"} /\ m.name # NoName =>
          \A q \in {<<m.name, e>>, <<m.name, NoEndpoint>>, <<NoName, NoEndpoint>>} :
            \E a \in EndpointHistoryGet(q[1], q[2]) :
              a.name = m.name /\ a.endpoint = e /\ a.last >= m.began

(* CHANGELOG.md, 1.5.4: PATCH goes "into the meta-data and user-data and   *)
(* patch individual keys within those structures", so that the other keys  *)
(* stay as they are.                                                       *)
PatchIsByKey ==
  [][\A c \in Client, k \in Key :
       LET r == cl[c].req IN
       Write(c) /\ r.method = "PATCH" /\ recs[r.name] # Absent /\ recs' # recs
           /\ r.ci.meta[k] = None
         => recs'[r.name] # Absent /\ recs'[r.name].meta[k] = recs[r.name].meta[k]]_vars

(* swagger.yaml, last_epoch: "Unix epoch time of last request": it does    *)
(* not go back.                                                            *)
LastEpochIsLast ==
  [][\A n \in Node, e \in Endpoint : epochs'[n][e] >= epochs[n][e]]_vars

(* The same sentence: the history of a node and an endpoint is its last    *)
(* request, not all of them.                                               *)
OneLastAccess ==
  \A n \in Node, e \in Endpoint :
    \A a, b \in EndpointHistoryGet(n, e) : a = b

=============================================================================
