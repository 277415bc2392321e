----------------------------- MODULE BootScript -----------------------------
(***************************************************************************)
(* What GET /bootscript answers: BootscriptGet with unknownBootScript,     *)
(* buildBootScript and buildParams, and checkURL, whose S3 client all the  *)
(* handlers share.  A handler looks a node's configuration and component   *)
(* up once (KvBoot and HsmCache have the steps of that) and then goes      *)
(* through the update stamp, the join token service and the signing of S3  *)
(* URLs, while administrators and HSM change what it has looked up.        *)
(***************************************************************************)
EXTENDS Naturals, Sequences, SequencesExt

CONSTANTS
  Handler,   \* goroutines that handle requests
  Config,    \* boot configurations that are stored
  Bucket,    \* S3 buckets
  None,      \* no configuration, no bucket, no path
  Http,      \* a path that is no S3 URL
  Empty,     \* no URL, of a client that could not be made
  UseSQL,    \* useSQL: there is no kvstore
  ClientFails, \* NewS3Client may fail
  MaxFaults, \* bound: failures of S3, of the token service and of the KV store
  MaxChanges \* bound: changes of the configurations, of HSM and of its stamp

Path == Bucket \union {Http}

(* Parameters, told apart by their names: those that buildParams adds,     *)
(* roots in S3, uses of the join token's variable, those that begin with   *)
(* "initrd" or have it inside, and others.  The value of a root is its     *)
(* bucket; "signed" is the bucket that it was signed in.                   *)
Special == <<"xname", "nid", "bss_referral_token", "BOOTIF", "ds">>
Name == Range(Special) \union {"root", "spire", "initrd", "mentions", "other"}
Param ==
  {p \in [name : Name, val : {"given", "added", "token", "cut"} \union Bucket,
          signed : Bucket \union {Empty, None}] : p.name = "root" => p.val \in Bucket}

ASSUME ScriptAssumption ==
  /\ None \notin Bucket \union Config /\ {Http, Empty} \intersect (Bucket \union {None}) = {}
  /\ {"given", "added", "token", "cut"} \intersect Bucket = {}
  /\ \A c \in Config :
       /\ c.params \in Seq({p \in Param : p.signed = None /\ p.val \in {"given"} \union Bucket})
       /\ c.kernel \in Path \union {None} /\ c.initrd \in Path \union {None}
       /\ c.referral \in BOOLEAN
  /\ UseSQL \in BOOLEAN /\ ClientFails \in BOOLEAN /\ MaxFaults \in Nat /\ MaxChanges \in Nat

VARIABLES
  node,     \* the configuration that a lookup finds for the node, or None
  unknown,  \* the record Unknown-<arch>, or None
  hsm,      \* the node in smData: "absent", "disabled" or "enabled"
  stale,    \* the notified stamp is newer than smTimeStamp
  s3Client, \* the bucket of the S3 client, None for no client
  st,       \* the handlers
  faults, changes

shared == <<node, unknown, hsm, stale>>
vars == <<shared, s3Client, st, faults, changes>>

(* Requests ask by MAC or otherwise, may name an architecture, and may ask *)
(* for JSON.                                                               *)
Request == [mac : BOOLEAN, arch : BOOLEAN, json : BOOLEAN]

NoBoot == [params |-> <<>>, kernel |-> None, initrd |-> None, referral |-> FALSE]
Idle == [pc |-> "idle", req |-> [mac |-> FALSE, arch |-> FALSE, json |-> FALSE],
         comp |-> "absent", own |-> NoBoot, bd |-> NoBoot, what |-> "own",
         params |-> <<>>, kernel |-> None, initrd |-> None,
         s3 |-> "no", answer |-> "none"]

Init ==
  /\ node \in Config \union {None} /\ unknown \in Config \union {None}
  /\ hsm \in {"absent", "disabled", "enabled"} /\ stale = FALSE
  /\ s3Client = None
  /\ st = [h \in Handler |-> Idle]
  /\ faults = 0 /\ changes = 0

-----------------------------------------------------------------------------
(* Parameters.                                                             *)
Added(name) == [name |-> name, val |-> "added", signed |-> None]
paramExists(params, name) == \E i \in DOMAIN params : params[i].name = name

(* What buildParams may add: a component has an xname and a NID, and a     *)
(* discovery script is built with no scriptParams.                         *)
Given(s) ==
  {"ds"} \union
  IF s.what = "discovery" THEN {}
  ELSE (IF s.comp # "absent" THEN {"xname", "nid"} ELSE {})
       \union (IF s.own.referral THEN {"bss_referral_token"} ELSE {})
       \union (IF s.req.mac THEN {"BOOTIF"} ELSE {})

(* Mutant: a parameter that is there is added again.                       *)
checkParamAgain(s, name) == IF name \in Given(s) THEN <<Added(name)>> ELSE <<>>

(* What checkParam appends.                                                *)
checkParam(s, name) ==
  IF name \in Given(s) /\ ~paramExists(s.bd.params, name) THEN <<Added(name)>> ELSE <<>>

AddSpecial(s) ==
  s.bd.params \o checkParam(s, "xname") \o checkParam(s, "nid")
    \o checkParam(s, "bss_referral_token") \o checkParam(s, "BOOTIF") \o checkParam(s, "ds")

WantsToken(params) == paramExists(params, "spire")

Substitute(params) ==
  [i \in DOMAIN params |->
     IF params[i].name = "spire" THEN [params[i] EXCEPT !.val = "token"] ELSE params[i]]

(* The roots that replaceS3Params has not signed yet.                      *)
Unsigned(params) == {i \in DOMAIN params : params[i].name = "root" /\ params[i].signed = None}
FirstUnsigned(params) == CHOOSE i \in Unsigned(params) : \A j \in Unsigned(params) : i <= j

(* The first "initrd" is cut out up to the next space.  There is none      *)
(* after the last parameter.                                               *)
SaysInitrd(p) == p.name \in {"initrd", "mentions"} /\ p.val # "cut"
InitrdAt(params) == SelectInSeq(params, SaysInitrd)
CutPanics(s) == s.bd.initrd # None /\ InitrdAt(s.params) # 0 /\ InitrdAt(s.params) = Len(s.params)

(* Mutant: everything after the first "initrd" is cut.                     *)
CutTail(s) ==
  LET at == InitrdAt(s.params)
  IN IF s.bd.initrd = None THEN s.params
     ELSE <<Added("initrd")>> \o IF at = 0 THEN s.params ELSE SubSeq(s.params, 1, at - 1)

CutInitrd(s) ==
  LET at == InitrdAt(s.params)
      cut == CASE at = 0 -> s.params
               [] at # 0 /\ s.params[at].name = "initrd" -> RemoveAt(s.params, at)
               [] OTHER -> [s.params EXCEPT ![at].val = "cut"]
  IN IF s.bd.initrd = None THEN s.params ELSE <<Added("initrd")>> \o cut

-----------------------------------------------------------------------------
(* Administrators, and HSM with its notifications and refreshes.           *)
Change ==
  /\ changes < MaxChanges /\ changes' = changes + 1
  /\ \/ node' \in Config \union {None} /\ UNCHANGED <<unknown, hsm, stale>>
     \/ unknown' \in Config \union {None} /\ UNCHANGED <<node, hsm, stale>>
     \/ hsm' \in {"absent", "disabled", "enabled"} /\ UNCHANGED <<node, unknown, stale>>
     \/ ~UseSQL /\ stale' = ~stale /\ UNCHANGED <<node, unknown, hsm>>
  /\ UNCHANGED <<s3Client, st, faults>>

-----------------------------------------------------------------------------
(* Mutant: an answer in the middle of signing.                             *)
AnswerSigning(s, kind) == [s EXCEPT !.pc = "idle", !.answer = kind]

Answer(s, kind) == [s EXCEPT !.pc = "idle", !.s3 = "no", !.answer = kind]

(* Mutant: the discovery script is built again.                            *)
FailedAgain(s) ==
  IF s.what = "discovery" /\ s.comp # "absent" THEN [s EXCEPT !.pc = "state", !.s3 = "no"]
  ELSE Answer(s, "error")

(* A failure of a discovery script: a component is then given a script of  *)
(* its own.                                                                *)
Failed(s) ==
  IF s.what = "discovery" /\ s.comp # "absent"
  THEN [s EXCEPT !.pc = "state", !.what = "own", !.bd = s.own, !.s3 = "no", !.params = <<>>,
                 !.kernel = None, !.initrd = None]
  ELSE Answer(s, "error")

Become(h, s) == st' = [st EXCEPT ![h] = s]
Fail == faults < MaxFaults /\ faults' = faults + 1

Unknown(s) == s.comp # "enabled" \/ s.own.kernel = None

(* BootscriptGet looks the node up.  An unknown node that does not name    *)
(* its architecture is chained, and told to.                               *)
Ask(h, r) ==
  /\ st[h].pc = "idle"
  /\ LET bd == IF node = None THEN NoBoot ELSE node
         s == [Idle EXCEPT !.req = r, !.comp = hsm, !.own = bd, !.bd = bd]
     IN Become(h, CASE r.json -> [s EXCEPT !.pc = "build"]
                    [] ~r.json /\ Unknown(s) /\ ~r.arch -> Answer(s, "chain")
                    [] ~r.json /\ Unknown(s) /\ r.arch -> [s EXCEPT !.pc = "state", !.what = "discovery"]
                    [] OTHER -> [s EXCEPT !.pc = "state"])
  /\ UNCHANGED <<shared, s3Client, faults, changes>>

(* checkState reads the stamp, an unreadable one is none.  With Postgres    *)
(* BootscriptGet leaves the check out; unknownBootScript does not, and has *)
(* no kvstore to read.                                                     *)
CheckState(h) ==
  LET s == st[h]
      checked == [s EXCEPT !.pc = IF s.what = "own" THEN "build" ELSE "lookup"]
  IN /\ s.pc = "state"
     /\ \/ /\ Become(h, CASE UseSQL /\ s.what = "discovery" -> Answer(s, "panic")
                          [] ~UseSQL /\ stale -> Answer(s, "chain")
                          [] OTHER -> checked)
           /\ UNCHANGED faults
        \/ ~UseSQL /\ Fail /\ Become(h, checked)
     /\ UNCHANGED <<shared, s3Client, changes>>

(* A discovery script is built from the record of its architecture, an     *)
(* unreadable one is none.                                                 *)
LookupUnknown(h) ==
  LET bd == IF unknown = None THEN NoBoot ELSE unknown
  IN /\ st[h].pc = "lookup"
     /\ \/ Become(h, [st[h] EXCEPT !.bd = bd, !.pc = "build"]) /\ UNCHANGED faults
        \/ Become(h, [st[h] EXCEPT !.bd = NoBoot, !.pc = "build"]) /\ Fail
     /\ UNCHANGED <<shared, s3Client, changes>>

(* buildBootScript refuses a configuration without a kernel; buildParams   *)
(* goes up to the join token.                                              *)
Build(h) ==
  LET s == st[h]
      params == AddSpecial(s)
  IN /\ s.pc = "build"
     /\ Become(h, IF s.bd.kernel = None /\ ~s.req.json THEN Failed(s)
                  ELSE [s EXCEPT !.params = params, !.pc = IF WantsToken(params) THEN "token" ELSE "roots"])
     /\ UNCHANGED <<shared, s3Client, faults, changes>>

(* getJoinToken.                                                           *)
JoinToken(h) ==
  LET s == st[h]
  IN /\ s.pc = "token"
     /\ \/ Become(h, [s EXCEPT !.params = Substitute(s.params), !.pc = "roots"]) /\ UNCHANGED faults
        \/ Become(h, Failed(s)) /\ Fail
     /\ UNCHANGED <<shared, s3Client, changes>>

-----------------------------------------------------------------------------
(* checkURL is called for each root, for the kernel and for the initrd.    *)
Stage == {"roots", "kernel", "initrd"}
ToSign(s) ==
  CASE s.pc = "roots" -> IF Unsigned(s.params) = {} THEN None ELSE s.params[FirstUnsigned(s.params)].val
    [] s.pc = "kernel" -> s.bd.kernel
    [] s.pc = "initrd" -> s.bd.initrd

(* After buildParams, the parameters are as they are served.               *)
ParamsBuilt(s) ==
  IF CutPanics(s) THEN Answer(s, "panic")
  ELSE LET t == [s EXCEPT !.params = CutInitrd(s)]
       IN IF s.req.json THEN Answer(t, "json") ELSE [t EXCEPT !.pc = "kernel", !.s3 = "no"]

(* The stage's URL is u.                                                   *)
GoOn(s, u) ==
  CASE s.pc = "roots" /\ u = None -> ParamsBuilt(s)
    [] s.pc = "roots" /\ u # None -> [s EXCEPT !.params[FirstUnsigned(s.params)].signed = u, !.s3 = "no"]
    [] s.pc = "kernel" -> [s EXCEPT !.kernel = u, !.pc = "initrd", !.s3 = "no"]
    [] s.pc = "initrd" -> Answer([s EXCEPT !.initrd = u], "script")

(* A URL that is not of S3 stays as it is.                                 *)
KeepUrl(h) ==
  /\ st[h].pc \in Stage /\ ToSign(st[h]) \notin Bucket
  /\ Become(h, GoOn(st[h], ToSign(st[h])))
  /\ UNCHANGED <<shared, s3Client, faults, changes>>

ToBucket(h) == st[h].pc \in Stage /\ st[h].s3 = "no" /\ ToSign(st[h]) \in Bucket

(* Mutant: a client that is there is used as it is.                        *)
KeepBucket(h) ==
  /\ ToBucket(h) /\ s3Client # None
  /\ Become(h, [st[h] EXCEPT !.s3 = "sign"])
  /\ UNCHANGED <<shared, s3Client, faults, changes>>

SetBucket(h) ==
  /\ ToBucket(h) /\ s3Client # None
  /\ s3Client' = ToSign(st[h])
  /\ Become(h, [st[h] EXCEPT !.s3 = "sign"])
  /\ UNCHANGED <<shared, faults, changes>>

NoClient(h) ==
  /\ ToBucket(h) /\ s3Client = None
  /\ Become(h, [st[h] EXCEPT !.s3 = "make"])
  /\ UNCHANGED <<shared, s3Client, faults, changes>>

(* The client of another handler may be there by now.                      *)
NewS3Client(h) ==
  /\ st[h].s3 = "make"
  /\ \/ s3Client' = ToSign(st[h]) /\ UNCHANGED faults
     \/ ClientFails /\ Fail /\ s3Client' = None
  /\ Become(h, [st[h] EXCEPT !.s3 = "sign"])
  /\ UNCHANGED <<shared, changes>>

(* GetURL signs in the bucket that the client has now.  The error of       *)
(* NewS3Client is lost; one of GetURL leaves roots as they are, and ends   *)
(* the script.                                                             *)
GetURL(h) ==
  LET s == st[h]
  IN /\ s.s3 = "sign"
     /\ \/ Become(h, GoOn(s, IF s3Client = None THEN Empty ELSE s3Client)) /\ UNCHANGED faults
        \/ /\ s3Client # None /\ Fail
           /\ Become(h, IF s.pc = "roots" THEN ParamsBuilt(s) ELSE Failed(s))
     /\ UNCHANGED <<shared, s3Client, changes>>

-----------------------------------------------------------------------------
Step(h) ==
  \/ CheckState(h) \/ LookupUnknown(h) \/ Build(h) \/ JoinToken(h)
  \/ KeepUrl(h) \/ SetBucket(h) \/ NoClient(h) \/ NewS3Client(h) \/ GetURL(h)

Next ==
  \/ Change
  \/ \E h \in Handler : (\E r \in Request : Ask(h, r)) \/ Step(h)

Spec == Init /\ [][Next]_vars

(* A goroutine that handles a request goes on.                             *)
FairSpec == Spec /\ \A h \in Handler : WF_vars(Step(h))

-----------------------------------------------------------------------------
Pc == {"idle", "state", "lookup", "build", "token"} \union Stage
Bd == Config \union {NoBoot}
Url == Bucket \union {Http, Empty, None}

State == [pc : Pc, req : Request, comp : {"absent", "disabled", "enabled"}, own : Bd, bd : Bd,
          what : {"own", "discovery"}, params : Seq(Param), kernel : Url, initrd : Url,
          s3 : {"no", "make", "sign"},
          answer : {"none", "chain", "script", "json", "error", "panic"}]

TypeOK ==
  /\ node \in Config \union {None} /\ unknown \in Config \union {None}
  /\ hsm \in {"absent", "disabled", "enabled"} /\ stale \in BOOLEAN
  /\ s3Client \in Bucket \union {None}
  /\ st \in [Handler -> State]
  /\ \A h \in Handler : st[h].s3 # "no" => st[h].pc \in Stage /\ ToSign(st[h]) \in Bucket
  /\ faults \in 0 .. MaxFaults /\ changes \in 0 .. MaxChanges

Served(h) == st[h].answer \in {"script", "json"}

(* A node is served every parameter of its configuration in its order and  *)
(* with its value, initrds aside: a use of the join token's variable with  *)
(* the token, and, beside an initrd, the first that says initrd without    *)
(* being one, cut short.  Those that BSS adds are served once, and only if *)
(* they are not configured; the initrd of a configuration comes first.     *)
KeptAt(params) == {i \in DOMAIN params : params[i].val # "added" /\ params[i].name # "initrd"}
Meant(p) == IF p.name = "spire" THEN "token" ELSE p.val
CutShort(bd, i) ==
  /\ bd.initrd # None /\ bd.params[i].name = "mentions"
  /\ \A j \in 1 .. i - 1 : bd.params[j].name \notin {"initrd", "mentions"}
ServedAs(p, bd, i) ==
  p.name = bd.params[i].name /\ p.val = IF CutShort(bd, i) THEN "cut" ELSE Meant(bd.params[i])

InOrder(params, bd) ==
  \E f \in [KeptAt(params) -> KeptAt(bd.params)] :
    /\ Range(f) = KeptAt(bd.params)
    /\ \A i, j \in KeptAt(params) : ServedAs(params[i], bd, f[i]) /\ (i < j => f[i] < f[j])

ToAdd(s) ==
  {name \in Given(s) : ~paramExists(s.bd.params, name)}
  \union (IF s.bd.initrd # None THEN {"initrd"} ELSE {})

AsConfigured(s) ==
  LET added == {i \in DOMAIN s.params : s.params[i].val = "added"}
  IN /\ InOrder(s.params, s.bd)
     /\ {s.params[i].name : i \in added} = ToAdd(s)
     /\ \A i, j \in added : s.params[i].name = s.params[j].name => i = j
     /\ s.bd.initrd # None => s.params[1] = Added("initrd")

ParamsAsConfigured == \A h \in Handler : Served(h) => AsConfigured(st[h])

(* What is signed is signed in the bucket that the configuration names,    *)
(* however the handler's own URLs, and those before, differ in theirs.     *)
SignedWhereNamed ==
  \A h \in Handler :
    LET s == st[h]
    IN /\ Served(h) => \A i \in DOMAIN s.params :
            s.params[i].name = "root" => s.params[i].signed \in {None, s.params[i].val}
       /\ s.answer = "script" => s.kernel = s.bd.kernel /\ s.initrd = s.bd.initrd

(* Every request is answered, though discovery scripts fail and what was   *)
(* looked up changes; none makes its handler panic.                        *)
EveryoneAnswered ==
  \A h \in Handler : st[h].pc # "idle" ~> st[h].pc = "idle" /\ st[h].answer # "panic"

Count(params, name) == Len(SelectSeq(params, LAMBDA p : p.name = name))

(* The cut deletes the initrd that is configured, as buildParams says      *)
(* ("deleting any existing occurrence"), and no part of another parameter. *)
OnlyInitrdsCut ==
  \A h \in Handler : Served(h) => \A i \in DOMAIN st[h].params : st[h].params[i].val # "cut"

(* Beside an initrd, nothing that says initrd is served:                   *)
(* buildParams means to delete "any existing occurrence".                  *)
OneInitrd ==
  \A h \in Handler : Served(h) /\ st[h].bd.initrd # None => Count(st[h].params, "initrd") = 1

(* A script that is served has a kernel to load.                           *)
ScriptHasKernel == \A h \in Handler : st[h].answer = "script" => st[h].kernel # Empty
=============================================================================
