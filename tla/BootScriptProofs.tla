-------------------------- MODULE BootScriptProofs --------------------------
(***************************************************************************)
(* Safety of BootScript for any handlers, configurations and buckets.      *)
(***************************************************************************)
EXTENDS BootScript, WellFoundedInduction, SequenceTheorems, TLAPS

-----------------------------------------------------------------------------
(* Parameters.  What holds of each of them is that they are members of a   *)
(* set, which is Closed if the steps of buildParams stay in it.            *)
Stored == {p \in Param : p.signed = None /\ p.val \in {"given"} \union Bucket}
Unwritten == {p \in Param : p.signed = None}
Closed(S) ==
  /\ Unwritten \subseteq S /\ S \subseteq Param
  /\ \A p \in S : p.name # "root" =>
       [p EXCEPT !.val = "token"] \in S /\ [p EXCEPT !.val = "cut"] \in S

(* A root that is signed, is signed in the bucket that it names.           *)
SignedRight == {p \in Param : p.name = "root" => p.signed \in {None, p.val}}

LEMMA ParamsClosed == Closed(Param) /\ Closed(SignedRight)
<1>1. ASSUME NEW p \in Param, p.name # "root", NEW v \in {"token", "cut"}
      PROVE  [p EXCEPT !.val = v] \in SignedRight
  BY <1>1 DEF Param, SignedRight
<1>2. SignedRight \subseteq Param /\ Unwritten \subseteq SignedRight
  BY DEF SignedRight, Unwritten
<1>3. QED
  BY <1>1, <1>2 DEF Closed

LEMMA SpecialNames ==
  \A name \in {"xname", "nid", "bss_referral_token", "BOOTIF", "ds"} : name \in Name
<1>1. /\ Special[1] = "xname" /\ Special[2] = "nid" /\ Special[3] = "bss_referral_token"
      /\ Special[4] = "BOOTIF" /\ Special[5] = "ds" /\ DOMAIN Special = 1 .. 5
  BY DEF Special
<1>2. \A i \in 1 .. 5 : Special[i] \in Range(Special)
  BY <1>1 DEF Range
<1>3. QED
  BY <1>1, <1>2 DEF Name

LEMMA AddedUnwritten ==
  /\ \A name \in {"xname", "nid", "bss_referral_token", "BOOTIF", "ds"} : Added(name) \in Unwritten
  /\ Added("initrd") \in Unwritten
<1>1. \A name \in Name : name # "root" => Added(name) \in Unwritten
  BY DEF Added, Unwritten, Param
<1>2. "initrd" \in Name
  BY DEF Name
<1>3. QED
  BY <1>1, <1>2, SpecialNames

LEMMA BootTyped ==
  ASSUME NEW b \in Bd
  PROVE  /\ b.params \in Seq(Unwritten) /\ b.kernel \in Url /\ b.initrd \in Url
         /\ b.kernel \in Path \union {None} /\ b.initrd \in Path \union {None}
<1>1. b.params \in Seq(Unwritten)
  <2>1. NoBoot.params = <<>> /\ <<>> \in Seq(Unwritten)
    BY DEF NoBoot
  <2>2. \A c \in Config : c.params \in Seq(Unwritten)
    <3>1. Stored \subseteq Unwritten /\ \A c \in Config : c.params \in Seq(Stored)
      BY ScriptAssumption DEF Stored, Unwritten
    <3>2. QED
      BY <3>1, SeqMonotonic
  <2>3. QED
    BY <2>1, <2>2 DEF Bd
<1>2. b.kernel \in Path \union {None} /\ b.initrd \in Path \union {None}
  <2>1. NoBoot.kernel = None /\ NoBoot.initrd = None
    BY DEF NoBoot
  <2>2. \A c \in Config : c.kernel \in Path \union {None} /\ c.initrd \in Path \union {None}
    BY ScriptAssumption
  <2>3. QED
    BY <2>1, <2>2 DEF Bd
<1>3. QED
  BY <1>1, <1>2 DEF Path, Url

LEMMA AddSpecialIn ==
  ASSUME NEW S, Closed(S), NEW s \in State PROVE AddSpecial(s) \in Seq(S)
<1>1. s.bd.params \in Seq(Unwritten)
  BY BootTyped DEF State
<1>2. \A name \in {"xname", "nid", "bss_referral_token", "BOOTIF", "ds"} :
        checkParam(s, name) \in Seq(Unwritten)
  BY AddedUnwritten DEF checkParam
<1>3. AddSpecial(s) \in Seq(Unwritten)
  BY <1>1, <1>2 DEF AddSpecial
<1>4. QED
  BY <1>3, SeqMonotonic DEF Closed

LEMMA SubstituteIn ==
  ASSUME NEW S, Closed(S), NEW params \in Seq(S) PROVE Substitute(params) \in Seq(S)
<1>1. DOMAIN params = 1 .. Len(params) /\ Len(params) \in Nat /\ \A i \in 1 .. Len(params) : params[i] \in S
  OBVIOUS
<1>2. \A i \in 1 .. Len(params) : params[i].name = "spire" => [params[i] EXCEPT !.val = "token"] \in S
  BY <1>1 DEF Closed
<1>3. Substitute(params) \in [1 .. Len(params) -> S]
  BY <1>1, <1>2 DEF Substitute
<1>4. QED
  BY <1>1, <1>3, SeqDef

LEMMA Least ==
  ASSUME NEW T \in SUBSET Nat, T # {} PROVE \E i \in T : \A j \in T : i <= j
<1>1. PICK i \in T : \A j \in T : ~(<<j, i>> \in OpToRel(<, Nat))
  BY NatLessThanWellFounded, WFMin
<1>2. \A j \in T : ~(j < i)
  BY <1>1 DEF OpToRel
<1>3. QED
  BY <1>2

LEMMA FirstUnsignedIs ==
  ASSUME NEW params \in Seq(Param), Unsigned(params) # {}
  PROVE  LET i == FirstUnsigned(params) IN
         /\ i \in 1 .. Len(params) /\ i \in Unsigned(params)
         /\ params[i] \in Param /\ params[i].name = "root" /\ params[i].val \in Bucket
<1>1. Unsigned(params) \in SUBSET Nat
  BY DEF Unsigned
<1>2. FirstUnsigned(params) \in Unsigned(params)
  BY <1>1, Least DEF FirstUnsigned
<1>3. QED
  BY <1>2 DEF Unsigned, Param

LEMMA InitrdAtIs ==
  ASSUME NEW params \in Seq(Param)
  PROVE  LET at == InitrdAt(params) IN
         /\ at = 0 \/ (at \in 1 .. Len(params) /\ SaysInitrd(params[at]))
         /\ \A i \in 1 .. Len(params) : SaysInitrd(params[i]) => at # 0 /\ at <= i
<1> DEFINE I == {i \in 1 .. Len(params) : SaysInitrd(params[i])}
<1>1. InitrdAt(params) = IF I # {} THEN Min(I) ELSE 0
  BY DEF InitrdAt, SelectInSeq
<1>2. I \in SUBSET Nat
  OBVIOUS
<1>3. I # {} => Min(I) \in I /\ \A i \in I : Min(I) <= i
  BY <1>2, Least DEF Min
<1>4. \A i : i \in I <=> i \in 1 .. Len(params) /\ SaysInitrd(params[i])
  OBVIOUS
<1>5. I # {} => InitrdAt(params) # 0
  BY <1>1, <1>3, <1>4
<1> HIDE DEF I
<1>6. QED
  BY <1>1, <1>3, <1>4, <1>5

LEMMA CutInitrdIn ==
  ASSUME NEW S, Closed(S), NEW s \in State, s.params \in Seq(S)
  PROVE  CutInitrd(s) \in Seq(S)
<1> DEFINE params == s.params
           at == InitrdAt(params)
<1>1. params \in Seq(Param)
  BY DEF State
<1>2. at = 0 \/ (at \in 1 .. Len(params) /\ SaysInitrd(params[at]))
  BY <1>1, InitrdAtIs
<1> HIDE DEF at
<1>3. RemoveAt(params, at) \in Seq(S)
  <2>1. CASE at \in 1 .. Len(params)
    <3>1. SubSeq(params, 1, at - 1) \in Seq(S) /\ SubSeq(params, at + 1, Len(params)) \in Seq(S)
      BY <2>1
    <3>2. QED
      BY <3>1 DEF RemoveAt
  <2>2. CASE at = 0
    <3>1. SubSeq(params, 1, at - 1) \in Seq(S) /\ SubSeq(params, at + 1, Len(params)) \in Seq(S)
      BY <2>2
    <3>2. QED
      BY <3>1 DEF RemoveAt
  <2>3. QED
    BY <1>2, <2>1, <2>2
<1>4. ASSUME at # 0 PROVE [params EXCEPT ![at].val = "cut"] \in Seq(S)
  <2>1. at \in 1 .. Len(params) /\ params[at] \in S /\ params[at].name # "root"
    BY <1>2, <1>4 DEF SaysInitrd
  <2>2. [params[at] EXCEPT !.val = "cut"] \in S
    BY <2>1 DEF Closed
  <2>3. QED
    BY <2>1, <2>2, ExceptSeq
<1>5. <<Added("initrd")>> \in Seq(S)
  BY AddedUnwritten DEF Closed
<1>6. QED
  BY <1>3, <1>4, <1>5 DEF CutInitrd, at

-----------------------------------------------------------------------------
(* Types.  A handler that is about to sign a URL is at a stage that has    *)
(* one in S3.                                                              *)
Signing(s) == s.s3 # "no" => s.pc \in Stage /\ ToSign(s) \in Bucket

LEMMA BecomeTyped ==
  ASSUME TypeOK, NEW h \in Handler, NEW s \in State, Signing(s), Become(h, s),
         UNCHANGED <<shared, changes>>, s3Client' \in Bucket \union {None},
         UNCHANGED faults \/ Fail
  PROVE  TypeOK'
<1>1. st' \in [Handler -> State] /\ \A k \in Handler : st'[k] = IF k = h THEN s ELSE st[k]
  BY DEF TypeOK, Become
<1>2. \A k \in Handler : Signing(st'[k])
  BY <1>1 DEF TypeOK, Signing
<1>3. faults' \in 0 .. MaxFaults
  BY ScriptAssumption DEF TypeOK, Fail
<1>4. QED
  BY <1>1, <1>2, <1>3 DEF TypeOK, Signing, ToSign, Unsigned, FirstUnsigned, shared

LEMMA AnswerIs ==
  ASSUME NEW s \in State, NEW kind \in {"none", "chain", "script", "json", "error", "panic"}
  PROVE  LET e == Answer(s, kind) IN
         /\ e \in State /\ e.s3 = "no" /\ e.pc = "idle" /\ e.answer = kind
         /\ e.params = s.params /\ e.kernel = s.kernel /\ e.initrd = s.initrd /\ e.bd = s.bd
BY DEF Answer, State, Pc

LEMMA FailedIs ==
  ASSUME NEW s \in State
  PROVE  LET e == Failed(s) IN
         /\ e \in State /\ e.s3 = "no"
         /\ \/ e.pc = "idle" /\ e.answer = "error" /\ e.params = s.params
            \/ e.pc = "state" /\ e.answer = s.answer /\ e.params = <<>>
<1> DEFINE e == [s EXCEPT !.pc = "state", !.what = "own", !.bd = s.own, !.s3 = "no", !.params = <<>>,
                          !.kernel = None, !.initrd = None]
<1>1. /\ e \in State /\ e.s3 = "no" /\ e.pc = "state" /\ e.answer = s.answer /\ e.params = <<>>
  <2>1. "state" \in Pc /\ None \in Url /\ <<>> \in Seq(Param)
    BY DEF Pc, Url
  <2>2. QED
    BY <2>1 DEF State
<1>2. Failed(s) = e \/ Failed(s) = Answer(s, "error")
  BY DEF Failed
<1> HIDE DEF e
<1>3. LET f == Answer(s, "error") IN
      f \in State /\ f.s3 = "no" /\ f.pc = "idle" /\ f.answer = "error" /\ f.params = s.params
  BY AnswerIs
<1>4. QED
  BY <1>1, <1>2, <1>3

LEMMA ParamsBuiltIs ==
  ASSUME NEW S, Closed(S), NEW s \in State, s.params \in Seq(S)
  PROVE  LET e == ParamsBuilt(s) IN
         /\ e \in State /\ e.s3 = "no" /\ e.params \in Seq(S)
         /\ \/ e.pc = "idle" /\ e.answer \in {"panic", "json"}
            \/ e.pc = "kernel" /\ e.answer = s.answer
<1> DEFINE t == [s EXCEPT !.params = CutInitrd(s)]
           e == [t EXCEPT !.pc = "kernel", !.s3 = "no"]
<1>1. CutInitrd(s) \in Seq(S) /\ CutInitrd(s) \in Seq(Param)
  BY CutInitrdIn, SeqMonotonic DEF Closed
<1>2. t \in State /\ t.params = CutInitrd(s) /\ t.answer = s.answer
  BY <1>1 DEF State
<1> HIDE DEF t
<1>3. e \in State /\ e.s3 = "no" /\ e.params = t.params /\ e.pc = "kernel" /\ e.answer = t.answer
  BY <1>2 DEF State, Pc, Stage
<1> HIDE DEF e
<1>4. ParamsBuilt(s) \in {Answer(s, "panic"), Answer(t, "json"), e}
  BY DEF ParamsBuilt, t, e
<1>5. QED
  BY <1>1, <1>2, <1>3, <1>4, AnswerIs

(* Where a stage ends for which the URL u is found.                        *)
Went(s, e, u) ==
  \/ e.pc = "idle" /\ e.answer # "script"
  \/ e.pc \notin {"idle", "initrd"} /\ e.answer = s.answer
  \/ s.pc = "kernel" /\ e.pc = "initrd" /\ e.kernel = u /\ e.bd = s.bd /\ e.answer = s.answer
  \/ /\ s.pc = "initrd" /\ e.pc = "idle" /\ e.answer = "script"
     /\ e.kernel = s.kernel /\ e.initrd = u /\ e.bd = s.bd

LEMMA GoOnIs ==
  ASSUME NEW S, Closed(S), NEW s \in State, s.params \in Seq(S), s.pc \in Stage,
         NEW u \in Url,
         s.pc = "roots" => \/ u = None
                           \/ /\ u \in Bucket \union {Empty} /\ Unsigned(s.params) # {}
                              /\ [s.params[FirstUnsigned(s.params)] EXCEPT !.signed = u] \in S
  PROVE  LET e == GoOn(s, u) IN
         e \in State /\ e.s3 = "no" /\ e.params \in Seq(S) /\ Went(s, e, u)
<1>1. CASE s.pc = "roots" /\ u = None
  BY <1>1, ParamsBuiltIs DEF GoOn, Went
<1>2. CASE s.pc = "roots" /\ u # None
  <2> DEFINE i == FirstUnsigned(s.params)
             params == [s.params EXCEPT ![i].signed = u]
             e == [s EXCEPT !.params = params, !.s3 = "no"]
  <2>1. i \in 1 .. Len(s.params)
    BY <1>2, FirstUnsignedIs DEF State
  <2>2. params \in Seq(S) /\ params \in Seq(Param)
    BY <1>2, <2>1, ExceptSeq, SeqMonotonic DEF Closed
  <2>3. GoOn(s, u) = e
    BY <1>2 DEF GoOn, State
  <2> HIDE DEF params
  <2>4. e \in State /\ e.s3 = "no" /\ e.params = params /\ e.pc = "roots" /\ e.answer = s.answer
    BY <1>2, <2>2 DEF State
  <2>5. QED
    BY <2>2, <2>3, <2>4 DEF Went
<1>3. CASE s.pc = "kernel"
  <2> DEFINE e == [s EXCEPT !.kernel = u, !.pc = "initrd", !.s3 = "no"]
  <2>1. GoOn(s, u) = e
    BY <1>3 DEF GoOn
  <2>2. /\ e \in State /\ e.s3 = "no" /\ e.params = s.params /\ e.pc = "initrd" /\ e.answer = s.answer
        /\ e.kernel = u /\ e.bd = s.bd
    BY DEF State, Pc, Stage
  <2>3. QED
    BY <1>3, <2>1, <2>2 DEF Went
<1>4. CASE s.pc = "initrd"
  <2> DEFINE t == [s EXCEPT !.initrd = u]
  <2>1. GoOn(s, u) = Answer(t, "script")
    BY <1>4 DEF GoOn
  <2>2. t \in State /\ t.params = s.params /\ t.kernel = s.kernel /\ t.initrd = u /\ t.bd = s.bd
    BY DEF State
  <2> HIDE DEF t
  <2>3. QED
    BY <1>4, <2>1, <2>2, AnswerIs DEF Went
<1>5. QED
  BY <1>1, <1>2, <1>3, <1>4 DEF Stage

LEMMA IdleTyped == Idle \in State /\ Idle.s3 = "no"
<1>1. NoBoot \in Bd /\ <<>> \in Seq(Param) /\ None \in Url /\ "idle" \in Pc
  BY DEF Bd, Url, Pc
<1>2. [mac |-> FALSE, arch |-> FALSE, json |-> FALSE] \in Request
  BY DEF Request
<1>3. QED
  BY <1>1, <1>2 DEF Idle, State

LEMMA QuietSigning == ASSUME NEW s, s.s3 = "no" PROVE Signing(s)
BY DEF Signing

LEMMA OwnTyped ==
  ASSUME TypeOK, NEW h \in Handler
  PROVE  /\ st[h] \in State /\ Signing(st[h]) /\ st[h].params \in Seq(Param)
         /\ s3Client \in Bucket \union {None}
BY DEF TypeOK, Signing, State

(* What Ask and the lookups make of a handler's state, beside its answer.   *)
LEMMA AskIs ==
  ASSUME TypeOK, NEW h \in Handler, NEW r \in Request, Ask(h, r)
  PROVE  \E e \in State : /\ Become(h, e) /\ e.s3 = "no" /\ e.params = <<>>
                          /\ e.pc \in {"idle", "state", "build"} /\ e.answer \in {"none", "chain"}
                          /\ UNCHANGED <<shared, s3Client, faults, changes>>
<1> DEFINE bd == IF node = None THEN NoBoot ELSE node
           s == [Idle EXCEPT !.req = r, !.comp = hsm, !.own = bd, !.bd = bd]
           e == [s EXCEPT !.pc = "build"]
           f == [s EXCEPT !.pc = "state"]
           g == [s EXCEPT !.pc = "state", !.what = "discovery"]
<1>1. bd \in Bd /\ hsm \in {"absent", "disabled", "enabled"}
  BY DEF TypeOK, Bd
<1>2. Become(h, e) \/ Become(h, f) \/ Become(h, g) \/ Become(h, Answer(s, "chain"))
  BY Zenon DEF Ask
<1>3. Idle.params = <<>> /\ Idle.answer = "none"
  BY DEF Idle
<1> HIDE DEF bd
<1>4. s \in State /\ s.s3 = "no" /\ s.params = <<>> /\ s.answer = "none"
  BY <1>1, <1>3, IdleTyped DEF State
<1> HIDE DEF s
<1>5. "state" \in Pc /\ "build" \in Pc
  BY DEF Pc
<1>6. \A x \in {e, f, g} : /\ x \in State /\ x.s3 = "no" /\ x.params = <<>> /\ x.answer = "none"
                           /\ x.pc \in {"state", "build"}
  <2>1. e \in State /\ e.s3 = "no" /\ e.params = <<>> /\ e.answer = "none" /\ e.pc = "build"
    BY <1>4, <1>5 DEF State
  <2>2. f \in State /\ f.s3 = "no" /\ f.params = <<>> /\ f.answer = "none" /\ f.pc = "state"
    BY <1>4, <1>5 DEF State
  <2>3. g \in State /\ g.s3 = "no" /\ g.params = <<>> /\ g.answer = "none" /\ g.pc = "state"
    BY <1>4, <1>5 DEF State
  <2>4. QED
    BY <2>1, <2>2, <2>3
<1> HIDE DEF e, f, g
<1>7. LET x == Answer(s, "chain") IN
      x \in State /\ x.s3 = "no" /\ x.params = <<>> /\ x.pc = "idle" /\ x.answer = "chain"
  BY <1>4, AnswerIs
<1>8. UNCHANGED <<shared, s3Client, faults, changes>>
  BY DEF Ask
<1>9. QED
  BY <1>2, <1>6, <1>7, <1>8

LEMMA CheckStateIs ==
  ASSUME TypeOK, NEW h \in Handler, CheckState(h)
  PROVE  LET s == st[h] IN
         \E e \in State : /\ Become(h, e) /\ s.pc = "state" /\ e.s3 = "no" /\ e.params = s.params
                          /\ \/ e.pc = "idle" /\ e.answer \in {"chain", "panic"}
                             \/ e.pc \in {"lookup", "build"} /\ e.answer = s.answer
                          /\ UNCHANGED <<shared, s3Client, changes>> /\ (UNCHANGED faults \/ Fail)
<1> DEFINE s == st[h]
           pc == IF s.what = "own" THEN "build" ELSE "lookup"
           e == [s EXCEPT !.pc = pc]
<1>1. s \in State /\ Signing(s)
  BY OwnTyped
<1>2. /\ s.pc = "state" /\ UNCHANGED <<shared, s3Client, changes>> /\ (UNCHANGED faults \/ Fail)
      /\ Become(h, Answer(s, "panic")) \/ Become(h, Answer(s, "chain")) \/ Become(h, e)
  BY Zenon DEF CheckState
<1>3. s.s3 = "no"
  BY <1>1, <1>2 DEF Signing, Stage, State
<1>4. pc \in {"lookup", "build"} /\ pc \in Pc
  BY DEF Pc
<1> HIDE DEF pc, s
<1>5. e \in State /\ e.s3 = "no" /\ e.params = s.params /\ e.pc = pc /\ e.answer = s.answer
  BY <1>1, <1>3, <1>4 DEF State
<1> HIDE DEF e
<1>6. \A k \in {"chain", "panic"} :
        LET x == Answer(s, k) IN
        x \in State /\ x.s3 = "no" /\ x.params = s.params /\ x.pc = "idle" /\ x.answer = k
  BY <1>1, AnswerIs
<1>7. QED
  BY <1>2, <1>4, <1>5, <1>6 DEF s

LEMMA LookupUnknownIs ==
  ASSUME TypeOK, NEW h \in Handler, LookupUnknown(h)
  PROVE  LET s == st[h] IN
         \E e \in State : /\ Become(h, e) /\ s.pc = "lookup" /\ e.s3 = "no" /\ e.params = s.params
                          /\ e.pc = "build" /\ e.answer = s.answer
                          /\ UNCHANGED <<shared, s3Client, changes>> /\ (UNCHANGED faults \/ Fail)
<1> DEFINE s == st[h]
           bd == IF unknown = None THEN NoBoot ELSE unknown
<1>1. s \in State /\ Signing(s) /\ unknown \in Config \union {None}
  BY OwnTyped DEF TypeOK
<1>2. /\ s.pc = "lookup" /\ UNCHANGED <<shared, s3Client, changes>> /\ (UNCHANGED faults \/ Fail)
      /\ \/ Become(h, [s EXCEPT !.bd = bd, !.pc = "build"])
         \/ Become(h, [s EXCEPT !.bd = NoBoot, !.pc = "build"])
  BY Zenon DEF LookupUnknown
<1>3. s.s3 = "no"
  BY <1>1, <1>2 DEF Signing, Stage, State
<1>4. bd \in Bd /\ NoBoot \in Bd /\ "build" \in Pc
  BY <1>1 DEF Bd, Pc
<1> HIDE DEF bd, s
<1>5. ASSUME NEW x \in Bd
      PROVE  LET e == [s EXCEPT !.bd = x, !.pc = "build"] IN
             e \in State /\ e.s3 = "no" /\ e.params = s.params /\ e.pc = "build" /\ e.answer = s.answer
  BY <1>1, <1>3, <1>4 DEF State
<1>6. QED
  BY <1>2, <1>4, <1>5 DEF s

LEMMA BuildIs ==
  ASSUME TypeOK, NEW h \in Handler, Build(h), NEW S, Closed(S)
  PROVE  LET s == st[h] IN
         \E e \in State : /\ Become(h, e) /\ s.pc = "build" /\ e.s3 = "no"
                          /\ s.params \in Seq(S) => e.params \in Seq(S)
                          /\ \/ e.pc = "idle" /\ e.answer = "error"
                             \/ e.pc \in {"state", "token", "roots"} /\ e.answer = s.answer
                          /\ UNCHANGED <<shared, s3Client, faults, changes>>
<1> DEFINE s == st[h]
           params == AddSpecial(s)
           e == [s EXCEPT !.params = params, !.pc = "token"]
           f == [s EXCEPT !.params = params, !.pc = "roots"]
<1>1. s \in State /\ Signing(s)
  BY OwnTyped
<1>2. /\ s.pc = "build" /\ UNCHANGED <<shared, s3Client, faults, changes>>
      /\ Become(h, Failed(s)) \/ Become(h, e) \/ Become(h, f)
  BY Zenon DEF Build
<1>3. s.s3 = "no"
  BY <1>1, <1>2 DEF Signing, Stage, State
<1>4. params \in Seq(S) /\ params \in Seq(Param) /\ "token" \in Pc /\ "roots" \in Pc
  BY <1>1, AddSpecialIn, ParamsClosed DEF Pc, Stage
<1> HIDE DEF params, s
<1>5. e \in State /\ e.s3 = "no" /\ e.params = params /\ e.pc = "token" /\ e.answer = s.answer
  BY <1>1, <1>3, <1>4 DEF State
<1>6. f \in State /\ f.s3 = "no" /\ f.params = params /\ f.pc = "roots" /\ f.answer = s.answer
  BY <1>1, <1>3, <1>4 DEF State
<1> HIDE DEF e, f
<1>7. LET x == Failed(s) IN
      /\ x \in State /\ x.s3 = "no" /\ (s.params \in Seq(S) => x.params \in Seq(S))
      /\ \/ x.pc = "idle" /\ x.answer = "error"
         \/ x.pc = "state" /\ x.answer = s.answer
  <2>1. <<>> \in Seq(S)
    OBVIOUS
  <2>2. QED
    BY <1>1, <2>1, FailedIs
<1>8. QED
  BY <1>2, <1>4, <1>5, <1>6, <1>7 DEF s

LEMMA JoinTokenIs ==
  ASSUME TypeOK, NEW h \in Handler, JoinToken(h), NEW S, Closed(S), st[h].params \in Seq(S)
  PROVE  LET s == st[h] IN
         \E e \in State : /\ Become(h, e) /\ s.pc = "token" /\ e.s3 = "no" /\ e.params \in Seq(S)
                          /\ \/ e.pc = "idle" /\ e.answer = "error"
                             \/ e.pc \in {"state", "roots"} /\ e.answer = s.answer
                          /\ UNCHANGED <<shared, s3Client, changes>> /\ (UNCHANGED faults \/ Fail)
<1> DEFINE s == st[h]
           params == Substitute(s.params)
           e == [s EXCEPT !.params = params, !.pc = "roots"]
<1>1. s \in State /\ Signing(s) /\ s.params \in Seq(Param)
  BY OwnTyped
<1>2. /\ s.pc = "token" /\ UNCHANGED <<shared, s3Client, changes>> /\ (UNCHANGED faults \/ Fail)
      /\ Become(h, Failed(s)) \/ Become(h, e)
  BY Zenon DEF JoinToken
<1>3. s.s3 = "no"
  BY <1>1, <1>2 DEF Signing, Stage, State
<1>4. params \in Seq(S) /\ params \in Seq(Param) /\ "roots" \in Pc
  BY <1>1, SubstituteIn, ParamsClosed DEF Pc, Stage
<1> HIDE DEF params, s
<1>5. e \in State /\ e.s3 = "no" /\ e.params = params /\ e.pc = "roots" /\ e.answer = s.answer
  BY <1>1, <1>3, <1>4 DEF State
<1> HIDE DEF e
<1>6. LET x == Failed(s) IN
      /\ x \in State /\ x.s3 = "no" /\ x.params \in Seq(S)
      /\ \/ x.pc = "idle" /\ x.answer = "error"
         \/ x.pc = "state" /\ x.answer = s.answer
  <2>1. <<>> \in Seq(S) /\ s.params \in Seq(S)
    BY DEF s
  <2>2. QED
    BY <1>1, <2>1, FailedIs
<1>7. QED
  BY <1>2, <1>4, <1>5, <1>6 DEF s

LEMMA KeepUrlIs ==
  ASSUME TypeOK, NEW h \in Handler, KeepUrl(h), NEW S, Closed(S), st[h].params \in Seq(S)
  PROVE  LET s == st[h] IN
         \E e \in State : /\ Become(h, e) /\ e.s3 = "no" /\ e.params \in Seq(S)
                          /\ s.pc \in Stage /\ Went(s, e, ToSign(s))
                          /\ UNCHANGED <<shared, s3Client, faults, changes>>
<1> DEFINE s == st[h]
           u == ToSign(s)
<1>1. s \in State /\ s.params \in Seq(Param)
  BY OwnTyped
<1>2. /\ s.pc \in Stage /\ u \notin Bucket /\ Become(h, GoOn(s, u))
      /\ UNCHANGED <<shared, s3Client, faults, changes>>
  BY DEF KeepUrl
<1>3. u \in Url /\ (s.pc = "roots" => u = None)
  <2>1. CASE s.pc = "roots"
    <3>1. Unsigned(s.params) = {}
      BY <1>1, <1>2, <2>1, FirstUnsignedIs DEF ToSign
    <3>2. QED
      BY <2>1, <3>1 DEF ToSign, Url
  <2>2. CASE s.pc = "kernel"
    BY <1>1, <2>2, BootTyped DEF ToSign, State
  <2>3. CASE s.pc = "initrd"
    BY <1>1, <2>3, BootTyped DEF ToSign, State
  <2>4. QED
    BY <1>2, <2>1, <2>2, <2>3 DEF Stage
<1> HIDE DEF u
<1>4. LET e == GoOn(s, u) IN
      e \in State /\ e.s3 = "no" /\ e.params \in Seq(S) /\ Went(s, e, u)
  BY <1>1, <1>2, <1>3, GoOnIs
<1>5. QED
  BY <1>2, <1>4 DEF u

LEMMA ClientIs ==
  ASSUME TypeOK, NEW h \in Handler, SetBucket(h) \/ NoClient(h) \/ NewS3Client(h)
  PROVE  LET s == st[h] IN
         \E e \in State :
           /\ Become(h, e) /\ s.pc \in Stage /\ ToSign(s) \in Bucket /\ Signing(e)
           /\ e = [s EXCEPT !.s3 = e.s3] /\ ToSign(e) = ToSign(s)
           /\ \/ e.s3 = "sign" /\ s3Client' = ToSign(s) /\ UNCHANGED faults
              \/ e.s3 = "sign" /\ s3Client' = None /\ ClientFails /\ Fail
              \/ e.s3 = "make" /\ UNCHANGED <<s3Client, faults>>
           /\ UNCHANGED <<shared, changes>>
<1> DEFINE s == st[h]
           e == [s EXCEPT !.s3 = "sign"]
           f == [s EXCEPT !.s3 = "make"]
<1>1. s \in State /\ Signing(s)
  BY OwnTyped
<1>2. s.pc \in Stage /\ ToSign(s) \in Bucket
  BY <1>1 DEF SetBucket, NoClient, NewS3Client, ToBucket, Signing
<1>3. e \in State /\ f \in State
  BY <1>1 DEF State
<1>4. /\ e.s3 = "sign" /\ e.pc = s.pc /\ e.params = s.params /\ e.bd = s.bd
      /\ f.s3 = "make" /\ f.pc = s.pc /\ f.params = s.params /\ f.bd = s.bd
  BY <1>1 DEF State
<1>5. e = [s EXCEPT !.s3 = e.s3] /\ f = [s EXCEPT !.s3 = f.s3]
  BY <1>4
<1>6. /\ \/ Become(h, e) /\ s3Client' = ToSign(s) /\ UNCHANGED faults
         \/ Become(h, e) /\ s3Client' = None /\ ClientFails /\ Fail
         \/ Become(h, f) /\ UNCHANGED <<s3Client, faults>>
      /\ UNCHANGED <<shared, changes>>
  BY DEF SetBucket, NoClient, NewS3Client
<1> HIDE DEF s, e, f
<1>7. ToSign(e) = ToSign(s) /\ ToSign(f) = ToSign(s)
  BY <1>4 DEF ToSign
<1>8. Signing(e) /\ Signing(f)
  BY <1>2, <1>4, <1>7 DEF Signing
<1>9. QED
  BY <1>2, <1>3, <1>4, <1>5, <1>6, <1>7, <1>8 DEF s

(* What GetURL signs with: the client's bucket, or nothing.                *)
Client == IF s3Client = None THEN Empty ELSE s3Client

LEMMA GetURLIs ==
  ASSUME TypeOK, NEW h \in Handler, GetURL(h), NEW S, Closed(S), st[h].params \in Seq(S),
         LET s == st[h] IN
         s.pc = "roots" => [s.params[FirstUnsigned(s.params)] EXCEPT !.signed = Client] \in S
  PROVE  LET s == st[h] IN
         \E e \in State : /\ Become(h, e) /\ s.s3 = "sign" /\ e.s3 = "no" /\ e.params \in Seq(S)
                          /\ s.pc \in Stage /\ Went(s, e, Client)
                          /\ UNCHANGED <<shared, s3Client, changes>> /\ (UNCHANGED faults \/ Fail)
<1> DEFINE s == st[h]
           u == Client
<1>1. s \in State /\ Signing(s) /\ s.params \in Seq(Param) /\ s3Client \in Bucket \union {None}
  BY OwnTyped
<1>2. /\ s.s3 = "sign" /\ UNCHANGED <<shared, s3Client, changes>> /\ (UNCHANGED faults \/ Fail)
      /\ Become(h, GoOn(s, u)) \/ Become(h, ParamsBuilt(s)) \/ Become(h, Failed(s))
  BY Zenon DEF GetURL, Client
<1>3. s.pc \in Stage /\ ToSign(s) \in Bucket
  BY <1>1, <1>2 DEF Signing
<1>4. u \in Url /\ u \in Bucket \union {Empty}
  BY <1>1 DEF Client, Url
<1>5. s.pc = "roots" => /\ Unsigned(s.params) # {}
                        /\ [s.params[FirstUnsigned(s.params)] EXCEPT !.signed = u] \in S
  BY <1>3, ScriptAssumption DEF ToSign
<1>6. s.params \in Seq(S)
  OBVIOUS
<1> HIDE DEF u, s
<1>7. LET e == GoOn(s, u) IN
      e \in State /\ e.s3 = "no" /\ e.params \in Seq(S) /\ Went(s, e, u)
  BY <1>1, <1>3, <1>4, <1>5, <1>6, GoOnIs
<1>8. LET e == ParamsBuilt(s) IN
      e \in State /\ e.s3 = "no" /\ e.params \in Seq(S) /\ Went(s, e, u)
  BY <1>1, <1>6, ParamsBuiltIs DEF Went
<1>9. LET e == Failed(s) IN
      e \in State /\ e.s3 = "no" /\ e.params \in Seq(S) /\ Went(s, e, u)
  <2>1. <<>> \in Seq(S)
    OBVIOUS
  <2>2. QED
    BY <1>1, <1>6, <2>1, FailedIs DEF Went
<1>10. QED
  BY <1>2, <1>3, <1>7, <1>8, <1>9 DEF s, u

-----------------------------------------------------------------------------
LEMMA InitTyped == Init => TypeOK
<1>1. ASSUME Init PROVE TypeOK
  <2>1. st \in [Handler -> State] /\ \A h \in Handler : st[h] = Idle
    BY <1>1, IdleTyped DEF Init
  <2>2. 0 \in 0 .. MaxFaults /\ 0 \in 0 .. MaxChanges
    BY ScriptAssumption
  <2>3. QED
    BY <1>1, <2>1, <2>2, IdleTyped DEF Init, TypeOK
<1>2. QED
  BY <1>1

LEMMA ChangeTyped == ASSUME TypeOK, Change PROVE TypeOK'
<1>1. changes' \in 0 .. MaxChanges
  BY ScriptAssumption DEF Change, TypeOK
<1>2. UNCHANGED <<s3Client, st, faults>>
  BY DEF Change
<1>3. /\ node' \in Config \union {None} /\ unknown' \in Config \union {None}
      /\ hsm' \in {"absent", "disabled", "enabled"} /\ stale' \in BOOLEAN
  BY DEF Change, TypeOK
<1>4. \A h \in Handler : ToSign(st[h])' = ToSign(st[h])
  BY <1>2 DEF ToSign, Unsigned, FirstUnsigned
<1>5. QED
  BY <1>1, <1>2, <1>3, <1>4 DEF TypeOK

LEMMA StepTyped == ASSUME TypeOK, NEW h \in Handler, Step(h) PROVE TypeOK'
<1>1. s3Client \in Bucket \union {None} /\ st[h].params \in Seq(Param) /\ Closed(Param)
  BY OwnTyped, ParamsClosed
<1>2. CASE CheckState(h)
  <2>1. PICK e \in State : /\ Become(h, e) /\ e.s3 = "no" /\ UNCHANGED <<shared, s3Client, changes>>
                           /\ UNCHANGED faults \/ Fail
    BY <1>2, CheckStateIs
  <2>2. QED
    BY <1>1, <2>1, QuietSigning, BecomeTyped
<1>9. CASE LookupUnknown(h)
  <2>1. PICK e \in State : /\ Become(h, e) /\ e.s3 = "no" /\ UNCHANGED <<shared, s3Client, changes>>
                           /\ UNCHANGED faults \/ Fail
    BY <1>9, LookupUnknownIs
  <2>2. QED
    BY <1>1, <2>1, QuietSigning, BecomeTyped
<1>3. CASE Build(h)
  <2>1. PICK e \in State : Become(h, e) /\ e.s3 = "no" /\ UNCHANGED <<shared, s3Client, faults, changes>>
    BY <1>1, <1>3, BuildIs
  <2>2. QED
    BY <1>1, <2>1, QuietSigning, BecomeTyped
<1>4. CASE JoinToken(h)
  <2>1. PICK e \in State : /\ Become(h, e) /\ e.s3 = "no" /\ UNCHANGED <<shared, s3Client, changes>>
                           /\ UNCHANGED faults \/ Fail
    BY <1>1, <1>4, JoinTokenIs
  <2>2. QED
    BY <1>1, <2>1, QuietSigning, BecomeTyped
<1>5. CASE KeepUrl(h)
  <2>1. PICK e \in State : Become(h, e) /\ e.s3 = "no" /\ UNCHANGED <<shared, s3Client, faults, changes>>
    BY <1>1, <1>5, KeepUrlIs
  <2>2. QED
    BY <1>1, <2>1, QuietSigning, BecomeTyped
<1>6. CASE SetBucket(h) \/ NoClient(h) \/ NewS3Client(h)
  <2>1. PICK e \in State : /\ Become(h, e) /\ ToSign(st[h]) \in Bucket /\ Signing(e)
                           /\ s3Client' \in {ToSign(st[h]), None, s3Client}
                           /\ UNCHANGED <<shared, changes>> /\ (UNCHANGED faults \/ Fail)
    BY <1>6, ClientIs
  <2>2. QED
    BY <1>1, <2>1, BecomeTyped
<1>7. CASE GetURL(h)
  <2>1. st[h].pc = "roots" =>
          [st[h].params[FirstUnsigned(st[h].params)] EXCEPT !.signed = Client] \in Param
    <3>1. SUFFICES ASSUME st[h].pc = "roots"
                   PROVE  [st[h].params[FirstUnsigned(st[h].params)] EXCEPT !.signed = Client] \in Param
      OBVIOUS
    <3>2. Unsigned(st[h].params) # {}
      <4>1. ToSign(st[h]) \in Bucket
        BY <1>7, OwnTyped DEF GetURL, Signing
      <4>2. QED
        BY <3>1, <4>1, ScriptAssumption DEF ToSign
    <3>3. st[h].params[FirstUnsigned(st[h].params)] \in Param
      BY <1>1, <3>2, FirstUnsignedIs
    <3>4. Client \in Bucket \union {Empty}
      BY <1>1 DEF Client
    <3>5. QED
      BY <3>3, <3>4 DEF Param
  <2>2. PICK e \in State : /\ Become(h, e) /\ e.s3 = "no" /\ UNCHANGED <<shared, s3Client, changes>>
                           /\ UNCHANGED faults \/ Fail
    BY <1>1, <1>7, <2>1, GetURLIs
  <2>3. QED
    BY <1>1, <2>2, QuietSigning, BecomeTyped
<1>8. QED
  BY <1>2, <1>3, <1>4, <1>5, <1>6, <1>7, <1>9 DEF Step

LEMMA NextTyped == TypeOK /\ [Next]_vars => TypeOK'
<1>1. ASSUME TypeOK, NEW h \in Handler, NEW r \in Request, Ask(h, r) PROVE TypeOK'
  <2>1. PICK e \in State : Become(h, e) /\ e.s3 = "no" /\ UNCHANGED <<shared, s3Client, faults, changes>>
    BY <1>1, AskIs
  <2>2. QED
    BY <1>1, <2>1, OwnTyped, QuietSigning, BecomeTyped
<1>2. ASSUME TypeOK, UNCHANGED vars PROVE TypeOK'
  <2>1. \A h \in Handler : ToSign(st[h])' = ToSign(st[h])
    BY <1>2 DEF vars, ToSign, Unsigned, FirstUnsigned
  <2>2. QED
    BY <1>2, <2>1 DEF TypeOK, vars, shared
<1>3. QED
  BY <1>1, <1>2, ChangeTyped, StepTyped DEF Next

(* Type correctness: whatever URLs, parameters and failures a handler      *)
(* goes through, it signs only at a stage of checkURL, a URL in S3.        *)
THEOREM TypeCorrect == Spec => []TypeOK
BY InitTyped, NextTyped, PTL DEF Spec

-----------------------------------------------------------------------------
(* Signing.  The S3 client is one of all the handlers, and has one bucket  *)
(* at a time: a URL is signed in the bucket that it names where another    *)
(* handler cannot set another bucket in between, and where the client can  *)
(* always be made.                                                         *)
Undisturbed == (\A h, k \in Handler : h = k) \/ (\A b, c \in Bucket : b = c)

OwnSigned(s) ==
  /\ s.params \in Seq(SignedRight)
  /\ s.pc = "initrd" => s.kernel = s.bd.kernel
  /\ s.answer = "script" => s.pc = "idle" /\ s.kernel = s.bd.kernel /\ s.initrd = s.bd.initrd

SignInv ==
  /\ \A h \in Handler : OwnSigned(st[h])
  /\ \A h \in Handler : st[h].s3 = "sign" => s3Client = ToSign(st[h])

LEMMA BecomeSigned ==
  ASSUME TypeOK, SignInv, NEW h \in Handler, NEW s \in State, OwnSigned(s), s.s3 = "no",
         Become(h, s), UNCHANGED s3Client
  PROVE  SignInv'
<1>1. \A k \in Handler : st'[k] = IF k = h THEN s ELSE st[k]
  BY DEF TypeOK, Become
<1>2. \A k \in Handler : OwnSigned(st'[k])
  BY <1>1 DEF SignInv
<1>3. \A k \in Handler : st'[k].s3 = "sign" => s3Client = ToSign(st'[k])
  BY <1>1 DEF SignInv
<1>4. QED
  BY <1>2, <1>3 DEF SignInv, OwnSigned, ToSign, Unsigned, FirstUnsigned

LEMMA WentSigned ==
  ASSUME TypeOK, SignInv, NEW h \in Handler, NEW e \in State, e.params \in Seq(SignedRight),
         st[h].pc \in Stage, Went(st[h], e, ToSign(st[h]))
  PROVE  OwnSigned(e)
<1> DEFINE s == st[h]
<1>1. OwnSigned(s) /\ s.answer # "script"
  BY DEF SignInv, OwnSigned, Stage
<1>2. CASE e.pc = "idle" /\ e.answer # "script"
  BY <1>2 DEF OwnSigned
<1>3. CASE e.pc \notin {"idle", "initrd"} /\ e.answer = s.answer
  BY <1>1, <1>3 DEF OwnSigned
<1>4. CASE /\ s.pc = "kernel" /\ e.pc = "initrd" /\ e.kernel = ToSign(s) /\ e.bd = s.bd
           /\ e.answer = s.answer
  BY <1>1, <1>4 DEF OwnSigned, ToSign
<1>5. CASE /\ s.pc = "initrd" /\ e.pc = "idle" /\ e.answer = "script"
           /\ e.kernel = s.kernel /\ e.initrd = ToSign(s) /\ e.bd = s.bd
  BY <1>1, <1>5 DEF OwnSigned, ToSign
<1>6. QED
  BY <1>2, <1>3, <1>4, <1>5 DEF Went

LEMMA ClientSigned ==
  ASSUME TypeOK, SignInv, Undisturbed, ~ClientFails,
         NEW h \in Handler, SetBucket(h) \/ NoClient(h) \/ NewS3Client(h)
  PROVE  SignInv'
<1> DEFINE s == st[h]
<1>1. PICK e \in State :
        /\ Become(h, e) /\ s.pc \in Stage /\ ToSign(s) \in Bucket
        /\ e = [s EXCEPT !.s3 = e.s3] /\ ToSign(e) = ToSign(s)
        /\ \/ e.s3 = "sign" /\ s3Client' = ToSign(s)
           \/ e.s3 = "make" /\ UNCHANGED s3Client
  BY ClientIs
<1>2. \A k \in Handler : st'[k] = IF k = h THEN e ELSE st[k]
  BY <1>1 DEF TypeOK, Become
<1>3. OwnSigned(e)
  <2>1. OwnSigned(s) /\ s \in State
    BY OwnTyped DEF SignInv
  <2>2. /\ e.params = s.params /\ e.pc = s.pc /\ e.kernel = s.kernel /\ e.initrd = s.initrd
        /\ e.bd = s.bd /\ e.answer = s.answer
    BY <1>1, <2>1 DEF State
  <2>3. QED
    BY <2>1, <2>2 DEF OwnSigned
<1>4. ASSUME NEW k \in Handler, st'[k].s3 = "sign" PROVE s3Client' = ToSign(st'[k])
  <2>1. CASE k = h
    BY <1>1, <1>2, <1>4, <2>1
  <2>2. CASE k # h
    <3>1. st'[k] = st[k] /\ s3Client = ToSign(st[k]) /\ ToSign(st[k]) \in Bucket
      BY <1>2, <1>4, <2>2, OwnTyped DEF SignInv, Signing
    <3>2. \A b, c \in Bucket : b = c
      BY <2>2 DEF Undisturbed
    <3>3. QED
      BY <1>1, <3>1, <3>2
  <2>3. QED
    BY <2>1, <2>2
<1>5. \A k \in Handler : OwnSigned(st'[k])
  BY <1>2, <1>3 DEF SignInv
<1>6. QED
  BY <1>4, <1>5 DEF SignInv, OwnSigned, ToSign, Unsigned, FirstUnsigned

LEMMA StepSigned ==
  ASSUME TypeOK, SignInv, Undisturbed, ~ClientFails, NEW h \in Handler, Step(h)
  PROVE  SignInv'
<1> DEFINE s == st[h]
<1>1. Closed(SignedRight) /\ OwnSigned(s) /\ s.params \in Seq(SignedRight)
  BY ParamsClosed DEF SignInv, OwnSigned
<1>2. s.pc # "idle" => s.answer # "script"
  BY <1>1 DEF OwnSigned
<1>3. CASE CheckState(h)
  <2>1. PICK e \in State : /\ Become(h, e) /\ s.pc = "state" /\ e.s3 = "no" /\ e.params = s.params
                           /\ \/ e.pc = "idle" /\ e.answer \in {"chain", "panic"}
                              \/ e.pc \in {"lookup", "build"} /\ e.answer = s.answer
                           /\ UNCHANGED <<shared, s3Client, changes>>
    BY <1>3, CheckStateIs
  <2>2. OwnSigned(e)
    BY <1>1, <1>2, <2>1 DEF OwnSigned
  <2>3. QED
    BY <2>1, <2>2, BecomeSigned
<1>10. CASE LookupUnknown(h)
  <2>1. PICK e \in State : /\ Become(h, e) /\ s.pc = "lookup" /\ e.s3 = "no" /\ e.params = s.params
                           /\ e.pc = "build" /\ e.answer = s.answer
                           /\ UNCHANGED <<shared, s3Client, changes>>
    BY <1>10, LookupUnknownIs
  <2>2. OwnSigned(e)
    BY <1>1, <1>2, <2>1 DEF OwnSigned
  <2>3. QED
    BY <2>1, <2>2, BecomeSigned
<1>4. CASE Build(h)
  <2>1. PICK e \in State : /\ Become(h, e) /\ s.pc = "build" /\ e.s3 = "no"
                           /\ e.params \in Seq(SignedRight)
                           /\ \/ e.pc = "idle" /\ e.answer = "error"
                              \/ e.pc \in {"state", "token", "roots"} /\ e.answer = s.answer
                           /\ UNCHANGED <<shared, s3Client, faults, changes>>
    BY <1>1, <1>4, BuildIs
  <2>2. OwnSigned(e)
    BY <1>2, <2>1 DEF OwnSigned
  <2>3. QED
    BY <2>1, <2>2, BecomeSigned
<1>5. CASE JoinToken(h)
  <2>1. PICK e \in State : /\ Become(h, e) /\ s.pc = "token" /\ e.s3 = "no"
                           /\ e.params \in Seq(SignedRight)
                           /\ \/ e.pc = "idle" /\ e.answer = "error"
                              \/ e.pc \in {"state", "roots"} /\ e.answer = s.answer
                           /\ UNCHANGED <<shared, s3Client, changes>>
    BY <1>1, <1>5, JoinTokenIs
  <2>2. OwnSigned(e)
    BY <1>2, <2>1 DEF OwnSigned
  <2>3. QED
    BY <2>1, <2>2, BecomeSigned
<1>6. CASE KeepUrl(h)
  <2>1. PICK e \in State : /\ Become(h, e) /\ e.s3 = "no" /\ e.params \in Seq(SignedRight)
                           /\ s.pc \in Stage /\ Went(s, e, ToSign(s))
                           /\ UNCHANGED <<shared, s3Client, faults, changes>>
    BY <1>1, <1>6, KeepUrlIs
  <2>2. QED
    BY <2>1, WentSigned, BecomeSigned
<1>7. CASE SetBucket(h) \/ NoClient(h) \/ NewS3Client(h)
  BY <1>7, ClientSigned
<1>8. CASE GetURL(h)
  <2>1. ToSign(s) \in Bucket /\ Client = ToSign(s)
    <3>1. s.s3 = "sign" /\ ToSign(s) \in Bucket /\ s3Client = ToSign(s)
      BY <1>8, OwnTyped DEF GetURL, Signing, SignInv
    <3>2. QED
      BY <3>1, ScriptAssumption DEF Client
  <2>2. s.pc = "roots" =>
          [s.params[FirstUnsigned(s.params)] EXCEPT !.signed = Client] \in SignedRight
    <3>1. SUFFICES ASSUME s.pc = "roots"
                   PROVE  [s.params[FirstUnsigned(s.params)] EXCEPT !.signed = Client] \in SignedRight
      OBVIOUS
    <3>2. Unsigned(s.params) # {} /\ Client = s.params[FirstUnsigned(s.params)].val
      BY <2>1, <3>1, ScriptAssumption DEF ToSign
    <3>3. /\ s.params[FirstUnsigned(s.params)] \in Param
          /\ s.params[FirstUnsigned(s.params)].val \in Bucket
      BY <3>2, OwnTyped, FirstUnsignedIs
    <3>4. QED
      BY <3>2, <3>3 DEF Param, SignedRight
  <2>3. PICK e \in State : /\ Become(h, e) /\ e.s3 = "no" /\ e.params \in Seq(SignedRight)
                           /\ s.pc \in Stage /\ Went(s, e, ToSign(s))
                           /\ UNCHANGED <<shared, s3Client, changes>>
    BY <1>1, <1>8, <2>1, <2>2, GetURLIs
  <2>4. QED
    BY <2>3, WentSigned, BecomeSigned
<1>9. QED
  BY <1>3, <1>4, <1>5, <1>6, <1>7, <1>8, <1>10 DEF Step

LEMMA InitSigned == Init => SignInv
<1>1. Idle.params \in Seq(SignedRight) /\ Idle.pc = "idle" /\ Idle.answer = "none" /\ Idle.s3 = "no"
  BY DEF Idle
<1>2. QED
  BY <1>1 DEF Init, SignInv, OwnSigned

LEMMA NextSigned ==
  ASSUME Undisturbed, ~ClientFails PROVE TypeOK /\ SignInv /\ [Next]_vars => SignInv'
<1>1. ASSUME TypeOK, SignInv, NEW h \in Handler, NEW r \in Request, Ask(h, r) PROVE SignInv'
  <2>1. PICK e \in State : /\ Become(h, e) /\ e.s3 = "no" /\ e.params = <<>>
                           /\ e.pc \in {"idle", "state", "build"} /\ e.answer \in {"none", "chain"}
                           /\ UNCHANGED <<shared, s3Client, faults, changes>>
    BY <1>1, AskIs
  <2>2. <<>> \in Seq(SignedRight)
    OBVIOUS
  <2>3. OwnSigned(e)
    BY <2>1, <2>2 DEF OwnSigned
  <2>4. QED
    BY <1>1, <2>1, <2>3, BecomeSigned
<1>2. ASSUME SignInv, UNCHANGED <<s3Client, st>> PROVE SignInv'
  <2>1. \A h \in Handler : ToSign(st[h])' = ToSign(st[h])
    BY <1>2 DEF ToSign, Unsigned, FirstUnsigned
  <2>2. \A h \in Handler : OwnSigned(st[h])'
    BY <1>2 DEF SignInv, OwnSigned
  <2>3. QED
    BY <1>2, <2>1, <2>2 DEF SignInv
<1>3. QED
  BY <1>1, <1>2, StepSigned DEF Next, Change, vars

LEMMA SignedServed == SignInv => SignedWhereNamed
<1>1. ASSUME SignInv, NEW h \in Handler
      PROVE  \A i \in DOMAIN st[h].params :
               st[h].params[i].name = "root" => st[h].params[i].signed \in {None, st[h].params[i].val}
  <2>1. \A i \in DOMAIN st[h].params : st[h].params[i] \in SignedRight
    BY <1>1 DEF SignInv, OwnSigned
  <2>2. QED
    BY <2>1 DEF SignedRight
<1>2. QED
  BY <1>1 DEF SignInv, OwnSigned, SignedWhereNamed

(* A handler whose S3 client no other sets to another bucket serves roots, *)
(* kernel and initrd signed in the buckets that the configuration names,   *)
(* whatever buckets it went through before, and what fails.                *)
THEOREM SignedRightly ==
  ASSUME Undisturbed, ~ClientFails PROVE Spec => []SignedWhereNamed
BY InitTyped, NextTyped, InitSigned, NextSigned, SignedServed, PTL DEF Spec

-----------------------------------------------------------------------------
(* What is served.  Up to the cut of the initrd, the parameters are those  *)
(* of the configuration in their places, and then those that BSS adds.     *)
Specials == {"xname", "nid", "bss_referral_token", "BOOTIF", "ds"}
Due(s) == {name \in Given(s) : ~paramExists(s.bd.params, name)}

Grown(s, p, names) ==
  LET n == Len(s.bd.params) IN
  /\ p \in Seq(Param) /\ n <= Len(p)
  /\ \A i \in 1 .. n : /\ p[i].name = s.bd.params[i].name
                       /\ p[i].val \in {s.bd.params[i].val, Meant(s.bd.params[i])}
  /\ \A i \in 1 .. Len(p) : i > n => p[i].val = "added" /\ p[i].name \in names \intersect Due(s)
  /\ \A name \in names \intersect Due(s) : \E i \in 1 .. Len(p) : i > n /\ p[i].name = name
  /\ \A i, j \in 1 .. Len(p) : i > n /\ j > n /\ p[i].name = p[j].name => i = j

LEMMA ConfiguredParams ==
  ASSUME NEW b \in Bd
  PROVE  /\ b.params \in Seq(Param) /\ Len(b.params) \in Nat /\ DOMAIN b.params = 1 .. Len(b.params)
         /\ \A i \in 1 .. Len(b.params) : b.params[i].val \notin {"added", "cut"}
<1>1. b.params \in Seq(Stored)
  <2>1. NoBoot.params = <<>> /\ <<>> \in Seq(Stored)
    BY DEF NoBoot
  <2>2. \A c \in Config : c.params \in Seq(Stored)
    BY ScriptAssumption DEF Stored
  <2>3. QED
    BY <2>1, <2>2 DEF Bd
<1>2. Stored \subseteq Param /\ \A p \in Stored : p.val \notin {"added", "cut"}
  BY ScriptAssumption DEF Stored
<1>3. QED
  BY <1>1, <1>2

LEMMA GivenIs ==
  ASSUME NEW s PROVE Given(s) \subseteq Specials /\ Due(s) \subseteq Specials /\ "initrd" \notin Due(s)
<1>1. Given(s) \subseteq Specials
  BY DEF Given, Specials
<1>2. QED
  BY <1>1 DEF Due, Specials

LEMMA AddOne ==
  ASSUME NEW s \in State, NEW p, NEW names \in SUBSET Specials, Grown(s, p, names),
         NEW name \in Specials \ names
  PROVE  Grown(s, p \o checkParam(s, name), names \union {name})
<1> DEFINE n == Len(s.bd.params)
<1>1. n \in Nat /\ p \in Seq(Param) /\ Len(p) \in Nat
  BY ConfiguredParams DEF State, Grown
<1>2. CASE name \in Due(s)
  <2> DEFINE q == Append(p, Added(name))
  <2>1. Added(name) \in Param /\ Added(name).name = name /\ Added(name).val = "added"
    BY AddedUnwritten DEF Specials, Added, Unwritten
  <2>2. checkParam(s, name) = <<Added(name)>>
    BY <1>2 DEF checkParam, Due
  <2>3. p \o checkParam(s, name) = q
    BY <1>1, <2>1, <2>2
  <2>4. /\ q \in Seq(Param) /\ Len(q) = Len(p) + 1 /\ q[Len(p) + 1] = Added(name)
        /\ \A i \in 1 .. Len(p) : q[i] = p[i]
    BY <1>1, <2>1
  <2> HIDE DEF q
  <2>5. /\ q[Len(p) + 1].name = name /\ q[Len(p) + 1].val = "added"
        /\ \A i \in 1 .. Len(p) : i > n => q[i].name # name
    BY <2>1, <2>4 DEF Grown
  <2>6. \A i \in 1 .. Len(q) : i > n => q[i].val = "added" /\ q[i].name \in (names \union {name}) \intersect Due(s)
    BY <1>1, <1>2, <2>4, <2>5 DEF Grown
  <2>7. \A x \in (names \union {name}) \intersect Due(s) : \E i \in 1 .. Len(q) : i > n /\ q[i].name = x
    <3>1. \A x \in names \intersect Due(s) : \E i \in 1 .. Len(q) : i > n /\ q[i].name = x
      BY <1>1, <2>4 DEF Grown
    <3>2. Len(p) + 1 \in 1 .. Len(q) /\ Len(p) + 1 > n
      BY <1>1, <2>4 DEF Grown
    <3>3. QED
      BY <2>5, <3>1, <3>2
  <2>8. \A i, j \in 1 .. Len(q) : i > n /\ j > n /\ q[i].name = q[j].name => i = j
    BY <1>1, <2>4, <2>5 DEF Grown
  <2>9. QED
    BY <1>1, <2>3, <2>4, <2>6, <2>7, <2>8 DEF Grown
<1>3. CASE name \notin Due(s)
  <2>1. checkParam(s, name) = <<>>
    BY <1>3 DEF checkParam, Due
  <2>2. p \o checkParam(s, name) = p
    BY <1>1, <2>1
  <2>3. (names \union {name}) \intersect Due(s) = names \intersect Due(s)
    BY <1>3
  <2>4. QED
    BY <2>2, <2>3 DEF Grown
<1>4. QED
  BY <1>2, <1>3

LEMMA AddSpecialGrown ==
  ASSUME NEW s \in State PROVE Grown(s, AddSpecial(s), Specials)
<1> DEFINE p0 == s.bd.params
           p1 == p0 \o checkParam(s, "xname")
           p2 == p1 \o checkParam(s, "nid")
           p3 == p2 \o checkParam(s, "bss_referral_token")
           p4 == p3 \o checkParam(s, "BOOTIF")
<1>1. Grown(s, p0, {})
  BY ConfiguredParams DEF State, Grown
<1> HIDE DEF p0
<1>2. Grown(s, p1, {"xname"})
  <2>1. Grown(s, p1, {} \union {"xname"})
    BY <1>1, AddOne DEF Specials
  <2>2. QED
    BY <2>1
<1> HIDE DEF p1
<1>3. Grown(s, p2, {"xname", "nid"})
  <2>1. Grown(s, p2, {"xname"} \union {"nid"})
    BY <1>2, AddOne DEF Specials
  <2>2. {"xname"} \union {"nid"} = {"xname", "nid"}
    OBVIOUS
  <2>3. QED
    BY <2>1, <2>2
<1> HIDE DEF p2
<1>4. Grown(s, p3, {"xname", "nid", "bss_referral_token"})
  <2>1. Grown(s, p3, {"xname", "nid"} \union {"bss_referral_token"})
    BY <1>3, AddOne DEF Specials
  <2>2. {"xname", "nid"} \union {"bss_referral_token"} = {"xname", "nid", "bss_referral_token"}
    OBVIOUS
  <2>3. QED
    BY <2>1, <2>2
<1> HIDE DEF p3
<1>5. Grown(s, p4, {"xname", "nid", "bss_referral_token", "BOOTIF"})
  <2>1. Grown(s, p4, {"xname", "nid", "bss_referral_token"} \union {"BOOTIF"})
    BY <1>4, AddOne DEF Specials
  <2>2. {"xname", "nid", "bss_referral_token"} \union {"BOOTIF"} =
          {"xname", "nid", "bss_referral_token", "BOOTIF"}
    OBVIOUS
  <2>3. QED
    BY <2>1, <2>2
<1> HIDE DEF p4
<1>6. Grown(s, p4 \o checkParam(s, "ds"), Specials)
  <2>1. Grown(s, p4 \o checkParam(s, "ds"), {"xname", "nid", "bss_referral_token", "BOOTIF"} \union {"ds"})
    BY <1>5, AddOne DEF Specials
  <2>2. {"xname", "nid", "bss_referral_token", "BOOTIF"} \union {"ds"} = Specials
    BY DEF Specials
  <2>3. QED
    BY <2>1, <2>2
<1>7. AddSpecial(s) = p4 \o checkParam(s, "ds")
  BY DEF AddSpecial, p4, p3, p2, p1, p0
<1>8. QED
  BY <1>6, <1>7

(* Later stages change no parameter's name, and no value but for the one   *)
(* that is meant.                                                          *)
LEMMA GrownKept ==
  ASSUME NEW s, NEW p, Grown(s, p, Specials), NEW q \in Seq(Param), Len(q) = Len(p),
         \A i \in 1 .. Len(p) : q[i].name = p[i].name /\ q[i].val \in {p[i].val, Meant(p[i])}
  PROVE  Grown(s, q, Specials)
<1> DEFINE B == s.bd.params
           n == Len(B)
<1>1. \A i \in 1 .. n : i \in 1 .. Len(p) => q[i].name = B[i].name /\ q[i].val \in {B[i].val, Meant(B[i])}
  BY DEF Grown, Meant
<1>2. \A i \in 1 .. Len(p) : i > n => q[i].val = p[i].val
  BY DEF Grown, Meant, Specials
<1>3. QED
  BY <1>1, <1>2 DEF Grown

Tokened(p) == \A i \in DOMAIN p : p[i].name = "spire" => p[i].val = "token"

LEMMA GrownIs ==
  ASSUME NEW s \in State, NEW p, Grown(s, p, Specials)
  PROVE  LET B == s.bd.params
             n == Len(B)
         IN  /\ n \in Nat /\ Len(p) \in Nat /\ n <= Len(p) /\ p \in Seq(Param)
             /\ DOMAIN B = 1 .. n /\ DOMAIN p = 1 .. Len(p)
             /\ KeptAt(B) = {i \in 1 .. n : B[i].name # "initrd"}
             /\ \A i \in 1 .. n : /\ p[i].name = B[i].name /\ p[i].val \notin {"added", "cut"}
                                  /\ Tokened(p) => p[i].val = Meant(B[i])
             /\ \A i \in 1 .. Len(p) : i > n => /\ p[i].val = "added" /\ p[i].name \in Due(s)
                                                /\ p[i].name \in Specials
             /\ \A name \in Due(s) : \E i \in 1 .. Len(p) : i > n /\ p[i].name = name
             /\ \A i, j \in 1 .. Len(p) : i > n /\ j > n /\ p[i].name = p[j].name => i = j
<1> DEFINE B == s.bd.params
           n == Len(B)
<1>1. /\ n \in Nat /\ DOMAIN B = 1 .. n /\ \A i \in 1 .. n : B[i].val \notin {"added", "cut"}
  BY ConfiguredParams DEF State
<1>2. KeptAt(B) = {i \in 1 .. n : B[i].name # "initrd"}
  BY <1>1 DEF KeptAt
<1>3. p \in Seq(Param) /\ Len(p) \in Nat /\ DOMAIN p = 1 .. Len(p) /\ n <= Len(p)
  BY DEF Grown
<1>4. \A name \in Due(s) : name \in Specials
  BY GivenIs
<1>5. \A i \in 1 .. n : p[i].name = B[i].name /\ p[i].val \in {B[i].val, Meant(B[i])}
  BY DEF Grown
<1>6. \A i \in 1 .. n : p[i].val \notin {"added", "cut"}
  BY <1>1, <1>5 DEF Meant
<1>7. \A i \in 1 .. n : Tokened(p) => p[i].val = Meant(B[i])
  <2>1. \A i \in 1 .. n : i \in DOMAIN p
    BY <1>1, <1>3
  <2>2. QED
    BY <1>5, <2>1 DEF Tokened, Meant
<1>8. QED
  BY <1>1, <1>2, <1>3, <1>4, <1>5, <1>6, <1>7 DEF Grown

(* Each use of the variable means the token.                               *)
LEMMA SubstituteGrown ==
  ASSUME NEW s \in State, NEW p, Grown(s, p, Specials)
  PROVE  Grown(s, Substitute(p), Specials) /\ Tokened(Substitute(p))
<1> DEFINE q == Substitute(p)
<1>1. p \in Seq(Param) /\ q \in Seq(Param)
  BY SubstituteIn, ParamsClosed DEF Grown
<1>2. /\ DOMAIN p = 1 .. Len(p) /\ DOMAIN q = DOMAIN p /\ Len(p) \in Nat /\ Len(q) \in Nat
      /\ DOMAIN q = 1 .. Len(q)
  BY <1>1 DEF Substitute
<1>3. \A i \in 1 .. Len(p) :
        q[i] = IF p[i].name = "spire" THEN [p[i] EXCEPT !.val = "token"] ELSE p[i]
  BY <1>2 DEF Substitute
<1>4. \A i \in 1 .. Len(p) : p[i] \in Param
  BY <1>1
<1>5. \A i \in 1 .. Len(p) : q[i].name = p[i].name /\ (p[i].name = "spire" => q[i].val = "token")
  BY <1>3, <1>4 DEF Param
<1>7. \A i \in 1 .. Len(p) : q[i].val \in {p[i].val, Meant(p[i])}
  BY <1>3, <1>5 DEF Meant
<1>8. Len(q) = Len(p)
  BY <1>2
<1> HIDE DEF q
<1>9. Grown(s, q, Specials)
  BY <1>1, <1>5, <1>7, <1>8, GrownKept
<1>10. QED
  BY <1>2, <1>5, <1>9 DEF q, Tokened

LEMMA SignGrown ==
  ASSUME NEW s \in State, NEW p, Grown(s, p, Specials), Tokened(p),
         NEW i \in 1 .. Len(p), NEW u \in Bucket \union {Empty}
  PROVE  LET q == [p EXCEPT ![i].signed = u] IN Grown(s, q, Specials) /\ Tokened(q)
<1> DEFINE q == [p EXCEPT ![i].signed = u]
<1>1. p \in Seq(Param) /\ DOMAIN p = 1 .. Len(p)
  BY GrownIs
<1>2. [p[i] EXCEPT !.signed = u] \in Param /\ p[i] \in Param
  BY <1>1 DEF Param
<1>3. q \in Seq(Param) /\ Len(q) = Len(p) /\ DOMAIN q = 1 .. Len(p)
  BY <1>1, <1>2, ExceptSeq
<1>4. \A j \in 1 .. Len(p) : q[j].name = p[j].name /\ q[j].val = p[j].val
  BY <1>1, <1>2 DEF Param
<1> HIDE DEF q
<1>5. Grown(s, q, Specials)
  BY <1>3, <1>4, GrownKept
<1>6. QED
  BY <1>1, <1>3, <1>4, <1>5 DEF q, Tokened

(* A configuration without an initrd of its own is served as it is.        *)
LEMMA PlainAsConfigured ==
  ASSUME NEW s \in State, Grown(s, s.params, Specials), Tokened(s.params), s.bd.initrd = None
  PROVE  AsConfigured(s)
<1> DEFINE B == s.bd.params
           n == Len(B)
           p == s.params
           added == {i \in DOMAIN p : p[i].val = "added"}
           f == [i \in KeptAt(p) |-> i]
<1>1. /\ n \in Nat /\ Len(p) \in Nat /\ n <= Len(p)
      /\ DOMAIN B = 1 .. n /\ DOMAIN p = 1 .. Len(p)
      /\ KeptAt(B) = {i \in 1 .. n : B[i].name # "initrd"}
      /\ \A i \in 1 .. n : p[i].name = B[i].name /\ p[i].val # "added" /\ p[i].val = Meant(B[i])
      /\ \A i \in 1 .. Len(p) : i > n => p[i].val = "added" /\ p[i].name \in Due(s)
      /\ \A name \in Due(s) : \E i \in 1 .. Len(p) : i > n /\ p[i].name = name
      /\ \A i, j \in 1 .. Len(p) : i > n /\ j > n /\ p[i].name = p[j].name => i = j
  BY GrownIs
<1> HIDE DEF p, B, n
<1>2. KeptAt(p) = KeptAt(B)
  BY <1>1 DEF KeptAt
<1>3. InOrder(p, s.bd)
  <2>1. f \in [KeptAt(p) -> KeptAt(B)] /\ Range(f) = KeptAt(B)
    BY <1>2 DEF Range
  <2>2. \A i \in KeptAt(p) : p[i].name = B[i].name /\ p[i].val = Meant(B[i])
    BY <1>1, <1>2
  <2>3. \A i, j \in KeptAt(p) : ServedAs(p[i], s.bd, f[i]) /\ (i < j => f[i] < f[j])
    BY <2>2 DEF ServedAs, CutShort, B
  <2>4. QED
    BY <2>1, <2>3 DEF InOrder, B
<1>4. added = {i \in 1 .. Len(p) : i > n}
  BY <1>1
<1>5. {p[i].name : i \in added} = Due(s)
  BY <1>1, <1>4
<1>6. \A i, j \in added : p[i].name = p[j].name => i = j
  BY <1>1, <1>4
<1>7. Due(s) = ToAdd(s)
  BY DEF Due, ToAdd
<1>8. QED
  BY <1>3, <1>5, <1>6, <1>7 DEF AsConfigured, p

(* Parameters after an initrd that is put before them: which parameter was *)
(* each, when the first that says initrd is cut short, or gone.            *)
Shifted(p, q, g) ==
  /\ Len(q) > 0 /\ q[1] = Added("initrd")
  /\ g \in [2 .. Len(q) -> 1 .. Len(p)]
  /\ \A i, j \in 2 .. Len(q) : i < j => g[i] < g[j]
  /\ \A i \in 2 .. Len(q) : /\ q[i].name = p[g[i]].name
                           /\ q[i].val = IF g[i] = InitrdAt(p) THEN "cut" ELSE p[g[i]].val
  /\ \A j \in 1 .. Len(p) : p[j].name = "initrd" \/ \E i \in 2 .. Len(q) : g[i] = j

(* It is the first of the configuration's that says initrd.                *)
LEMMA CutIs ==
  ASSUME NEW s \in State, NEW p, Grown(s, p, Specials), s.bd.initrd # None
  PROVE  LET B == s.bd.params IN
         /\ \A i \in DOMAIN B : B[i].name # "initrd" => (InitrdAt(p) = i <=> CutShort(s.bd, i))
         /\ \A i \in 1 .. Len(p) : i > Len(B) => i # InitrdAt(p)
<1> DEFINE B == s.bd.params
           n == Len(B)
           at == InitrdAt(p)
<1>1. /\ n \in Nat /\ Len(p) \in Nat /\ n <= Len(p) /\ p \in Seq(Param) /\ DOMAIN B = 1 .. n
      /\ \A i \in 1 .. n : p[i].name = B[i].name /\ p[i].val # "cut"
      /\ \A i \in 1 .. Len(p) : i > n => p[i].name \in Specials
  BY GrownIs
<1>2. /\ at = 0 \/ (at \in 1 .. Len(p) /\ SaysInitrd(p[at]))
      /\ \A i \in 1 .. Len(p) : SaysInitrd(p[i]) => at # 0 /\ at <= i
  BY <1>1, InitrdAtIs
<1> HIDE DEF n, at
<1>3. \A i \in 1 .. n : SaysInitrd(p[i]) <=> B[i].name \in {"initrd", "mentions"}
  BY <1>1 DEF SaysInitrd
<1>4. \A i \in 1 .. Len(p) : i > n => ~SaysInitrd(p[i])
  BY <1>1 DEF SaysInitrd, Specials
<1>5. ASSUME NEW i \in 1 .. n, B[i].name # "initrd" PROVE at = i <=> CutShort(s.bd, i)
  <2>1. CASE at = i
    <3>1. B[i].name = "mentions"
      BY <1>1, <1>2, <1>3, <1>5, <2>1
    <3>2. \A j \in 1 .. i - 1 : j \in 1 .. n /\ j \in 1 .. Len(p) /\ ~(at <= j)
      BY <1>1, <2>1
    <3>3. \A j \in 1 .. i - 1 : B[j].name \notin {"initrd", "mentions"}
      BY <1>2, <1>3, <3>2
    <3>4. QED
      BY <2>1, <3>1, <3>3 DEF CutShort
  <2>2. CASE CutShort(s.bd, i)
    <3>1. /\ B[i].name = "mentions" /\ i \in 1 .. Len(p)
          /\ \A j \in 1 .. i - 1 : B[j].name \notin {"initrd", "mentions"}
      BY <1>1, <2>2 DEF CutShort
    <3>2. at \in 1 .. Len(p) /\ at <= i /\ SaysInitrd(p[at])
      BY <1>2, <1>3, <3>1
    <3>3. at \in 1 .. n /\ (at # i => at \in 1 .. i - 1)
      BY <1>1, <3>2
    <3>4. QED
      BY <1>3, <2>2, <3>1, <3>2, <3>3
  <2>3. QED
    BY <2>1, <2>2
<1>6. QED
  BY <1>1, <1>2, <1>4, <1>5 DEF n, at

(* One that has an initrd is served it before parameters that are those of *)
(* before the cut, but perhaps for one that was an initrd itself.          *)
LEMMA CutAsConfigured ==
  ASSUME NEW s \in State, NEW p, Grown(s, p, Specials), Tokened(p), s.bd.initrd # None,
         NEW g, Shifted(p, s.params, g)
  PROVE  AsConfigured(s)
<1> DEFINE B == s.bd.params
           n == Len(B)
           q == s.params
           added == {i \in DOMAIN q : q[i].val = "added"}
           f == [i \in KeptAt(q) |-> g[i]]
<1>1. /\ n \in Nat /\ Len(p) \in Nat /\ n <= Len(p)
      /\ DOMAIN B = 1 .. n /\ DOMAIN p = 1 .. Len(p)
      /\ KeptAt(B) = {i \in 1 .. n : B[i].name # "initrd"}
      /\ \A i \in 1 .. n : p[i].name = B[i].name /\ p[i].val # "added" /\ p[i].val = Meant(B[i])
      /\ \A i \in 1 .. Len(p) : i > n => /\ p[i].val = "added" /\ p[i].name \in Due(s)
                                         /\ p[i].name \in Specials
      /\ \A name \in Due(s) : \E i \in 1 .. Len(p) : i > n /\ p[i].name = name
      /\ \A i, j \in 1 .. Len(p) : i > n /\ j > n /\ p[i].name = p[j].name => i = j
  BY GrownIs
<1>2. q \in Seq(Param) /\ DOMAIN q = 1 .. Len(q) /\ Len(q) \in Nat
  BY DEF State
<1>3. /\ Len(q) > 0 /\ q[1].name = "initrd" /\ q[1].val = "added" /\ q[1] = Added("initrd")
      /\ g \in [2 .. Len(q) -> 1 .. Len(p)]
      /\ \A i, j \in 2 .. Len(q) : i < j => g[i] < g[j]
      /\ \A i \in 2 .. Len(q) : /\ q[i].name = p[g[i]].name
                               /\ q[i].val = IF g[i] = InitrdAt(p) THEN "cut" ELSE p[g[i]].val
      /\ \A j \in 1 .. Len(p) : p[j].name = "initrd" \/ \E i \in 2 .. Len(q) : g[i] = j
      /\ s.bd.initrd # None
  BY DEF Added, Shifted
<1>14. /\ \A i \in 1 .. n : B[i].name # "initrd" => (InitrdAt(p) = i <=> CutShort(s.bd, i))
       /\ \A i \in 1 .. Len(p) : i > n => i # InitrdAt(p)
  BY <1>1, CutIs
<1> HIDE DEF q, B, n
<1>4. \A i \in 2 .. Len(q) : q[i].val = "added" <=> g[i] > n
  <2>1. \A j \in 1 .. Len(p) : p[j].val = "added" <=> j > n
    BY <1>1
  <2>2. QED
    BY <1>1, <1>3, <1>14, <2>1
<1>5. KeptAt(q) = {i \in 2 .. Len(q) : g[i] <= n /\ q[i].name # "initrd"}
  BY <1>1, <1>2, <1>3, <1>4 DEF KeptAt
<1>6. \A i \in KeptAt(q) : g[i] \in KeptAt(B) /\ ServedAs(q[i], s.bd, g[i])
  <2>1. ASSUME NEW i \in KeptAt(q)
        PROVE  g[i] \in 1 .. n /\ q[i].name = B[g[i]].name /\ B[g[i]].name # "initrd"
    BY <1>1, <1>3, <1>5
  <2>2. ASSUME NEW i \in KeptAt(q)
        PROVE  q[i].val = IF CutShort(s.bd, g[i]) THEN "cut" ELSE Meant(B[g[i]])
    <3>1. q[i].val = IF g[i] = InitrdAt(p) THEN "cut" ELSE p[g[i]].val
      BY <1>3, <1>5
    <3>2. QED
      BY <1>1, <1>14, <2>1, <3>1
  <2>3. QED
    BY <1>1, <2>1, <2>2 DEF ServedAs, B
<1>7. InOrder(q, s.bd)
  <2>1. f \in [KeptAt(q) -> KeptAt(B)]
    BY <1>6
  <2>2. Range(f) = KeptAt(B)
    <3>1. ASSUME NEW j \in KeptAt(B) PROVE \E i \in KeptAt(q) : g[i] = j
      <4>1. j \in 1 .. n /\ j \in 1 .. Len(p) /\ p[j].name # "initrd"
        BY <1>1
      <4>2. PICK i \in 2 .. Len(q) : g[i] = j
        BY <1>3, <4>1
      <4>3. QED
        BY <1>3, <1>5, <4>1, <4>2
    <3>2. QED
      BY <2>1, <3>1 DEF Range
  <2>3. \A i, j \in KeptAt(q) : ServedAs(q[i], s.bd, f[i]) /\ (i < j => f[i] < f[j])
    BY <1>3, <1>5, <1>6
  <2>4. QED
    BY <2>1, <2>2, <2>3 DEF InOrder, B
<1>8. added = {1} \union {i \in 2 .. Len(q) : g[i] > n}
  BY <1>2, <1>3, <1>4
<1>9. \A i \in 2 .. Len(q) : g[i] > n => q[i].name \in Due(s) /\ q[i].name # "initrd"
  <2>1. ASSUME NEW i \in 2 .. Len(q), g[i] > n PROVE q[i].name \in Due(s)
    <3>1. g[i] \in 1 .. Len(p) /\ q[i].name = p[g[i]].name
      BY <1>3
    <3>2. QED
      BY <1>1, <2>1, <3>1
  <2>2. QED
    BY <2>1, GivenIs
<1>10. {q[i].name : i \in added} = Due(s) \union {"initrd"}
  <2>1. ASSUME NEW name \in Due(s) PROVE \E i \in added : q[i].name = name
    <3>1. PICK j \in 1 .. Len(p) : j > n /\ p[j].name = name
      BY <1>1
    <3>2. p[j].name # "initrd"
      BY <1>1, <3>1 DEF Specials
    <3>3. PICK i \in 2 .. Len(q) : g[i] = j
      BY <1>3, <3>1, <3>2
    <3>4. i \in added /\ q[i].name = name
      BY <1>3, <1>8, <3>1, <3>3
    <3>5. QED
      BY <3>4
  <2>2. QED
    BY <1>3, <1>8, <1>9, <2>1
<1>11. \A i, j \in added : q[i].name = q[j].name => i = j
  <2>1. ASSUME NEW i \in 2 .. Len(q), NEW j \in 2 .. Len(q), g[i] > n, g[j] > n, q[i].name = q[j].name
        PROVE  i = j
    <3>1. g[i] = g[j]
      BY <1>1, <1>3, <2>1
    <3>2. QED
      BY <1>3, <3>1
  <2>2. QED
    BY <1>3, <1>8, <1>9, <2>1
<1>12. Due(s) \union {"initrd"} = ToAdd(s)
  BY <1>3 DEF Due, ToAdd
<1>13. QED
  BY <1>3, <1>7, <1>10, <1>11, <1>12 DEF AsConfigured, q

(* What tells what is to be served, beside the parameters.                 *)
SameAsked(s, e) ==
  /\ e.bd = s.bd /\ e.what = s.what /\ e.comp = s.comp /\ e.own = s.own /\ e.req = s.req

LEMMA SameServed ==
  ASSUME NEW s, NEW e, SameAsked(s, e)
  PROVE  /\ Due(e) = Due(s) /\ \A p : Grown(s, p, Specials) => Grown(e, p, Specials)
         /\ e.params = s.params /\ AsConfigured(s) => AsConfigured(e)
<1>1. Given(e) = Given(s)
  BY DEF SameAsked, Given
<1>2. Due(e) = Due(s) /\ ToAdd(e) = ToAdd(s) /\ e.bd = s.bd
  BY <1>1 DEF SameAsked, Due, ToAdd
<1>3. QED
  BY <1>2 DEF Grown, AsConfigured

LEMMA CutServed ==
  ASSUME NEW s \in State, Grown(s, s.params, Specials), Tokened(s.params),
         NEW e \in State, SameAsked(s, e), e.params = CutInitrd(s)
  PROVE  AsConfigured(e)
<1> DEFINE p == s.params
           q == e.params
           at == InitrdAt(p)
<1>1. Grown(e, p, Specials) /\ e.bd = s.bd
  BY SameServed DEF SameAsked
<1>2. CASE s.bd.initrd = None
  BY <1>1, <1>2, PlainAsConfigured DEF CutInitrd
<1>3. CASE s.bd.initrd # None
  <2> DEFINE cut == CASE at = 0 -> p
                      [] at # 0 /\ p[at].name = "initrd" -> RemoveAt(p, at)
                      [] OTHER -> [p EXCEPT ![at].val = "cut"]
  <2>1. /\ p \in Seq(Param) /\ Len(p) \in Nat /\ DOMAIN p = 1 .. Len(p)
        /\ \A i \in 1 .. Len(p) : p[i] \in Param /\ (p[i].val = "added" => p[i].name \in Specials)
    BY GrownIs DEF State
  <2>2. at = 0 \/ (at \in 1 .. Len(p) /\ SaysInitrd(p[at]))
    BY <2>1, InitrdAtIs
  <2>3. q = <<Added("initrd")>> \o cut
    BY <1>3 DEF CutInitrd
  <2>8. q \in Seq(Param) /\ Tokened(p)
    BY DEF State
  <2> HIDE DEF at, q, p
  <2>4. ASSUME NEW c \in Seq(Param), q = <<Added("initrd")>> \o c
        PROVE  /\ Len(q) = Len(c) + 1 /\ Len(c) \in Nat /\ q[1] = Added("initrd")
               /\ \A i \in 2 .. Len(q) : q[i] = c[i - 1]
    <3>1. <<Added("initrd")>> \in Seq(Param)
      BY AddedUnwritten DEF Unwritten
    <3>2. QED
      BY <2>4, <3>1
  <2>5. CASE at = 0 \/ (at # 0 /\ p[at].name # "initrd")
    <3> DEFINE c == IF at = 0 THEN p ELSE [p EXCEPT ![at].val = "cut"]
               g == [i \in 2 .. Len(q) |-> i - 1]
    <3>1. /\ c \in Seq(Param) /\ Len(c) = Len(p)
          /\ \A i \in 1 .. Len(p) :
               c[i].name = p[i].name /\ c[i].val = IF i = at THEN "cut" ELSE p[i].val
      <4>1. CASE at = 0
        BY <2>1, <4>1
      <4>2. CASE at # 0
        <5>1. at \in 1 .. Len(p) /\ p[at].name = "mentions" /\ p[at].val # "added"
          BY <2>1, <2>2, <2>5, <4>2 DEF SaysInitrd, Specials
        <5>2. [p[at] EXCEPT !.val = "cut"] \in Param
          BY <2>1, <5>1 DEF Param
        <5>3. c \in Seq(Param) /\ Len(c) = Len(p) /\ DOMAIN c = 1 .. Len(p)
          BY <2>1, <4>2, <5>1, <5>2, ExceptSeq
        <5>4. \A i \in 1 .. Len(p) :
                c[i] = IF i = at THEN [p[at] EXCEPT !.val = "cut"] ELSE p[i]
          BY <2>1, <4>2
        <5>5. /\ [p[at] EXCEPT !.val = "cut"].name = "mentions"
              /\ [p[at] EXCEPT !.val = "cut"].val = "cut"
          BY <2>1, <5>1 DEF Param
        <5> HIDE DEF c
        <5>6. QED
          BY <5>1, <5>3, <5>4, <5>5
      <4>3. QED
        BY <4>1, <4>2
    <3>2. c = cut
      BY <2>5
    <3> HIDE DEF c, cut
    <3>3. /\ Len(q) = Len(p) + 1 /\ q[1] = Added("initrd") /\ \A i \in 2 .. Len(q) : q[i] = c[i - 1]
      BY <2>3, <2>4, <3>1, <3>2
    <3>4. g \in [2 .. Len(q) -> 1 .. Len(p)] /\ \A i \in 2 .. Len(q) : g[i] = i - 1
      BY <2>1, <3>3
    <3>5. \A j \in 1 .. Len(p) : \E i \in 2 .. Len(q) : g[i] = j
      <4>1. \A j \in 1 .. Len(p) : j + 1 \in 2 .. Len(q) /\ g[j + 1] = j
        BY <2>1, <3>3
      <4>2. QED
        BY <4>1
    <3> HIDE DEF g
    <3>6. \A i \in 2 .. Len(q) : /\ q[i].name = p[g[i]].name
                                 /\ q[i].val = IF g[i] = at THEN "cut" ELSE p[g[i]].val
      BY <3>1, <3>3, <3>4
    <3>7. \A i, j \in 2 .. Len(q) : i < j => g[i] < g[j]
      BY <3>4
    <3>8. Len(q) > 0
      BY <2>1, <3>3
    <3>9. Shifted(p, q, g)
      BY <3>3, <3>4, <3>5, <3>6, <3>7, <3>8 DEF Shifted, at
    <3>10. QED
      BY <1>1, <1>3, <2>8, <3>9, CutAsConfigured DEF q
  <2>6. CASE at # 0 /\ p[at].name = "initrd"
    <3> DEFINE c == RemoveAt(p, at)
               g == [i \in 2 .. Len(q) |-> IF i - 1 < at THEN i - 1 ELSE i]
    <3>1. at \in 1 .. Len(p)
      BY <2>2, <2>6
    <3>2. c \in Seq(Param) /\ Len(c) = Len(p) - 1
          /\ \A i \in 1 .. Len(p) - 1 : c[i] = IF i < at THEN p[i] ELSE p[i + 1]
      <4>1. /\ SubSeq(p, 1, at - 1) \in Seq(Param) /\ Len(SubSeq(p, 1, at - 1)) = at - 1
            /\ \A i \in 1 .. at - 1 : SubSeq(p, 1, at - 1)[i] = p[i]
        BY <2>1, <3>1
      <4>2. /\ SubSeq(p, at + 1, Len(p)) \in Seq(Param) /\ Len(SubSeq(p, at + 1, Len(p))) = Len(p) - at
            /\ \A i \in 1 .. Len(p) - at : SubSeq(p, at + 1, Len(p))[i] = p[at + i]
        <5> DEFINE m == at + 1
                   k == Len(p)
        <5>1. m \in Int /\ k \in Int /\ \A i \in m .. k : p[i] \in Param
          BY <2>1, <3>1
        <5>2. /\ k - m + 1 = k - at /\ (m <= k => k - m + 1 = k - at) /\ (~(m <= k) => k - at = 0)
              /\ \A i \in 1 .. k - at : m + i - 1 = at + i
          <6>1. at \in Nat /\ k \in Nat /\ at <= k
            BY <2>1, <3>1
          <6>2. QED
            BY <6>1
        <5> HIDE DEF m, k
        <5>3. /\ SubSeq(p, m, k) \in Seq(Param) /\ Len(SubSeq(p, m, k)) = IF m <= k THEN k - m + 1 ELSE 0
              /\ \A i \in 1 .. k - m + 1 : SubSeq(p, m, k)[i] = p[m + i - 1]
          BY <5>1, SubSeqProperties
        <5>4. QED
          BY <5>2, <5>3 DEF m, k
      <4>3. c = SubSeq(p, 1, at - 1) \o SubSeq(p, at + 1, Len(p))
        BY DEF RemoveAt
      <4>4. ASSUME NEW a \in Seq(Param), NEW b \in Seq(Param), Len(a) = at - 1, Len(b) = Len(p) - at
            PROVE  /\ a \o b \in Seq(Param) /\ Len(a \o b) = Len(p) - 1
                   /\ \A i \in 1 .. Len(p) - 1 : (a \o b)[i] = IF i < at THEN a[i] ELSE b[i - (at - 1)]
        <5>1. /\ a \o b \in Seq(Param) /\ Len(a \o b) = Len(a) + Len(b)
              /\ \A i \in 1 .. Len(a) + Len(b) : (a \o b)[i] = IF i <= Len(a) THEN a[i] ELSE b[i - Len(a)]
          BY ConcatProperties
        <5>2. at \in Nat /\ Len(p) \in Nat /\ Len(a) + Len(b) = Len(p) - 1
          BY <2>1, <3>1, <4>4
        <5>3. \A i \in 1 .. Len(p) - 1 : i <= Len(a) <=> i < at
          BY <4>4, <5>2
        <5>4. QED
          BY <4>4, <5>1, <5>2, <5>3
      <4> DEFINE left == SubSeq(p, 1, at - 1)
                 right == SubSeq(p, at + 1, Len(p))
      <4>5. left \in Seq(Param) /\ right \in Seq(Param) /\ Len(left) = at - 1 /\ Len(right) = Len(p) - at
        BY <4>1, <4>2
      <4>6. \A i \in 1 .. Len(p) - 1 : IF i < at THEN left[i] = p[i] ELSE right[i - (at - 1)] = p[i + 1]
        <5>1. \A i \in 1 .. Len(p) - 1 :
                IF i < at THEN i \in 1 .. at - 1
                ELSE i - (at - 1) \in 1 .. Len(p) - at /\ at + (i - (at - 1)) = i + 1
          BY <2>1, <3>1
        <5>2. QED
          BY <4>1, <4>2, <5>1
      <4>7. c = left \o right
        BY <4>3
      <4> HIDE DEF left, right, c
      <4>8. /\ c \in Seq(Param) /\ Len(c) = Len(p) - 1
            /\ \A i \in 1 .. Len(p) - 1 : c[i] = IF i < at THEN left[i] ELSE right[i - (at - 1)]
        BY <4>4, <4>5, <4>7
      <4>9. QED
        BY <4>6, <4>8
    <3>3. c = cut
      BY <2>6
    <3> HIDE DEF c, cut
    <3>4. /\ Len(q) = Len(p) /\ q[1] = Added("initrd")
          /\ \A i \in 2 .. Len(q) : q[i] = c[i - 1]
      <4>1. q = <<Added("initrd")>> \o c
        BY <2>3, <3>3
      <4>2. Len(q) = Len(c) + 1 /\ q[1] = Added("initrd") /\ \A i \in 2 .. Len(q) : q[i] = c[i - 1]
        BY <2>4, <3>2, <4>1
      <4>3. QED
        BY <2>1, <3>2, <4>2
    <3>5. /\ g \in [2 .. Len(q) -> 1 .. Len(p)]
          /\ \A i \in 2 .. Len(q) : g[i] = IF i - 1 < at THEN i - 1 ELSE i
      BY <2>1, <3>1, <3>4
    <3>6. \A j \in 1 .. Len(p) : p[j].name = "initrd" \/ \E i \in 2 .. Len(q) : g[i] = j
      <4>1. ASSUME NEW j \in 1 .. Len(p), j < at PROVE j + 1 \in 2 .. Len(q) /\ g[j + 1] = j
        BY <2>1, <3>1, <3>4, <4>1
      <4>2. ASSUME NEW j \in 1 .. Len(p), j > at PROVE j \in 2 .. Len(q) /\ g[j] = j
        BY <2>1, <3>1, <3>4, <4>2
      <4>3. \A j \in 1 .. Len(p) : j < at \/ j = at \/ j > at
        BY <2>1, <3>1
      <4>4. QED
        BY <2>6, <4>1, <4>2, <4>3
    <3> HIDE DEF g
    <3>7. \A i \in 2 .. Len(q) : q[i] = p[g[i]]
      BY <2>1, <3>1, <3>2, <3>4, <3>5
    <3>8. \A i, j \in 2 .. Len(q) : i < j => g[i] < g[j]
      BY <2>1, <3>1, <3>5
    <3>9. Len(q) > 0
      BY <2>1, <3>1, <3>4
    <3>10. \A i \in 2 .. Len(q) : g[i] # at
      BY <2>1, <3>1, <3>5
    <3>11. Shifted(p, q, g)
      BY <3>4, <3>5, <3>6, <3>7, <3>8, <3>9, <3>10 DEF Shifted, at
    <3>12. QED
      BY <1>1, <1>3, <2>8, <3>11, CutAsConfigured DEF q
  <2>7. QED
    BY <2>5, <2>6
<1>4. QED
  BY <1>2, <1>3

-----------------------------------------------------------------------------
(* ParamsAsConfigured, stage by stage.                                     *)
Answered(s) == s.answer \in {"script", "json"}

Serving(s) ==
  /\ s.pc \in {"token", "roots"} => Grown(s, s.params, Specials)
  /\ s.pc = "roots" => Tokened(s.params)
  /\ s.pc \in {"kernel", "initrd"} => AsConfigured(s)
  /\ Answered(s) => s.pc = "idle" /\ AsConfigured(s)

LEMMA AnswerServing ==
  ASSUME NEW s \in State, NEW kind, kind \in {"script", "json"} => AsConfigured(s)
  PROVE  Serving(Answer(s, kind))
<1> DEFINE e == Answer(s, kind)
<1>1. SameAsked(s, e) /\ e.params = s.params /\ e.pc = "idle" /\ e.answer = kind
  BY DEF Answer, SameAsked, State
<1> HIDE DEF e
<1>2. QED
  BY <1>1, SameServed DEF Serving, Answered, e

LEMMA FailedServing ==
  ASSUME NEW s \in State, ~Answered(s) PROVE Serving(Failed(s))
<1> DEFINE e == [s EXCEPT !.pc = "state", !.what = "own", !.bd = s.own, !.s3 = "no", !.params = <<>>,
                          !.kernel = None, !.initrd = None]
<1>1. e.pc = "state" /\ e.answer = s.answer
  BY DEF State
<1>2. Failed(s) = e \/ Failed(s) = Answer(s, "error")
  BY DEF Failed
<1> HIDE DEF e
<1>3. Serving(e)
  BY <1>1 DEF Serving, Answered
<1>4. QED
  BY <1>2, <1>3, AnswerServing

LEMMA ParamsBuiltServing ==
  ASSUME NEW s \in State, ~Answered(s), Grown(s, s.params, Specials), Tokened(s.params)
  PROVE  Serving(ParamsBuilt(s))
<1> DEFINE t == [s EXCEPT !.params = CutInitrd(s)]
           e == [t EXCEPT !.pc = "kernel", !.s3 = "no"]
<1>1. CutInitrd(s) \in Seq(Param)
  BY CutInitrdIn, ParamsClosed DEF State
<1>2. t \in State /\ SameAsked(s, t) /\ t.params = CutInitrd(s) /\ t.answer = s.answer
  BY <1>1 DEF State, SameAsked
<1>3. AsConfigured(t)
  BY <1>2, CutServed
<1> HIDE DEF t
<1>4. SameAsked(t, e) /\ e.params = t.params /\ e.pc = "kernel" /\ e.answer = t.answer
  BY <1>2 DEF State, SameAsked
<1>5. ParamsBuilt(s) \in {Answer(s, "panic"), Answer(t, "json"), e}
  BY DEF ParamsBuilt, t, e
<1> HIDE DEF e
<1>6. Serving(e)
  BY <1>2, <1>3, <1>4, SameServed DEF Serving, Answered
<1>7. Serving(Answer(s, "panic")) /\ Serving(Answer(t, "json"))
  BY <1>2, <1>3, AnswerServing
<1>8. QED
  BY <1>5, <1>6, <1>7

LEMMA GoOnServing ==
  ASSUME NEW s \in State, Serving(s), s.pc \in Stage, NEW u \in Url,
         s.pc = "roots" => u = None \/ (u \in Bucket \union {Empty} /\ Unsigned(s.params) # {})
  PROVE  Serving(GoOn(s, u))
<1>1. ~Answered(s)
  BY DEF Serving, Stage
<1>2. CASE s.pc = "roots" /\ u = None
  <2>1. GoOn(s, u) = ParamsBuilt(s)
    BY <1>2 DEF GoOn
  <2>2. QED
    BY <1>1, <1>2, <2>1, ParamsBuiltServing DEF Serving
<1>3. CASE s.pc = "roots" /\ u # None
  <2> DEFINE i == FirstUnsigned(s.params)
             params == [s.params EXCEPT ![i].signed = u]
             e == [s EXCEPT !.params = params, !.s3 = "no"]
  <2>1. i \in 1 .. Len(s.params)
    BY <1>3, FirstUnsignedIs DEF State
  <2>2. Grown(s, params, Specials) /\ Tokened(params)
    BY <1>3, <2>1, SignGrown DEF Serving
  <2>3. GoOn(s, u) = e
    BY <1>3 DEF GoOn, State
  <2> HIDE DEF params
  <2>4. SameAsked(s, e) /\ e.params = params /\ e.pc = "roots" /\ e.answer = s.answer
    BY <1>3 DEF State, SameAsked
  <2> HIDE DEF e
  <2>5. QED
    BY <1>1, <2>2, <2>3, <2>4, SameServed DEF Serving, Answered
<1>4. CASE s.pc = "kernel"
  <2> DEFINE e == [s EXCEPT !.kernel = u, !.pc = "initrd", !.s3 = "no"]
  <2>1. GoOn(s, u) = e
    BY <1>4 DEF GoOn
  <2>2. SameAsked(s, e) /\ e.params = s.params /\ e.pc = "initrd" /\ e.answer = s.answer
    BY DEF State, SameAsked
  <2> HIDE DEF e
  <2>3. QED
    BY <1>1, <1>4, <2>1, <2>2, SameServed DEF Serving, Answered
<1>5. CASE s.pc = "initrd"
  <2> DEFINE t == [s EXCEPT !.initrd = u]
  <2>1. GoOn(s, u) = Answer(t, "script")
    BY <1>5 DEF GoOn
  <2>2. t \in State /\ SameAsked(s, t) /\ t.params = s.params
    BY DEF State, SameAsked
  <2> HIDE DEF t
  <2>3. AsConfigured(t)
    BY <1>5, <2>2, SameServed DEF Serving
  <2>4. QED
    BY <2>1, <2>2, <2>3, AnswerServing
<1>6. QED
  BY <1>2, <1>3, <1>4, <1>5 DEF Stage

(* The steps.                                                              *)
ServeInv == \A h \in Handler : Serving(st[h])

LEMMA BecomeServing ==
  ASSUME TypeOK, ServeInv, NEW h \in Handler, NEW e, Serving(e), Become(h, e) PROVE ServeInv'
<1>1. \A k \in Handler : st'[k] = IF k = h THEN e ELSE st[k]
  BY DEF TypeOK, Become
<1>2. \A k \in Handler : Serving(st'[k])
  BY <1>1 DEF ServeInv
<1>3. QED
  BY <1>2 DEF ServeInv, Serving, Answered, Grown, Tokened, AsConfigured, Due, ToAdd, Given

LEMMA BuildServing ==
  ASSUME TypeOK, ServeInv, NEW h \in Handler, Build(h) PROVE ServeInv'
<1> DEFINE s == st[h]
           params == AddSpecial(s)
           e == [s EXCEPT !.params = params, !.pc = "token"]
           f == [s EXCEPT !.params = params, !.pc = "roots"]
<1>1. s \in State /\ Serving(s)
  BY OwnTyped DEF ServeInv
<1>2. /\ s.pc = "build"
      /\ \/ Become(h, Failed(s))
         \/ Become(h, e)
         \/ Become(h, f) /\ ~WantsToken(params)
  BY Zenon DEF Build
<1>3. Grown(s, params, Specials) /\ ~Answered(s)
  BY <1>1, <1>2, AddSpecialGrown DEF Serving
<1>4. ~WantsToken(params) => Tokened(params)
  BY DEF WantsToken, paramExists, Tokened
<1> HIDE DEF params, s
<1>5. /\ SameAsked(s, e) /\ e.params = params /\ e.pc = "token" /\ e.answer = s.answer
      /\ SameAsked(s, f) /\ f.params = params /\ f.pc = "roots" /\ f.answer = s.answer
  BY <1>1 DEF State, SameAsked
<1> HIDE DEF e, f
<1>6. Serving(e) /\ (~WantsToken(params) => Serving(f))
  BY <1>3, <1>4, <1>5, SameServed DEF Serving, Answered
<1>7. Serving(Failed(s))
  BY <1>1, <1>3, FailedServing
<1>8. QED
  BY <1>2, <1>6, <1>7, BecomeServing

LEMMA JoinTokenServing ==
  ASSUME TypeOK, ServeInv, NEW h \in Handler, JoinToken(h) PROVE ServeInv'
<1> DEFINE s == st[h]
           params == Substitute(s.params)
           e == [s EXCEPT !.params = params, !.pc = "roots"]
<1>1. s \in State /\ Serving(s)
  BY OwnTyped DEF ServeInv
<1>2. s.pc = "token" /\ (Become(h, Failed(s)) \/ Become(h, e))
  BY Zenon DEF JoinToken
<1>3. Grown(s, params, Specials) /\ Tokened(params) /\ ~Answered(s)
  BY <1>1, <1>2, SubstituteGrown DEF Serving
<1> HIDE DEF params, s
<1>4. SameAsked(s, e) /\ e.params = params /\ e.pc = "roots" /\ e.answer = s.answer
  BY <1>1 DEF State, SameAsked
<1> HIDE DEF e
<1>5. Serving(e)
  BY <1>3, <1>4, SameServed DEF Serving, Answered
<1>6. Serving(Failed(s))
  BY <1>1, <1>3, FailedServing
<1>7. QED
  BY <1>2, <1>5, <1>6, BecomeServing

LEMMA UrlServing ==
  ASSUME TypeOK, ServeInv, NEW h \in Handler, KeepUrl(h) \/ GetURL(h) PROVE ServeInv'
<1> DEFINE s == st[h]
<1>1. s \in State /\ Serving(s) /\ Signing(s) /\ s.params \in Seq(Param) /\ s3Client \in Bucket \union {None}
  BY OwnTyped DEF ServeInv
<1>2. CASE KeepUrl(h)
  <2> DEFINE u == ToSign(s)
  <2>1. s.pc \in Stage /\ u \notin Bucket /\ Become(h, GoOn(s, u))
    BY <1>2 DEF KeepUrl
  <2>2. u \in Url /\ (s.pc = "roots" => u = None)
    <3>1. CASE s.pc = "roots"
      <4>1. Unsigned(s.params) = {}
        BY <1>1, <2>1, <3>1, FirstUnsignedIs DEF ToSign
      <4>2. QED
        BY <3>1, <4>1 DEF ToSign, Url
    <3>2. CASE s.pc = "kernel"
      BY <1>1, <3>2, BootTyped DEF ToSign, State
    <3>3. CASE s.pc = "initrd"
      BY <1>1, <3>3, BootTyped DEF ToSign, State
    <3>4. QED
      BY <2>1, <3>1, <3>2, <3>3 DEF Stage
  <2> HIDE DEF u
  <2>3. Serving(GoOn(s, u))
    BY <1>1, <2>1, <2>2, GoOnServing
  <2>4. QED
    BY <2>1, <2>3, BecomeServing
<1>3. CASE GetURL(h)
  <2>1. /\ s.s3 = "sign"
        /\ \/ Become(h, GoOn(s, Client)) \/ Become(h, Failed(s))
           \/ Become(h, ParamsBuilt(s)) /\ s.pc = "roots"
    BY <1>3, Zenon DEF GetURL, Client
  <2>2. s.pc \in Stage /\ ToSign(s) \in Bucket /\ ~Answered(s)
    BY <1>1, <2>1 DEF Signing, Serving, Stage
  <2>3. Client \in Url /\ Client \in Bucket \union {Empty}
    BY <1>1 DEF Client, Url
  <2>4. s.pc = "roots" => Unsigned(s.params) # {}
    BY <2>2, ScriptAssumption DEF ToSign
  <2>5. Serving(GoOn(s, Client)) /\ Serving(Failed(s))
    BY <1>1, <2>2, <2>3, <2>4, GoOnServing, FailedServing
  <2>6. s.pc = "roots" => Serving(ParamsBuilt(s))
    BY <1>1, <2>2, ParamsBuiltServing DEF Serving
  <2>7. QED
    BY <2>1, <2>5, <2>6, BecomeServing
<1>4. QED
  BY <1>2, <1>3

LEMMA StepServing == ASSUME TypeOK, ServeInv, NEW h \in Handler, Step(h) PROVE ServeInv'
<1> DEFINE s == st[h]
<1>1. s \in State /\ Serving(s)
  BY OwnTyped DEF ServeInv
<1>2. CASE CheckState(h)
  <2>1. PICK e \in State : /\ Become(h, e) /\ s.pc = "state"
                           /\ \/ e.pc = "idle" /\ e.answer \in {"chain", "panic"}
                              \/ e.pc \in {"lookup", "build"} /\ e.answer = s.answer
    BY <1>2, CheckStateIs
  <2>2. Serving(e)
    BY <1>1, <2>1 DEF Serving, Answered
  <2>3. QED
    BY <2>1, <2>2, BecomeServing
<1>5. CASE LookupUnknown(h)
  <2>1. PICK e \in State : Become(h, e) /\ s.pc = "lookup" /\ e.pc = "build" /\ e.answer = s.answer
    BY <1>5, LookupUnknownIs
  <2>2. Serving(e)
    BY <1>1, <2>1 DEF Serving, Answered
  <2>3. QED
    BY <2>1, <2>2, BecomeServing
<1>3. CASE SetBucket(h) \/ NoClient(h) \/ NewS3Client(h)
  <2>1. PICK e \in State : Become(h, e) /\ e = [s EXCEPT !.s3 = e.s3]
    BY <1>3, ClientIs
  <2>2. SameAsked(s, e) /\ e.params = s.params /\ e.pc = s.pc /\ e.answer = s.answer
    <3> DEFINE x == e.s3
    <3>1. e = [s EXCEPT !.s3 = x]
      BY <2>1
    <3> HIDE DEF x
    <3>2. QED
      BY <1>1, <3>1 DEF State, SameAsked
  <2>3. Serving(e)
    BY <1>1, <2>2, SameServed DEF Serving, Answered
  <2>4. QED
    BY <2>1, <2>3, BecomeServing
<1>4. QED
  BY <1>2, <1>3, <1>5, BuildServing, JoinTokenServing, UrlServing DEF Step

LEMMA NextServing == TypeOK /\ ServeInv /\ [Next]_vars => ServeInv'
<1>1. ASSUME TypeOK, ServeInv, NEW h \in Handler, NEW r \in Request, Ask(h, r) PROVE ServeInv'
  <2>1. PICK e \in State : /\ Become(h, e) /\ e.pc \in {"idle", "state", "build"}
                           /\ e.answer \in {"none", "chain"}
    BY <1>1, AskIs
  <2>2. Serving(e)
    BY <2>1 DEF Serving, Answered
  <2>3. QED
    BY <1>1, <2>1, <2>2, BecomeServing
<1>2. ASSUME ServeInv, UNCHANGED st PROVE ServeInv'
  <2>1. \A h \in Handler : Serving(st'[h])
    BY <1>2 DEF ServeInv
  <2>2. QED
    BY <2>1 DEF ServeInv, Serving, Answered, Grown, Tokened, AsConfigured, Due, ToAdd, Given
<1>3. QED
  BY <1>1, <1>2, StepServing DEF Next, Change, vars

LEMMA InitServing == Init => ServeInv
<1>1. Idle.pc = "idle" /\ Idle.answer = "none"
  BY DEF Idle
<1>2. QED
  BY <1>1 DEF Init, ServeInv, Serving, Answered

(* Whatever fails, whatever is changed meanwhile, and whether it is a      *)
(* script of the node's own, a discovery script or the script of its own   *)
(* after a discovery script that failed: the parameters served are the     *)
(* configuration's, in their order and with their values, the token for    *)
(* each use of its variable; beside an initrd, the first that says initrd  *)
(* is gone or, where it only has it inside, cut short, and no other is;    *)
(* and those that BSS adds are there once, where nothing configures them.  *)
THEOREM ServedAsConfigured == Spec => []ParamsAsConfigured
<1>1. ServeInv => ParamsAsConfigured
  BY DEF ServeInv, Serving, Answered, Served, ParamsAsConfigured
<1>2. QED
  BY <1>1, InitTyped, NextTyped, InitServing, NextServing, PTL DEF Spec

=============================================================================
