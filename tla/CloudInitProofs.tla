--------------------------- MODULE CloudInitProofs --------------------------
(***************************************************************************)
(* Theorems about CloudInit: types, whose phone-home data a record holds,  *)
(* what a node that is alone is served, and that its access is found.      *)
(***************************************************************************)
EXTENDS CloudInit, SequenceTheorems, TLAPS

-----------------------------------------------------------------------------
(* A handler is at a step of its request, which names a node unless it is  *)
(* an administrator's.  Phone-home goes on only for a node that was found. *)

Changing == {"read", "write", "delete"}
Serving == {"global", "generate", "role"}

Phased(m) ==
  /\ m.pc \in {"lookup", "try"} => m.req.method \in {"META", "USER", "PHONE"}
  /\ m.pc \in Serving => m.req.method \in {"META", "USER"}
  /\ m.pc = "global" => m.req.method = "META"
  /\ m.pc = "script" => m.req.method = "BOOT"
  /\ m.pc \in {"stamp", "store"} => m.req.method \in {"USER", "BOOT"}
  /\ m.pc \in Changing => m.req.method \in Admin \union {"PHONE"}
  /\ m.pc \in Changing \union {"try"} /\ m.req.method = "PHONE" => m.name = m.req.name
  /\ m.pc = "try" => m.chain # <<>>
  /\ m.pc # "idle" => m.req \in Requests

Handler == {m \in State : Phased(m)}

LEMMA RequestsTyped ==
  ASSUME NEW r \in Requests
  PROVE  /\ r \in Request /\ r.method \in Method /\ r.name \in Host /\ r.ci \in CloudData
         /\ r.method \notin Admin => r.name \in Node
BY CloudRequestAssumption DEF CloudRequestAssumption, Request

LEMMA NoDataTyped ==
  NoData \in Data /\ NoCloudData \in CloudData /\ NoRequest \in Request
BY CloudAssumption
DEF CloudAssumption, NoData, Data, NoCloudData, CloudData, NoRequest, Request, Method, Admin

LEMMA BlankTyped ==
  ASSUME NEW r \in Request, NEW t \in 0 .. MaxClock
  PROVE  LET e == Blank(r, t) IN
         /\ e \in State /\ e.pc = "idle" /\ e.req = r /\ e.began = t /\ e.name = NoName
         /\ e.ci = NoCloudData /\ e.global = NoData /\ e.role = NoData /\ e.out = NoData
         /\ e.at = 0
<1>1. 0 \in 0 .. MaxClock
  BY HistoryAssumption DEF HistoryAssumption
<1>. QED  BY <1>1, NoDataTyped DEF Blank, State, Done

LEMMA RefuseTyped == Refuse \in Handler /\ Refuse.pc = "idle"
<1>1. 0 \in 0 .. MaxClock
  BY HistoryAssumption DEF HistoryAssumption
<1>2. Refuse \in State /\ Refuse.pc = "idle"
  BY <1>1, NoDataTyped, BlankTyped DEF Refuse
<1>. QED  BY <1>2 DEF Handler, Phased, Serving, Changing

LEMMA FinishIs ==
  ASSUME NEW m \in State, m.req \in Requests
  PROVE  LET e == Finish(m) IN
         /\ e \in Handler
         /\ \/ m.req.method \in Admin /\ e = Refuse
            \/ /\ m.req.method \notin Admin
               /\ e.pc = "ok" /\ e.req = m.req /\ e.began = m.began /\ e.name = m.name
               /\ e.global = m.global /\ e.out = m.out
<1>1. CASE m.req.method \in Admin
  BY <1>1, RefuseTyped DEF Finish
<1>2. CASE m.req.method \notin Admin
  <2> DEFINE b == Blank(m.req, m.began)
             e == [b EXCEPT !.pc = "ok", !.name = m.name, !.global = m.global, !.out = m.out]
  <2>1. Finish(m) = e
    BY <1>2 DEF Finish
  <2>2. b \in State /\ b.req = m.req /\ b.began = m.began
    BY BlankTyped DEF State
  <2> HIDE DEF b
  <2>3. /\ e \in State /\ e.pc = "ok" /\ e.req = m.req /\ e.began = m.began /\ e.name = m.name
        /\ e.global = m.global /\ e.out = m.out
    BY <2>2 DEF State, Done
  <2> HIDE DEF e
  <2>. QED  BY <1>2, <2>1, <2>3 DEF Handler, Phased, Serving, Changing
<1>. QED  BY <1>1, <1>2

-----------------------------------------------------------------------------
(* The handlers' steps.                                                    *)

TypeInv == TypeOK /\ cl \in [Client -> Handler]

LEMMA BecomeIs ==
  ASSUME TypeInv, NEW c \in Client, NEW e, Become(c, e)
  PROVE  cl'[c] = e /\ \A d \in Client : d # c => cl'[d] = cl[d]
BY DEF TypeInv, Become

LEMMA OwnState ==
  ASSUME TypeInv, NEW c \in Client
  PROVE  cl[c] \in Handler /\ cl[c] \in State /\ Phased(cl[c])
BY DEF TypeInv, Handler

LEMMA TailTyped ==
  ASSUME NEW s \in Seq(Host), Len(s) > 1
  PROVE  Tail(s) \in Seq(Host) /\ Tail(s) # <<>>
<1>1. s # <<>>
  OBVIOUS
<1>2. Tail(s) \in Seq(Host) /\ Len(Tail(s)) = Len(s) - 1
  BY <1>1
<1>3. Len(Tail(s)) # 0 /\ Len(<<>>) = 0
  BY <1>2
<1>. QED  BY <1>2, <1>3, Zenon

(* What a handler keeps of its request as it goes on.                      *)
Kept(m, e) == e.req = m.req /\ e.began = m.began /\ e.name = m.name

LEMMA BeginIs ==
  ASSUME TypeInv, NEW c \in Client, Begin(c)
  PROVE  LET e == cl'[c] IN
         /\ cl[c].pc \in Done /\ e \in Handler /\ e.req \in Requests
         /\ useSQL => e.req.method \in {"META", "USER", "BOOT"}
         /\ e.began = (IF e.req.method \in {"USER", "BOOT"} THEN clock ELSE 0)
         /\ e.pc = (CASE e.req.method = "PUT" -> "write"
                      [] e.req.method \in {"PATCH", "DELETE"} -> "read"
                      [] e.req.method = "BOOT" -> "script"
                      [] OTHER -> "lookup")
         /\ e.ci = e.req.ci /\ e.global = NoData /\ e.role = NoData
<1>1. PICK r \in May[c] :
        /\ useSQL => r.method \in {"META", "USER", "BOOT"}
        /\ Become(c, [Blank(r, IF r.method \in {"USER", "BOOT"} THEN clock ELSE 0) EXCEPT
                        !.ci = r.ci,
                        !.pc = CASE r.method = "PUT" -> "write"
                                 [] r.method \in {"PATCH", "DELETE"} -> "read"
                                 [] r.method = "BOOT" -> "script"
                                 [] OTHER -> "lookup"])
  BY DEF Begin
<1> DEFINE t == IF r.method \in {"USER", "BOOT"} THEN clock ELSE 0
           p == CASE r.method = "PUT" -> "write"
                  [] r.method \in {"PATCH", "DELETE"} -> "read"
                  [] r.method = "BOOT" -> "script"
                  [] OTHER -> "lookup"
           b == Blank(r, t)
           e == [b EXCEPT !.ci = r.ci, !.pc = p]
<1>2. r \in Requests
  BY CloudRequestAssumption DEF CloudRequestAssumption
<1>3. t \in 0 .. MaxClock
  BY HistoryAssumption DEF TypeInv, TypeOK, HistoryOK, Time, HistoryAssumption
<1>4. p \in {"write", "read", "script", "lookup"}
  OBVIOUS
<1>5. cl'[c] = e
  BY <1>1, BecomeIs
<1> HIDE DEF t, p
<1>6. b \in State /\ b.req = r /\ b.began = t /\ b.global = NoData /\ b.role = NoData
  BY <1>2, <1>3, RequestsTyped, BlankTyped
<1> HIDE DEF b
<1>7. /\ e \in State /\ e.pc = p /\ e.req = r /\ e.began = t /\ e.ci = r.ci
      /\ e.global = NoData /\ e.role = NoData
  BY <1>2, <1>4, <1>6, RequestsTyped DEF State, Done
<1> HIDE DEF e
<1>8. Phased(e)
  BY <1>2, <1>7, RequestsTyped DEF Phased, Serving, Changing, Method, Admin, p
<1>. QED  BY <1>1, <1>2, <1>5, <1>7, <1>8 DEF Handler, Begin, t, p

LEMMA TriesTyped ==
  ASSUME TypeInv, NEW n \in Node \union {NoName}
  PROVE  Tries(n) \in Seq(Host) /\ Tries(n) # <<>>
<1> DEFINE a == IF n = NoName THEN <<>> ELSE <<n>>
           r == IF n \in known /\ Role[n] # None THEN <<Role[n]>> ELSE <<>>
<1>1. a \in Seq(Host)
  BY CloudAssumption DEF CloudAssumption
<1>2. r \in Seq(Host)
  BY CloudAssumption DEF CloudAssumption, TypeInv, TypeOK
<1>3. Default \in Host
  BY CloudAssumption DEF CloudAssumption
<1>4. Tries(n) = a \o r \o <<Default>>
  BY DEF Tries
<1> HIDE DEF a, r
<1>5. a \o r \in Seq(Host) /\ <<Default>> \in Seq(Host) /\ Len(<<Default>>) = 1
  BY <1>1, <1>2, <1>3
<1>6. Tries(n) \in Seq(Host) /\ Len(Tries(n)) = Len(a \o r) + 1 /\ Len(a \o r) \in Nat
  BY <1>4, <1>5
<1>. QED  BY <1>6

(* Where a handler goes with the record it looked up.                      *)
Onto(method) == CASE method = "META" -> "global" [] method = "USER" -> "generate"
                  [] OTHER -> "read"

LEMMA AfterLookupIs ==
  ASSUME NEW m \in State, NEW ci \in CloudData, m.req \in Requests,
         m.req.method \in {"META", "USER", "PHONE"},
         m.req.method = "PHONE" => m.name = m.req.name
  PROVE  LET e == AfterLookup(m, ci) IN
         /\ e \in Handler /\ Kept(m, e) /\ e.pc = Onto(m.req.method) /\ e.ci = ci
         /\ e.global = m.global /\ e.role = m.role
<1> DEFINE p == Onto(m.req.method)
           s == <<>>
           e == [m EXCEPT !.chain = s, !.ci = ci, !.pc = p]
<1>1. AfterLookup(m, ci) = e
  BY DEF AfterLookup, Onto
<1>2. p \in {"global", "generate", "read"} /\ s \in Seq(Host)
  BY DEF Onto
<1> HIDE DEF p, s
<1>3. /\ e \in State /\ Kept(m, e) /\ e.pc = p /\ e.ci = ci
      /\ e.global = m.global /\ e.role = m.role
  BY <1>2 DEF State, Kept
<1> HIDE DEF e
<1>4. Phased(e)
  BY <1>3 DEF Phased, Serving, Changing, Kept, p, Onto
<1>. QED  BY <1>1, <1>3, <1>4 DEF Handler, p

Found(n) == IF n \in located THEN n ELSE NoName

LEMMA LookupIs ==
  ASSUME TypeInv, NEW c \in Client, Lookup(c)
  PROVE  LET m == cl[c]
             e == cl'[c]
         IN  /\ m.pc = "lookup" /\ e \in Handler
             /\ \/ e = Refuse /\ m.req.method = "PHONE"
                \/ /\ e.req = m.req /\ e.began = m.began /\ e.name = Found(m.req.name)
                   /\ e.global = m.global /\ e.role = m.role
                   /\ \/ useSQL /\ e.pc = Onto(m.req.method) /\ e.ci = NoCloudData
                      \/ ~useSQL /\ e.pc = "try" /\ e.chain = Tries(e.name)
<1> DEFINE m == cl[c]
           n == Found(m.req.name)
           k == [m EXCEPT !.name = n]
           s == Tries(n)
           t == [k EXCEPT !.chain = s, !.pc = "try"]
<1>1. m \in State /\ m.pc = "lookup" /\ m.req.method \in {"META", "USER", "PHONE"} /\ m.req \in Requests
  BY OwnState DEF Lookup, Phased
<1>2. m.req.name \in Node
  BY <1>1, RequestsTyped DEF Admin
<1>3. n \in Node \union {NoName} /\ (n # NoName => n = m.req.name)
  BY <1>2 DEF Found
<1>4. k.name = n
  BY <1>1 DEF State
<1>5. cl'[c] = IF n = NoName /\ m.req.method = "PHONE" THEN Refuse
               ELSE IF useSQL THEN AfterLookup(k, NoCloudData) ELSE t
  BY <1>4, BecomeIs DEF Lookup, Found
<1> HIDE DEF n
<1>6. k \in State /\ k.req = m.req /\ k.began = m.began /\ k.global = m.global /\ k.role = m.role
  BY <1>1, <1>3 DEF State
<1> HIDE DEF k
<1>7. s \in Seq(Host) /\ s # <<>>
  BY <1>3, TriesTyped
<1> HIDE DEF s
<1>8. /\ t \in State /\ t.pc = "try" /\ t.chain = s /\ t.req = m.req /\ t.began = m.began
      /\ t.name = n /\ t.global = m.global /\ t.role = m.role
  BY <1>4, <1>6, <1>7 DEF State
<1> HIDE DEF t
<1>9. CASE n = NoName /\ m.req.method = "PHONE"
  BY <1>1, <1>5, <1>9, RefuseTyped
<1>10. CASE ~(n = NoName /\ m.req.method = "PHONE") /\ useSQL
  BY <1>1, <1>3, <1>4, <1>5, <1>6, <1>10, NoDataTyped, AfterLookupIs DEF Kept, n
<1>11. CASE ~(n = NoName /\ m.req.method = "PHONE") /\ ~useSQL
  <2>1. Phased(t)
    BY <1>1, <1>3, <1>7, <1>8, <1>11 DEF Phased, Serving, Changing
  <2>. QED  BY <1>1, <1>5, <1>8, <1>11, <2>1 DEF Handler, n, s
<1>. QED  BY <1>9, <1>10, <1>11

LEMMA TryIs ==
  ASSUME TypeInv, NEW c \in Client, Try(c)
  PROVE  LET m == cl[c]
             e == cl'[c]
             h == Head(m.chain)
         IN  /\ m.pc = "try" /\ h \in Host /\ e \in Handler /\ Kept(m, e)
             /\ e.global = m.global /\ e.role = m.role
             /\ \/ /\ recs[h] # Absent /\ UNCHANGED faults
                   /\ e.pc = Onto(m.req.method) /\ e.ci = recs[h]
                \/ /\ (recs[h] = Absent /\ UNCHANGED faults) \/ Fault
                   /\ IF Len(m.chain) > 1 THEN e.pc = "try" /\ e.chain = Tail(m.chain)
                      ELSE e.pc = Onto(m.req.method) /\ e.ci = NoCloudData
<1> DEFINE m == cl[c]
           h == Head(m.chain)
           s == Tail(m.chain)
           t == [m EXCEPT !.chain = s]
<1>1. /\ m \in State /\ m.pc = "try" /\ m.req.method \in {"META", "USER", "PHONE"}
      /\ m.req \in Requests /\ Phased(m) /\ m.chain # <<>> /\ m.chain \in Seq(Host)
  BY OwnState DEF Try, Phased, State
<1>2. h \in Host
  BY <1>1
<1>3. m.req.method = "PHONE" => m.name = m.req.name
  BY <1>1 DEF Phased
<1>4. CASE recs[h] # Absent /\ UNCHANGED faults /\ cl'[c] = AfterLookup(m, recs[h])
  <2>1. recs[h] \in CloudData
    BY <1>2, <1>4 DEF TypeInv, TypeOK
  <2>. QED  BY <1>1, <1>2, <1>3, <1>4, <2>1, AfterLookupIs
<1>5. CASE (recs[h] = Absent /\ UNCHANGED faults) \/ Fault
  <2>1. CASE Len(m.chain) > 1 /\ cl'[c] = t
    <3>1. s \in Seq(Host) /\ s # <<>>
      BY <1>1, <2>1, TailTyped
    <3> HIDE DEF s, m
    <3>2. /\ t \in State /\ Kept(m, t) /\ t.pc = m.pc /\ t.chain = s
          /\ t.global = m.global /\ t.role = m.role
      BY <1>1, <3>1 DEF State, Kept
    <3> HIDE DEF t
    <3>3. Phased(t)
      BY <1>1, <1>3, <3>1, <3>2 DEF Phased, Kept, Serving, Changing
    <3>. QED  BY <1>1, <1>2, <1>5, <2>1, <3>2, <3>3 DEF Handler, m, s
  <2>2. CASE ~(Len(m.chain) > 1) /\ cl'[c] = AfterLookup(m, NoCloudData)
    BY <1>1, <1>2, <1>3, <1>5, <2>2, NoDataTyped, AfterLookupIs
  <2>3. cl'[c] = (IF Len(m.chain) > 1 THEN t ELSE AfterLookup(m, NoCloudData))
        \/ (cl'[c] = AfterLookup(m, recs[h]) /\ recs[h] # Absent /\ UNCHANGED faults)
    BY BecomeIs DEF Try
  <2>. QED  BY <1>4, <2>1, <2>2, <2>3
<1>6. \/ cl'[c] = AfterLookup(m, recs[h]) /\ recs[h] # Absent /\ UNCHANGED faults
      \/ (recs[h] = Absent /\ UNCHANGED faults)
      \/ Fault
  BY BecomeIs DEF Try
<1>. QED  BY <1>4, <1>5, <1>6

-----------------------------------------------------------------------------
(* What is merged is data.                                                 *)

LEMMA GenerateTyped ==
  ASSUME TypeInv, NEW n \in Node \union {NoName}, NEW meta \in Data, NEW comps \in SUBSET Node
  PROVE  generateMetaData(n, meta, comps) \in Data
<1> DEFINE given(k) == ~IsNil(meta[k]) \/ n \notin comps
           filled(k) == CASE k = HostKey -> n
                          [] k = RoleKey -> SubRole[n]
                          [] OTHER -> meta[k]
<1>1. \A k \in Key : meta[k] \in Value \union {None, Null}
  BY DEF Data
<1>2. \A j \in Node : j \in Value /\ SubRole[j] \in Value
  BY CloudAssumption DEF CloudAssumption
<1>3. ASSUME NEW k \in Key, ~given(k)
      PROVE  filled(k) \in Value \union {None, Null}
  <2>1. n \in Value /\ SubRole[n] \in Value
    BY <1>2, <1>3
  <2>. QED  BY <1>1, <2>1, CloudAssumption DEF CloudAssumption
<1>4. generateMetaData(n, meta, comps) =
        [k \in Key |-> IF given(k) THEN meta[k] ELSE filled(k)]
  BY DEF generateMetaData
<1> HIDE DEF given, filled
<1>. QED  BY <1>1, <1>3, <1>4 DEF Data

LEMMA PatchTyped ==
  ASSUME NEW old \in Data, NEW new \in Data
  PROVE  MergePatch(old, new) \in Data
<1>1. [k \in Key |-> CASE new[k] = None -> old[k]
                       [] new[k] = Null -> None
                       [] OTHER -> new[k]] \in Data
  BY DEF Data
<1>. QED  BY <1>1, Zenon DEF MergePatch

LEMMA UpdateTyped ==
  ASSUME NEW d \in CloudData, NEW p \in CloudData
  PROVE  LET e == updateCloudInit(d, p) IN
         e \in CloudData /\ e.phone \in {d.phone, p.phone}
<1>1. MergePatch(d.meta, p.meta) \in Data /\ MergePatch(d.user, p.user) \in Data
  BY PatchTyped DEF CloudData
<1>. QED  BY <1>1 DEF updateCloudInit, CloudData

LEMMA PartTyped ==
  ASSUME NEW rec \in CloudData, NEW method
  PROVE  Part(rec, method) \in Data
BY DEF Part, CloudData

LEMMA MergedTyped ==
  ASSUME NEW m \in State
  PROVE  Merged(m) \in Data
<1> DEFINE p == Part(m.ci, m.req.method)
           d == mergeMaps(m.role, p)
           h == m.ci.meta[HostKey]
<1>1. p \in Data /\ m.role \in Data /\ m.ci.meta \in Data
  BY PartTyped DEF State, CloudData
<1> HIDE DEF p
<1>2. d \in Data
  BY <1>1 DEF mergeMaps, Data
<1>3. h \in Value \union {None, Null}
  BY <1>1, CloudAssumption DEF CloudAssumption, Data
<1>4. Merged(m) = IF m.req.method = "USER" /\ IsNil(d[HostKey]) /\ ~IsNil(h)
                  THEN [d EXCEPT ![HostKey] = h] ELSE d
  BY DEF Merged, p
<1> HIDE DEF d, h
<1>. QED  BY <1>2, <1>3, <1>4 DEF Data

LEMMA AnsweredIs ==
  ASSUME NEW m \in State, m.req \in Requests, m.req.method \in {"META", "USER"}
  PROVE  LET e == Answered(m) IN
         /\ e \in Handler /\ Kept(m, e) /\ e.global = m.global /\ e.out = Merged(m)
         /\ e.pc = (IF m.req.method = "META" THEN "ok" ELSE "stamp")
<1> DEFINE o == Merged(m)
           s == [m EXCEPT !.out = o]
           t == [s EXCEPT !.pc = "stamp"]
<1>1. o \in Data
  BY MergedTyped
<1>2. Answered(m) = IF m.req.method = "META" THEN Finish(s) ELSE t
  BY DEF Answered
<1> HIDE DEF o
<1>3. s \in State /\ Kept(m, s) /\ s.global = m.global /\ s.out = o
  BY <1>1 DEF State, Kept
<1> HIDE DEF s
<1>4. t \in State /\ Kept(m, t) /\ t.global = m.global /\ t.out = o /\ t.pc = "stamp"
  BY <1>3 DEF State, Kept
<1> HIDE DEF t
<1>5. CASE m.req.method = "META"
  BY <1>2, <1>3, <1>5, FinishIs DEF Kept, Admin, o
<1>6. CASE m.req.method = "USER"
  <2>1. Phased(t)
    BY <1>4, <1>6 DEF Phased, Kept, Serving, Changing
  <2>. QED  BY <1>2, <1>4, <1>6, <2>1 DEF Handler, o
<1>. QED  BY <1>5, <1>6

-----------------------------------------------------------------------------
(* The steps of the handlers that serve data.                              *)

LEMMA PanicIs ==
  ASSUME TypeInv, NEW c \in Client, Panic(c)
  PROVE  cl'[c] = Refuse /\ useSQL
BY BecomeIs DEF Panic

LEMMA ReadGlobalIs ==
  ASSUME TypeInv, NEW c \in Client, ReadGlobal(c)
  PROVE  LET m == cl[c]
             e == cl'[c]
         IN  /\ ~useSQL /\ m.pc = "global" /\ m.req.method = "META" /\ e \in Handler
             /\ Kept(m, e) /\ e.pc = "generate" /\ e.ci = m.ci /\ e.role = m.role
             /\ \/ /\ e.global = (IF recs[Global] = Absent THEN NoData ELSE recs[Global].meta)
                   /\ UNCHANGED faults
                \/ Fault
<1> DEFINE m == cl[c]
           found == IF recs[Global] = Absent THEN NoData ELSE recs[Global].meta
           with(data) == [m EXCEPT !.global = data, !.pc = "generate"]
<1>1. /\ m \in State /\ m.pc = "global" /\ m.req.method = "META" /\ m.req \in Requests
      /\ ~useSQL
  BY OwnState DEF ReadGlobal, Phased
<1>2. found \in Data /\ NoData \in Data
  BY CloudAssumption, NoDataTyped DEF CloudAssumption, TypeInv, TypeOK, CloudData
<1>3. \/ cl'[c] = with(found) /\ UNCHANGED faults
      \/ cl'[c] = with(NoData) /\ Fault
  BY BecomeIs DEF ReadGlobal
<1>4. ASSUME NEW data \in Data
      PROVE  LET e == with(data) IN
             /\ e \in Handler /\ Kept(m, e) /\ e.pc = "generate" /\ e.ci = m.ci
             /\ e.role = m.role /\ e.global = data
  <2> DEFINE e == with(data)
  <2>1. /\ e \in State /\ Kept(m, e) /\ e.pc = "generate" /\ e.ci = m.ci
        /\ e.role = m.role /\ e.global = data
    BY <1>1 DEF State, Kept
  <2> HIDE DEF e
  <2>2. Phased(e)
    BY <1>1, <2>1 DEF Phased, Kept, Serving, Changing
  <2>. QED  BY <2>1, <2>2 DEF Handler, e
<1> HIDE DEF with, found
<1>. QED  BY <1>1, <1>2, <1>3, <1>4 DEF found

LEMMA GenerateIs ==
  ASSUME TypeInv, NEW c \in Client, Generate(c)
  PROVE  LET m == cl[c]
             e == cl'[c]
             meta == generateMetaData(m.name, m.ci.meta, known)
             k == [m EXCEPT !.ci.meta = meta]
         IN  /\ m.pc = "generate" /\ m.req.method \in {"META", "USER"} /\ e \in Handler
             /\ Kept(m, e) /\ e.global = m.global
             /\ IF IsNil(meta[RoleKey])
                THEN /\ e.pc = (IF m.req.method = "META" THEN "ok" ELSE "stamp")
                     /\ e.out = Merged(k)
                ELSE e.pc = "role" /\ e.ci = [m.ci EXCEPT !.meta = meta] /\ e.role = m.role
<1> DEFINE m == cl[c]
           meta == generateMetaData(m.name, m.ci.meta, known)
           k == [m EXCEPT !.ci.meta = meta]
           e == [k EXCEPT !.pc = "role"]
<1>1. /\ m \in State /\ m.pc = "generate" /\ m.req.method \in {"META", "USER"}
      /\ m.req \in Requests
  BY OwnState DEF Generate, Phased, Serving
<1>2. meta \in Data
  BY <1>1, GenerateTyped DEF TypeInv, TypeOK, State, CloudData
<1>3. cl'[c] = IF IsNil(k.ci.meta[RoleKey]) THEN Answered(k) ELSE e
  BY BecomeIs DEF Generate
<1> HIDE DEF meta
<1>4. [m.ci EXCEPT !.meta = meta] \in CloudData /\ k.ci = [m.ci EXCEPT !.meta = meta]
      /\ k.ci.meta = meta
  BY <1>1, <1>2 DEF State, CloudData
<1>5. k \in State /\ Kept(m, k) /\ k.global = m.global /\ k.role = m.role
  BY <1>1, <1>2, <1>4 DEF State, Kept
<1>6. CASE IsNil(meta[RoleKey])
  <2>1. cl'[c] = Answered(k)
    BY <1>3, <1>4, <1>6
  <2> HIDE DEF k
  <2>. QED  BY <1>1, <1>5, <1>6, <2>1, AnsweredIs DEF Kept, k, meta
<1>7. CASE ~IsNil(meta[RoleKey])
  <2>1. cl'[c] = e
    BY <1>3, <1>4, <1>7
  <2> HIDE DEF k
  <2>2. /\ e \in State /\ Kept(m, e) /\ e.global = m.global /\ e.role = m.role /\ e.pc = "role"
        /\ e.ci = k.ci
    BY <1>5 DEF State, Kept
  <2> HIDE DEF e
  <2>3. Phased(e)
    BY <1>1, <2>2 DEF Phased, Kept, Serving, Changing
  <2>. QED  BY <1>1, <1>4, <1>7, <2>1, <2>2, <2>3 DEF Handler, meta
<1>. QED  BY <1>6, <1>7

(* What LookupByRole answers with, unless it fails.                        *)
RoleData(m) ==
  LET rec == Stored(m.ci.meta[RoleKey])
  IN  IF rec = Absent THEN NoData ELSE Part(rec, m.req.method)

LEMMA ReadRoleIs ==
  ASSUME TypeInv, NEW c \in Client, ReadRole(c)
  PROVE  LET m == cl[c]
             e == cl'[c]
         IN  /\ ~useSQL /\ m.pc = "role" /\ m.req.method \in {"META", "USER"} /\ e \in Handler
             /\ Kept(m, e) /\ e.global = m.global
             /\ e.pc = (IF m.req.method = "META" THEN "ok" ELSE "stamp")
             /\ \/ e.out = Merged([m EXCEPT !.role = RoleData(m)]) /\ UNCHANGED faults
                \/ Fault
<1> DEFINE m == cl[c]
           data == RoleData(m)
           k == [m EXCEPT !.role = data]
<1>1. /\ m \in State /\ m.pc = "role" /\ m.req.method \in {"META", "USER"}
      /\ m.req \in Requests /\ ~useSQL
  BY OwnState DEF ReadRole, Phased, Serving
<1>2. data \in Data
  BY NoDataTyped, PartTyped DEF TypeInv, TypeOK, RoleData, Stored
<1>3. \/ cl'[c] = Answered(k) /\ UNCHANGED faults
      \/ cl'[c] = Answered(m) /\ Fault
  BY BecomeIs DEF ReadRole, RoleData
<1> HIDE DEF data
<1>4. k \in State /\ Kept(m, k) /\ k.global = m.global
  BY <1>1, <1>2 DEF State, Kept
<1> HIDE DEF k
<1>5. CASE cl'[c] = Answered(k) /\ UNCHANGED faults
  BY <1>1, <1>4, <1>5, AnsweredIs DEF Kept, k, data
<1>6. CASE cl'[c] = Answered(m) /\ Fault
  BY <1>1, <1>6, AnsweredIs DEF Kept
<1>. QED  BY <1>3, <1>5, <1>6

-----------------------------------------------------------------------------
(* The steps that record an access, and those that change a record.        *)

LEMMA ScriptIs ==
  ASSUME TypeInv, NEW c \in Client, Script(c)
  PROVE  LET m == cl[c]
             e == cl'[c]
         IN  /\ m.pc = "script" /\ e \in Handler
             /\ e = Refuse \/ (e.req = m.req /\ e.began = m.began /\ e.pc = "stamp")
<1> DEFINE m == cl[c]
           n == IF m.req.name \in known THEN m.req.name ELSE NoName
           e == [m EXCEPT !.name = n, !.pc = "stamp"]
<1>1. m \in State /\ m.pc = "script" /\ m.req.method = "BOOT" /\ m.req \in Requests
  BY OwnState DEF Script, Phased
<1>2. n \in Node \union {NoName}
  BY <1>1, RequestsTyped DEF Admin
<1>3. cl'[c] = e \/ cl'[c] = Refuse
  BY BecomeIs DEF Script
<1> HIDE DEF n
<1>4. e \in State /\ e.req = m.req /\ e.began = m.began /\ e.pc = "stamp"
  BY <1>1, <1>2 DEF State
<1> HIDE DEF e
<1>5. Phased(e)
  BY <1>1, <1>4 DEF Phased, Serving, Changing
<1>. QED  BY <1>1, <1>3, <1>4, <1>5, RefuseTyped DEF Handler

LEMMA StampIs ==
  ASSUME TypeInv, NEW c \in Client, Stamp(c)
  PROVE  LET m == cl[c]
             e == cl'[c]
         IN  /\ m.pc = "stamp" /\ e \in Handler /\ Kept(m, e) /\ e.pc = "store"
             /\ e.at = clock /\ e.out = m.out /\ e.global = m.global
<1> DEFINE m == cl[c]
           e == [m EXCEPT !.at = clock, !.pc = "store"]
<1>1. /\ m \in State /\ m.pc = "stamp" /\ m.req.method \in {"USER", "BOOT"}
      /\ m.req \in Requests
  BY OwnState DEF Stamp, Phased
<1>2. clock \in 0 .. MaxClock
  BY HistoryAssumption DEF TypeInv, TypeOK, HistoryOK, Time, HistoryAssumption
<1>3. cl'[c] = e
  BY BecomeIs DEF Stamp
<1>4. /\ e \in State /\ Kept(m, e) /\ e.pc = "store" /\ e.at = clock /\ e.out = m.out
      /\ e.global = m.global
  BY <1>1, <1>2 DEF State, Kept
<1> HIDE DEF e
<1>5. Phased(e)
  BY <1>1, <1>4 DEF Phased, Kept, Serving, Changing
<1>. QED  BY <1>1, <1>3, <1>4, <1>5 DEF Handler

LEMMA StoreAccessIs ==
  ASSUME TypeInv, NEW c \in Client, StoreAccess(c)
  PROVE  LET m == cl[c]
             e == cl'[c]
         IN  /\ m.pc = "store" /\ m.req.method \in {"USER", "BOOT"} /\ e \in Handler
             /\ Kept(m, e) /\ e.pc = "ok" /\ e.out = m.out /\ e.global = m.global
<1> DEFINE m == cl[c]
<1>1. /\ m \in State /\ m.pc = "store" /\ m.req.method \in {"USER", "BOOT"}
      /\ m.req \in Requests
  BY OwnState DEF StoreAccess, Phased
<1>2. cl'[c] = Finish(m)
  BY BecomeIs DEF StoreAccess
<1>. QED  BY <1>1, <1>2, FinishIs DEF Kept, Admin

LEMMA TargetTyped ==
  ASSUME NEW m \in Handler, m.pc \in Changing
  PROVE  Target(m) = m.req.name /\ m.req.name \in Host /\ m.req \in Requests
<1>1. m.req \in Requests /\ (m.req.method = "PHONE" => m.name = m.req.name)
  BY DEF Handler, Phased, Changing
<1>. QED  BY <1>1, RequestsTyped DEF Target

LEMMA GivenTyped ==
  ASSUME NEW m \in State
  PROVE  Given(m) \in CloudData /\ Given(m).phone = m.req.ci.phone
BY DEF State, Given, CloudData, Request

LEMMA ReadRecordIs ==
  ASSUME TypeInv, NEW c \in Client, ReadRecord(c)
  PROVE  LET m == cl[c]
             e == cl'[c]
             rec == recs[m.req.name]
             new == updateCloudInit(rec, Given(m))
         IN  /\ m.pc = "read" /\ e \in Handler
             /\ \/ e = Refuse
                \/ e = Finish(m) /\ e.pc \in Done /\ UNCHANGED faults
                \/ /\ Kept(m, e) /\ rec \in CloudData /\ rec # Absent /\ UNCHANGED faults
                   /\ IF m.req.method = "DELETE" THEN e.pc = "delete"
                      ELSE e.pc = "write" /\ e.ci = new
<1> DEFINE m == cl[c]
           rec == recs[m.req.name]
           new == updateCloudInit(rec, Given(m))
           d == [m EXCEPT !.pc = "delete"]
           e == [m EXCEPT !.ci = new, !.pc = "write"]
<1>1. /\ m \in Handler /\ m \in State /\ m.pc = "read" /\ m.req \in Requests
      /\ Target(m) = m.req.name /\ m.req.name \in Host /\ Phased(m)
      /\ m.req.method \in Admin \union {"PHONE"}
  BY OwnState, TargetTyped DEF ReadRecord, Phased, Changing
<1>2. rec \in CloudData \union {Absent}
  BY <1>1 DEF TypeInv, TypeOK
<1>3. \/ rec # Absent /\ UNCHANGED faults /\ m.req.method = "DELETE" /\ cl'[c] = d
      \/ rec # Absent /\ UNCHANGED faults /\ m.req.method # "DELETE" /\ cl'[c] = Finish(m)
      \/ rec # Absent /\ UNCHANGED faults /\ m.req.method # "DELETE" /\ cl'[c] = e
      \/ cl'[c] = Refuse
  BY <1>1, BecomeIs DEF ReadRecord
<1>4. CASE rec # Absent /\ UNCHANGED faults /\ m.req.method = "DELETE" /\ cl'[c] = d
  <2>1. d \in State /\ Kept(m, d) /\ d.pc = "delete"
    BY <1>1 DEF State, Kept
  <2> HIDE DEF d
  <2>2. Phased(d)
    BY <1>1, <2>1 DEF Phased, Kept, Serving, Changing
  <2>. QED  BY <1>1, <1>2, <1>4, <2>1, <2>2 DEF Handler
<1>5. CASE rec # Absent /\ UNCHANGED faults /\ m.req.method # "DELETE" /\ cl'[c] = Finish(m)
  BY <1>1, <1>5, FinishIs, RefuseTyped DEF Done
<1>6. CASE rec # Absent /\ UNCHANGED faults /\ m.req.method # "DELETE" /\ cl'[c] = e
  <2>1. new \in CloudData
    BY <1>1, <1>2, <1>6, GivenTyped, UpdateTyped
  <2> HIDE DEF new
  <2>2. e \in State /\ Kept(m, e) /\ e.pc = "write" /\ e.ci = new
    BY <1>1, <2>1 DEF State, Kept
  <2> HIDE DEF e
  <2>3. Phased(e)
    BY <1>1, <2>2 DEF Phased, Kept, Serving, Changing
  <2>. QED  BY <1>1, <1>2, <1>6, <2>2, <2>3 DEF Handler, new
<1>7. CASE cl'[c] = Refuse
  BY <1>1, <1>7, RefuseTyped
<1>. QED  BY <1>3, <1>4, <1>5, <1>6, <1>7

LEMMA ChangeIs ==
  ASSUME TypeInv, NEW c \in Client, NEW pc \in Changing, NEW rec, Change(c, pc, rec)
  PROVE  LET m == cl[c]
             e == cl'[c]
         IN  /\ m.pc = pc /\ e \in Handler /\ m.req.name \in Host
             /\ \/ /\ recs' = [recs EXCEPT ![m.req.name] = rec]
                   /\ e = Finish(m) /\ UNCHANGED faults /\ Disturb(c)
                \/ e = Refuse /\ Fault /\ UNCHANGED <<recs, calm>>
<1> DEFINE m == cl[c]
<1>1. m \in State /\ m \in Handler /\ m.pc = pc
  BY OwnState DEF Change
<1>2. Target(m) = m.req.name /\ m.req.name \in Host /\ m.req \in Requests
  BY <1>1, TargetTyped
<1>3. \/ /\ recs' = [recs EXCEPT ![Target(m)] = rec]
         /\ cl'[c] = Finish(m) /\ UNCHANGED faults /\ Disturb(c)
      \/ cl'[c] = Refuse /\ Fault /\ UNCHANGED <<recs, calm>>
  BY BecomeIs DEF Change
<1>. QED  BY <1>1, <1>2, <1>3, FinishIs, RefuseTyped

-----------------------------------------------------------------------------
(* Types.                                                                  *)

(* A step of c by which it becomes a handler again.                        *)
LEMMA HandlersKept ==
  ASSUME TypeInv, NEW c \in Client, NEW e, Become(c, e), cl'[c] \in Handler
  PROVE  cl' \in [Client -> Handler] /\ cl' \in [Client -> State]
<1>1. cl' = [cl EXCEPT ![c] = e] /\ cl \in [Client -> Handler]
  BY DEF TypeInv, Become
<1>2. e \in Handler
  BY <1>1
<1>3. cl' \in [Client -> Handler]
  BY <1>1, <1>2
<1>. QED  BY <1>3 DEF Handler

LEMMA StepMoves ==
  ASSUME TypeInv, NEW c \in Client, Begin(c) \/ Step(c)
  PROVE  /\ \E e : Become(c, e)
         /\ cl'[c] \in Handler
         /\ located' = located /\ known' = known
<1>1. ASSUME NEW pc \in {"write", "delete"}, NEW rec, Change(c, pc, rec)
      PROVE  /\ \E e : Become(c, e)
             /\ cl'[c] \in Handler
             /\ located' = located /\ known' = known
  <2>1. pc \in Changing
    BY DEF Changing
  <2>. QED  BY <1>1, <2>1, ChangeIs DEF Change
<1>2. CASE Begin(c)
  <2>1. \E e : Become(c, e)
    BY <1>2, Zenon DEF Begin
  <2>. QED  BY <1>2, <2>1, BeginIs DEF Begin
<1>3. CASE Lookup(c)
  BY <1>3, LookupIs DEF Lookup
<1>4. CASE Try(c)
  BY <1>4, TryIs DEF Try
<1>5. CASE ReadGlobal(c)
  <2>1. \E e : Become(c, e)
    BY <1>5, Zenon DEF ReadGlobal
  <2>. QED  BY <1>5, <2>1, ReadGlobalIs DEF ReadGlobal
<1>6. CASE Generate(c)
  BY <1>6, GenerateIs DEF Generate
<1>7. CASE ReadRole(c)
  BY <1>7, ReadRoleIs DEF ReadRole
<1>8. CASE Panic(c)
  BY <1>8, PanicIs, RefuseTyped DEF Panic
<1>9. CASE Script(c)
  <2>1. \E e : Become(c, e)
    BY <1>9, Zenon DEF Script
  <2>. QED  BY <1>9, <2>1, ScriptIs DEF Script
<1>10. CASE Stamp(c)
  BY <1>10, StampIs DEF Stamp
<1>11. CASE StoreAccess(c)
  BY <1>11, StoreAccessIs DEF StoreAccess
<1>12. CASE ReadRecord(c)
  BY <1>12, ReadRecordIs DEF ReadRecord
<1>13. CASE Write(c)
  BY <1>1, <1>13 DEF Write
<1>14. CASE Delete(c)
  BY <1>1, <1>14 DEF Delete
<1>. QED  BY <1>2, <1>3, <1>4, <1>5, <1>6, <1>7, <1>8, <1>9, <1>10, <1>11, <1>12, <1>13, <1>14
          DEF Step

LEMMA RecordTyped ==
  ASSUME HistoryOK, NEW n \in Node \union {NoName}, NEW e \in Endpoint,
         NEW t \in 0 .. MaxClock, Record(n, e, t)
  PROVE  HistoryOK'
<1>1. CASE useSQL /\ n # NoName /\ rows' = rows \union {[name |-> n, endpoint |-> e, last |-> t]}
           /\ UNCHANGED <<useSQL, clock, epochs>>
  BY <1>1 DEF HistoryOK, Access
<1>2. CASE UNCHANGED historyVars
  BY <1>2 DEF HistoryOK, historyVars
<1>3. CASE epochs' = [epochs EXCEPT ![n][e] = t] /\ UNCHANGED <<useSQL, clock, rows>>
  <2>1. epochs' \in [Node \union {NoName} -> [Endpoint -> 0 .. MaxClock]]
    BY <1>3 DEF HistoryOK
  <2>. QED  BY <1>3, <2>1 DEF HistoryOK
<1>. QED  BY <1>1, <1>2, <1>3 DEF Record, historyVars

LEMMA TypeInit == Init => TypeInv
<1> SUFFICES ASSUME Init
             PROVE  TypeInv
  OBVIOUS
<1>1. HistoryOK
  BY HistoryAssumption DEF Init, HistoryInit, HistoryOK, Time, HistoryAssumption
<1>2. recs \in [Host -> CloudData \union {Absent}]
  BY CloudRequestAssumption DEF Init, CloudRequestAssumption
<1>3. cl \in [Client -> Handler] /\ cl \in [Client -> State]
  BY RefuseTyped DEF Init, Refuse, Handler
<1>4. located \subseteq Node /\ known \subseteq Node /\ calm \subseteq Client
  BY CloudRequestAssumption DEF Init, CloudRequestAssumption
<1>5. faults \in 0 .. MaxFaults
  BY CloudAssumption DEF Init, CloudAssumption
<1>. QED  BY <1>1, <1>2, <1>3, <1>4, <1>5 DEF TypeInv, TypeOK

(* What a step of one handler does to the rest of the state.               *)
LEMMA StepShares ==
  ASSUME TypeInv, NEW c \in Client, Begin(c) \/ Step(c)
  PROVE  /\ HistoryOK'
         /\ recs' \in [Host -> CloudData \union {Absent}]
         /\ calm' \subseteq Client
         /\ faults' \in 0 .. MaxFaults
<1>0. /\ HistoryOK /\ recs \in [Host -> CloudData \union {Absent}] /\ calm \subseteq Client
      /\ faults \in 0 .. MaxFaults
  BY DEF TypeInv, TypeOK
<1>1. ASSUME UNCHANGED faults \/ Fault
      PROVE  faults' \in 0 .. MaxFaults
  BY <1>0, <1>1, CloudAssumption DEF Fault, CloudAssumption
<1>2. ASSUME UNCHANGED historyVars
      PROVE  HistoryOK'
  BY <1>0, <1>2 DEF HistoryOK, historyVars
<1>3. CASE Begin(c)
  BY <1>0, <1>1, <1>2, <1>3 DEF Begin
<1>4. CASE Lookup(c) \/ Generate(c) \/ Panic(c) \/ Script(c) \/ Stamp(c)
  BY <1>0, <1>1, <1>2, <1>4 DEF Lookup, Generate, Panic, Script, Stamp
<1>5. CASE Try(c) \/ ReadGlobal(c) \/ ReadRole(c) \/ ReadRecord(c)
  <2>1. UNCHANGED <<historyVars, recs, calm>> /\ (UNCHANGED faults \/ Fault)
    <3>1. CASE Try(c)
      BY <3>1, ZenonT(30) DEF Try
    <3>2. CASE ReadGlobal(c)
      BY <3>2, ZenonT(30) DEF ReadGlobal
    <3>3. CASE ReadRole(c)
      BY <3>3, ZenonT(30) DEF ReadRole
    <3>4. CASE ReadRecord(c)
      BY <3>4, ZenonT(30) DEF ReadRecord
    <3>. QED  BY <1>5, <3>1, <3>2, <3>3, <3>4
  <2>. QED  BY <1>0, <1>1, <1>2, <2>1
<1>6. CASE StoreAccess(c)
  <2> DEFINE m == cl[c]
  <2>1. m.name \in Node \union {NoName} /\ m.at \in 0 .. MaxClock /\ Accessed(m) \in Endpoint
    BY OwnState DEF State, Accessed, Endpoint
  <2>2. \/ Record(m.name, Accessed(m), m.at) /\ Disturb(c) /\ UNCHANGED faults
        \/ Fault /\ UNCHANGED <<historyVars, calm>>
    BY <1>6 DEF StoreAccess
  <2>3. HistoryOK'
    BY <1>0, <1>2, <2>1, <2>2, RecordTyped
  <2>4. calm' \subseteq Client
    BY <1>0, <2>2 DEF Disturb
  <2>. QED  BY <1>0, <1>1, <1>6, <2>2, <2>3, <2>4 DEF StoreAccess
<1>7. ASSUME NEW pc \in {"write", "delete"}, NEW rec \in CloudData \union {Absent},
             Change(c, pc, rec)
      PROVE  /\ recs' \in [Host -> CloudData \union {Absent}] /\ calm' \subseteq Client
             /\ HistoryOK' /\ faults' \in 0 .. MaxFaults
  <2>1. pc \in Changing
    BY DEF Changing
  <2>2. recs' = [recs EXCEPT ![cl[c].req.name] = rec] \/ UNCHANGED recs
    BY <1>7, <2>1, ChangeIs
  <2>3. (UNCHANGED calm \/ Disturb(c)) /\ (UNCHANGED faults \/ Fault) /\ UNCHANGED historyVars
    BY <1>7 DEF Change
  <2>. QED  BY <1>0, <1>1, <1>2, <2>2, <2>3 DEF Disturb
<1>8. CASE Write(c)
  BY <1>7, <1>8, OwnState DEF Write, State
<1>9. CASE Delete(c)
  BY <1>7, <1>9 DEF Delete
<1>. QED  BY <1>3, <1>4, <1>5, <1>6, <1>8, <1>9 DEF Step

LEMMA TypeNext == TypeInv /\ [Next]_vars => TypeInv'
<1> SUFFICES ASSUME TypeInv, [Next]_vars
             PROVE  TypeInv'
  OBVIOUS
<1>1. CASE TimePasses
  <2>1. HistoryOK'
    BY <1>1, HistoryAssumption
    DEF HistoryAssumption, TimePasses, Tick, TypeInv, TypeOK, HistoryOK, Time
  <2>2. UNCHANGED <<recs, located, known, cl, faults, calm>>
    BY <1>1, ZenonT(30) DEF TimePasses
  <2>. QED  BY <2>1, <2>2 DEF TypeInv, TypeOK
<1>2. CASE Discover
  BY <1>2 DEF Discover, TypeInv, TypeOK, HistoryOK, historyVars
<1>3. ASSUME NEW c \in Client, Begin(c) \/ Step(c)
      PROVE  TypeInv'
  <2>1. cl' \in [Client -> Handler] /\ cl' \in [Client -> State]
    BY <1>3, StepMoves, HandlersKept
  <2>2. (located \subseteq Node /\ known \subseteq Node)'
    BY <1>3, StepMoves DEF TypeInv, TypeOK
  <2>. QED  BY <1>3, <2>1, <2>2, StepShares DEF TypeInv, TypeOK
<1>4. CASE UNCHANGED vars
  BY <1>4 DEF vars, historyVars, TypeInv, TypeOK, HistoryOK
<1>. QED  BY <1>1, <1>2, <1>3, <1>4 DEF Next

(* Whatever the handlers do, the records, the caches, the history and the  *)
(* handlers' own data keep their types, and a handler is at a step of the  *)
(* request it was sent: what it tells of a failed lookup, of a merge and   *)
(* of an answered request is always data.                                  *)
THEOREM TypeCorrect == Spec => []TypeOK
<1>1. TypeInv => TypeOK
  BY DEF TypeInv
<1>. QED  BY <1>1, TypeInit, TypeNext, PTL DEF Spec

LEMMA AlwaysTyped == Spec => []TypeInv
BY TypeInit, TypeNext, PTL DEF Spec

-----------------------------------------------------------------------------
(* Whose phone-home data a record holds: what was sent or stored under its *)
(* name.  So does what a handler is about to write: an administrator's     *)
(* PUT is as it was sent, and a merge takes the phone-home data of the     *)
(* record or of the request.                                               *)

Sent(h) ==
  {None} \union {r.ci.phone : r \in {q \in Requests : q.name = h}}
         \union {s[h].phone : s \in {t \in StoredBefore : t[h] # Absent}}

PhonesStored == \A h \in Host : recs[h] # Absent => recs[h].phone \in Sent(h)
PhonesWritten == \A c \in Client : cl[c].pc = "write" => cl[c].ci.phone \in Sent(cl[c].req.name)
PhoneInv == PhonesStored /\ PhonesWritten

(* Steps that touch no record.                                             *)
Quiet(c) ==
  \/ Begin(c) \/ Lookup(c) \/ Try(c) \/ ReadGlobal(c) \/ Generate(c) \/ ReadRole(c)
  \/ Panic(c) \/ Script(c) \/ Stamp(c) \/ StoreAccess(c) \/ ReadRecord(c)

LEMMA QuietKeeps ==
  ASSUME NEW c \in Client, Quiet(c)
  PROVE  recs' = recs
<1>1. CASE Begin(c) \/ Lookup(c) \/ Generate(c) \/ Panic(c) \/ Script(c) \/ Stamp(c) \/ StoreAccess(c)
  BY <1>1 DEF Begin, Lookup, Generate, Panic, Script, Stamp, StoreAccess
<1>2. CASE Try(c)
  BY <1>2, ZenonT(30) DEF Try
<1>3. CASE ReadGlobal(c)
  BY <1>3, ZenonT(30) DEF ReadGlobal
<1>4. CASE ReadRole(c)
  BY <1>4, ZenonT(30) DEF ReadRole
<1>5. CASE ReadRecord(c)
  BY <1>5, ZenonT(30) DEF ReadRecord
<1>. QED  BY <1>1, <1>2, <1>3, <1>4, <1>5 DEF Quiet

(* The only ways to come to a write: with a PUT, and from a read.          *)
LEMMA WritesBegin ==
  ASSUME TypeInv, NEW c \in Client, Quiet(c), cl'[c].pc = "write"
  PROVE  LET m == cl[c]
             e == cl'[c]
             rec == recs[m.req.name]
         IN  \/ Begin(c) /\ e.req \in Requests /\ e.ci = e.req.ci /\ e.req.method = "PUT"
             \/ /\ ReadRecord(c) /\ m.pc = "read" /\ e.req = m.req /\ e.name = m.name
                /\ rec \in CloudData /\ rec # Absent /\ UNCHANGED faults
                /\ e.ci = updateCloudInit(rec, Given(m))
<1>1. CASE Begin(c)
  BY <1>1, BeginIs
<1>2. CASE Lookup(c)
  BY <1>2, LookupIs, RefuseTyped DEF Onto
<1>3. CASE Try(c)
  BY <1>3, TryIs DEF Onto
<1>4. CASE ReadGlobal(c)
  BY <1>4, ReadGlobalIs
<1>5. CASE Generate(c)
  BY <1>5, GenerateIs
<1>6. CASE ReadRole(c)
  BY <1>6, ReadRoleIs
<1>7. CASE Panic(c)
  BY <1>7, PanicIs, RefuseTyped
<1>8. CASE Script(c)
  BY <1>8, ScriptIs, RefuseTyped
<1>9. CASE Stamp(c)
  BY <1>9, StampIs
<1>10. CASE StoreAccess(c)
  BY <1>10, StoreAccessIs
<1>11. CASE ReadRecord(c)
  BY <1>11, ReadRecordIs, RefuseTyped DEF Done, Kept
<1>. QED  BY <1>1, <1>2, <1>3, <1>4, <1>5, <1>6, <1>7, <1>8, <1>9, <1>10, <1>11 DEF Quiet

LEMMA PhoneStep ==
  ASSUME TypeInv, PhoneInv, NEW c \in Client, Begin(c) \/ Step(c)
  PROVE  PhoneInv'
<1>0. \A d \in Client : d # c => cl'[d] = cl[d]
  BY StepMoves, BecomeIs
<1>1. CASE Quiet(c)
  <2>1. recs' = recs
    BY <1>1, QuietKeeps
  <2>2. ASSUME cl'[c].pc = "write"
        PROVE  cl'[c].ci.phone \in Sent(cl'[c].req.name)
    <3> DEFINE m == cl[c]
               e == cl'[c]
               rec == recs[m.req.name]
    <3>1. CASE e.req \in Requests /\ e.ci = e.req.ci
      BY <3>1 DEF Sent
    <3>2. CASE /\ m.pc = "read" /\ e.req = m.req /\ rec \in CloudData /\ rec # Absent
               /\ e.ci = updateCloudInit(rec, Given(m))
      <4>1. m \in Handler /\ m \in State /\ m.req \in Requests /\ m.req.name \in Host
        BY <3>2, OwnState, TargetTyped DEF Changing
      <4>2. e.ci.phone \in {rec.phone, m.req.ci.phone}
        BY <3>2, <4>1, GivenTyped, UpdateTyped
      <4>3. rec.phone \in Sent(m.req.name)
        BY <3>2, <4>1 DEF PhoneInv, PhonesStored
      <4>4. m.req.ci.phone \in Sent(m.req.name)
        BY <4>1 DEF Sent
      <4>. QED  BY <3>2, <4>2, <4>3, <4>4
    <3>. QED  BY <1>1, <2>2, <3>1, <3>2, WritesBegin
  <2>3. PhonesStored'
    BY <2>1 DEF PhoneInv, PhonesStored
  <2>4. PhonesWritten'
    BY <1>0, <2>2 DEF PhoneInv, PhonesWritten
  <2>. QED  BY <2>3, <2>4 DEF PhoneInv
<1>2. ASSUME NEW pc \in Changing, NEW rec, Change(c, pc, rec),
             rec # Absent => rec.phone \in Sent(cl[c].req.name)
      PROVE  PhoneInv'
  <2>1. cl'[c].pc # "write"
    BY <1>2, ChangeIs, OwnState, TargetTyped, FinishIs, RefuseTyped
  <2>2. recs' = [recs EXCEPT ![cl[c].req.name] = rec] \/ recs' = recs
    BY <1>2, ChangeIs
  <2>3. PhonesStored'
    BY <1>2, <2>2 DEF PhoneInv, PhonesStored, TypeInv, TypeOK
  <2>4. PhonesWritten'
    BY <1>0, <2>1 DEF PhoneInv, PhonesWritten
  <2>. QED  BY <2>3, <2>4 DEF PhoneInv
<1>3. CASE Write(c)
  <2>1. cl[c].ci.phone \in Sent(cl[c].req.name)
    BY <1>3 DEF Write, Change, PhoneInv, PhonesWritten
  <2>. QED  BY <1>2, <1>3, <2>1 DEF Write, Changing
<1>4. CASE Delete(c)
  BY <1>2, <1>4 DEF Delete, Changing
<1>. QED  BY <1>1, <1>3, <1>4 DEF Step, Quiet

LEMMA PhoneNext == TypeInv /\ PhoneInv /\ [Next]_vars => PhoneInv'
<1> SUFFICES ASSUME TypeInv, PhoneInv, [Next]_vars
             PROVE  PhoneInv'
  OBVIOUS
<1>1. ASSUME recs' = recs, cl' = cl
      PROVE  PhoneInv'
  BY <1>1 DEF PhoneInv, PhonesStored, PhonesWritten
<1>2. CASE TimePasses \/ Discover
  BY <1>1, <1>2 DEF TimePasses, Discover
<1>3. CASE UNCHANGED vars
  BY <1>1, <1>3 DEF vars
<1>. QED  BY <1>2, <1>3, PhoneStep DEF Next

LEMMA PhoneInit == Init => PhoneInv
<1> SUFFICES ASSUME Init
             PROVE  PhoneInv
  OBVIOUS
<1>1. PhonesStored
  <2> SUFFICES ASSUME NEW h \in Host, recs[h] # Absent
               PROVE  recs[h].phone \in Sent(h)
    BY DEF PhonesStored
  <2>1. recs \in StoredBefore
    BY DEF Init
  <2>. QED  BY <2>1 DEF Sent
<1>2. PhonesWritten
  BY RefuseTyped DEF Init, PhonesWritten, Refuse
<1>. QED  BY <1>1, <1>2 DEF PhoneInv

(* Whatever fails and however the handlers interleave, phone-home data is  *)
(* stored only under the name it was sent for: a phone-home that looked up *)
(* the record of its role or the default merges what it read into its own  *)
(* node's record without that record's phone-home data (phoneHomePost,     *)
(* Update).                                                                *)
THEOREM PhonesOwn == Spec => []PhoneIsOwn
<1>1. PhoneInv => PhoneIsOwn
  BY DEF PhoneInv, PhonesStored, PhoneIsOwn, Sent
<1>. QED  BY <1>1, PhoneInit, PhoneNext, AlwaysTyped, PTL DEF Spec

-----------------------------------------------------------------------------
(* The history: a handler takes the second of an access after it began,    *)
(* and the access that it stores stays found until another is stored.      *)

BeganBefore == \A c \in Client : cl[c].began <= clock
StampedSince == \A c \in Client : cl[c].pc = "store" => cl[c].at \in Time /\ cl[c].at >= cl[c].began
AccessInv == BeganBefore /\ StampedSince /\ AccessIsFound

LEMMA RecordedIsFound ==
  ASSUME HistoryOK, HistoryOK', NEW n \in Node, NEW e \in Endpoint, NEW t \in Time, Record(n, e, t)
  PROVE  \A q \in {<<n, e>>, <<n, NoEndpoint>>, <<NoName, NoEndpoint>>} :
           [name |-> n, endpoint |-> e, last |-> t] \in EndpointHistoryGet(q[1], q[2])'
<1> DEFINE a == [name |-> n, endpoint |-> e, last |-> t]
<1>1. n # NoName /\ e # NoEndpoint
  BY HistoryAssumption DEF HistoryAssumption, Endpoint, NoEndpoint
<1>2. CASE useSQL
  <2>1. a \in rows' /\ useSQL' = useSQL
    BY <1>1, <1>2 DEF Record
  <2>2. \A p \in {n, NoName}, f \in {e, NoEndpoint} : a \in SearchEndpointAccesses(p, f)'
    BY <2>1 DEF SearchEndpointAccesses
  <2>. QED  BY <1>2, <2>1, <2>2 DEF EndpointHistoryGet
<1>3. CASE ~useSQL
  <2>1. epochs'[n][e] = t /\ useSQL' = useSQL
    BY <1>3 DEF Record, HistoryOK
  <2>2. a \in Access /\ a.last > 0
    BY HistoryAssumption DEF HistoryAssumption, Access, Time
  <2>3. a \in SearchEndpointAccessed(n, e)'
    BY <1>1, <2>1 DEF SearchEndpointAccessed
  <2>4. a \in SearchEndpointAccessed(n, NoEndpoint)'
    BY <1>1, <2>1, <2>2 DEF SearchEndpointAccessed
  <2>5. a \in SearchEndpointAccessed(NoName, NoEndpoint)'
    BY <1>1, <2>1, <2>2 DEF SearchEndpointAccessed
  <2>. QED  BY <1>3, <2>1, <2>3, <2>4, <2>5 DEF EndpointHistoryGet
<1>. QED  BY <1>2, <1>3

(* A handler that goes on keeps when it began, if it keeps its request.    *)
LEMMA BeganKept ==
  ASSUME TypeInv, NEW c \in Client, Step(c)
  PROVE  cl'[c].began \in {cl[c].began, 0}
<1>0. Refuse.began = 0
  BY NoDataTyped, BlankTyped, HistoryAssumption DEF Refuse, HistoryAssumption
<1>1. CASE Lookup(c)
  BY <1>0, <1>1, LookupIs
<1>2. CASE Try(c)
  BY <1>2, TryIs DEF Kept
<1>3. CASE ReadGlobal(c)
  BY <1>3, ReadGlobalIs DEF Kept
<1>4. CASE Generate(c)
  BY <1>4, GenerateIs DEF Kept
<1>5. CASE ReadRole(c)
  BY <1>5, ReadRoleIs DEF Kept
<1>6. CASE Panic(c)
  BY <1>0, <1>6, PanicIs
<1>7. CASE Script(c)
  BY <1>0, <1>7, ScriptIs
<1>8. CASE Stamp(c)
  BY <1>8, StampIs DEF Kept
<1>9. CASE StoreAccess(c)
  BY <1>9, StoreAccessIs DEF Kept
<1>10. ASSUME cl[c].pc \in Changing, cl'[c] = Finish(cl[c])
       PROVE  cl'[c].began \in {cl[c].began, 0}
  BY <1>0, <1>10, OwnState, TargetTyped, FinishIs
<1>11. CASE ReadRecord(c)
  BY <1>0, <1>10, <1>11, ReadRecordIs DEF Kept, Changing
<1>12. ASSUME NEW pc \in Changing, NEW rec, Change(c, pc, rec)
       PROVE  cl'[c].began \in {cl[c].began, 0}
  BY <1>0, <1>10, <1>12, ChangeIs
<1>13. CASE Write(c) \/ Delete(c)
  BY <1>12, <1>13 DEF Write, Delete, Changing
<1>. QED  BY <1>1, <1>2, <1>3, <1>4, <1>5, <1>6, <1>7, <1>8, <1>9, <1>11, <1>13 DEF Step

(* Only Stamp comes to "store", and script and user-data are only answered *)
(* once their access was stored.                                           *)
LEMMA StoresBegin ==
  ASSUME TypeInv, NEW c \in Client, Begin(c) \/ Step(c)
  PROVE  LET e == cl'[c] IN
         /\ e.pc = "store" => Stamp(c)
         /\ e.pc = "ok" /\ e.req.method \in {"USER", "BOOT"} => StoreAccess(c)
<1> DEFINE e == cl'[c]
<1>0. ASSUME cl[c].pc \in Changing, e = Finish(cl[c])
      PROVE  e.pc # "store" /\ (e.pc = "ok" => e.req.method \notin {"USER", "BOOT"})
  <2>1. cl[c].req.method \in Admin \union {"PHONE"}
    BY <1>0, OwnState DEF Phased
  <2>. QED  BY <1>0, <2>1, OwnState, TargetTyped, FinishIs, RefuseTyped
<1>1. CASE Begin(c)
  BY <1>1, BeginIs
<1>2. CASE Lookup(c)
  BY <1>2, LookupIs, RefuseTyped DEF Onto
<1>3. CASE Try(c)
  BY <1>3, TryIs DEF Onto
<1>4. CASE ReadGlobal(c)
  BY <1>4, ReadGlobalIs
<1>5. CASE Generate(c)
  BY <1>5, GenerateIs DEF Kept
<1>6. CASE ReadRole(c)
  BY <1>6, ReadRoleIs DEF Kept
<1>7. CASE Panic(c)
  BY <1>7, PanicIs, RefuseTyped
<1>8. CASE Script(c)
  BY <1>8, ScriptIs, RefuseTyped
<1>9. CASE Stamp(c)
  BY <1>9, StampIs
<1>10. CASE StoreAccess(c)
  BY <1>10, StoreAccessIs
<1>11. CASE ReadRecord(c)
  BY <1>0, <1>11, ReadRecordIs, RefuseTyped DEF Changing
<1>12. ASSUME NEW pc \in Changing, NEW rec, Change(c, pc, rec)
       PROVE  e.pc # "store" /\ (e.pc = "ok" => e.req.method \notin {"USER", "BOOT"})
  BY <1>0, <1>12, ChangeIs, RefuseTyped
<1>13. CASE Write(c) \/ Delete(c)
  BY <1>12, <1>13 DEF Write, Delete, Changing
<1>. QED  BY <1>1, <1>2, <1>3, <1>4, <1>5, <1>6, <1>7, <1>8, <1>9, <1>10, <1>11, <1>13 DEF Step

(* The history changes only with an access that is stored.                 *)
LEMMA HistoryKept ==
  ASSUME NEW c \in Client, Begin(c) \/ Step(c)
  PROVE  /\ ~StoreAccess(c) => UNCHANGED historyVars
         /\ clock' = clock
         /\ UNCHANGED faults \/ Fault
<1>1. CASE Begin(c) \/ Lookup(c) \/ Generate(c) \/ Panic(c) \/ Script(c) \/ Stamp(c)
  BY <1>1 DEF Begin, Lookup, Generate, Panic, Script, Stamp, historyVars
<1>2. CASE Try(c)
  BY <1>2 DEF Try, historyVars
<1>3. CASE ReadGlobal(c)
  BY <1>3 DEF ReadGlobal, historyVars
<1>4. CASE ReadRole(c)
  BY <1>4 DEF ReadRole, historyVars
<1>5. CASE ReadRecord(c)
  BY <1>5 DEF ReadRecord, historyVars
<1>6. CASE StoreAccess(c)
  BY <1>6 DEF StoreAccess, Record, historyVars
<1>7. CASE Write(c) \/ Delete(c)
  BY <1>7 DEF Write, Delete, Change, historyVars
<1>. QED  BY <1>1, <1>2, <1>3, <1>4, <1>5, <1>6, <1>7 DEF Step

(* A handler that is alone after a step of another was so before, and that *)
(* step was quiet and did not store an access.                             *)
LEMMA AloneKept ==
  ASSUME TypeInv, NEW c \in Client, Begin(c) \/ Step(c), NEW d \in Alone'
  PROVE  /\ faults = 0 /\ faults' = faults
         /\ d # c => d \in Alone /\ Quiet(c) /\ ~StoreAccess(c)
<1>0. faults \in Nat
  BY CloudAssumption DEF TypeInv, TypeOK, CloudAssumption
<1>1. faults' = 0 /\ d \in calm' /\ d \in Client
  BY DEF Alone
<1>2. faults = 0 /\ ~Fault /\ faults' = faults
  BY <1>0, <1>1, HistoryKept DEF Fault
<1>3. ASSUME d # c
      PROVE  d \in Alone /\ Quiet(c) /\ ~StoreAccess(c)
  <2>1. ~Disturb(c)
    BY <1>1, <1>3 DEF Disturb
  <2>2. ~StoreAccess(c)
    BY <1>2, <2>1 DEF StoreAccess
  <2>3. ~Write(c) /\ ~Delete(c)
    BY <1>2, <2>1 DEF Write, Delete, Change
  <2>4. Quiet(c)
    BY <2>3 DEF Step, Quiet
  <2>5. calm' = calm \/ calm' = calm \union {c}
    <3>1. CASE Begin(c) \/ Lookup(c) \/ Generate(c) \/ Panic(c) \/ Script(c) \/ Stamp(c)
      BY <3>1 DEF Begin, Lookup, Generate, Panic, Script, Stamp
    <3>2. CASE Try(c)
      BY <3>2 DEF Try
    <3>3. CASE ReadGlobal(c)
      BY <3>3 DEF ReadGlobal
    <3>4. CASE ReadRole(c)
      BY <3>4 DEF ReadRole
    <3>5. CASE ReadRecord(c)
      BY <3>5 DEF ReadRecord
    <3>. QED  BY <2>2, <2>4, <3>1, <3>2, <3>3, <3>4, <3>5 DEF Quiet
  <2>. QED  BY <1>1, <1>2, <1>3, <2>2, <2>4, <2>5 DEF Alone
<1>. QED  BY <1>2, <1>3

(* A handler's access, as a state predicate of the history.                *)
FoundIn(m) ==
  LET e == IF m.req.method = "BOOT" THEN "bootscript" ELSE "user-data"
  IN  m.pc = "ok" /\ m.req.method \in {"BOOT", "USER"} /\ m.name # NoName =>
        \A q \in {<<m.name, e>>, <<m.name, NoEndpoint>>, <<NoName, NoEndpoint>>} :
          \E a \in EndpointHistoryGet(q[1], q[2]) :
            a.name = m.name /\ a.endpoint = e /\ a.last >= m.began

LEMMA AccessIsFoundIn == AccessIsFound <=> \A c \in Alone : FoundIn(cl[c])
BY DEF AccessIsFound, FoundIn

LEMMA AccessIsFoundNext == AccessIsFound' <=> (\A c \in Alone : FoundIn(cl[c]))'
BY AccessIsFoundIn, PTL

LEMMA SearchesKept ==
  ASSUME UNCHANGED <<useSQL, epochs, rows>>
  PROVE  \A p, f : EndpointHistoryGet(p, f)' = EndpointHistoryGet(p, f)
BY DEF EndpointHistoryGet, SearchEndpointAccessed, SearchEndpointAccesses

LEMMA FoundAgain ==
  ASSUME UNCHANGED <<useSQL, epochs, rows>>, NEW c \in Client, FoundIn(cl[c]), cl'[c] = cl[c]
  PROVE  FoundIn(cl[c])'
BY SearchesKept DEF FoundIn

LEMMA AccessStep ==
  ASSUME TypeInv, TypeInv', AccessInv, NEW c \in Client, Begin(c) \/ Step(c)
  PROVE  AccessInv'
<1>0. /\ \A d \in Client : d # c => cl'[d] = cl[d]
      /\ clock' = clock /\ clock \in Time /\ Time \subseteq Nat /\ 0 <= clock
  BY StepMoves, BecomeIs, HistoryKept, HistoryAssumption
  DEF TypeInv, TypeOK, HistoryOK, Time, HistoryAssumption
<1>1. BeganBefore'
  <2>1. cl'[c].began <= clock
    <3>1. cl[c].began <= clock
      BY DEF AccessInv, BeganBefore
    <3>2. CASE Begin(c)
      BY <1>0, <3>2, BeginIs
    <3>3. CASE Step(c)
      BY <1>0, <3>1, <3>3, BeganKept
    <3>. QED  BY <3>2, <3>3
  <2>. QED  BY <1>0, <2>1 DEF AccessInv, BeganBefore
<1>2. StampedSince'
  <2>1. ASSUME cl'[c].pc = "store"
        PROVE  cl'[c].at \in Time /\ cl'[c].at >= cl'[c].began
    <3>1. Stamp(c)
      BY <2>1, StoresBegin
    <3>2. cl'[c].at = clock /\ cl'[c].began = cl[c].began /\ cl[c].began <= clock
      BY <3>1, StampIs DEF Kept, AccessInv, BeganBefore
    <3>3. cl[c].began \in Nat /\ clock \in Nat
      BY <1>0, OwnState, HistoryAssumption DEF State, HistoryAssumption
    <3>. QED  BY <1>0, <3>2, <3>3
  <2>. QED  BY <1>0, <2>1 DEF AccessInv, StampedSince
<1>3. ASSUME NEW d \in Alone'
      PROVE  FoundIn(cl[d])'
  <2>0. d \in Client
    BY DEF Alone
  <2>1. CASE d # c
    <3>1. d \in Alone /\ UNCHANGED historyVars
      BY <2>1, AloneKept, HistoryKept
    <3>. QED  BY <1>0, <2>0, <2>1, <3>1, AccessIsFoundIn, FoundAgain DEF AccessInv, historyVars
  <2>2. CASE d = c /\ StoreAccess(c)
    <3> DEFINE m == cl[c]
               e == Accessed(m)
    <3>1. Record(m.name, e, m.at)
      BY <2>2, AloneKept, CloudAssumption DEF StoreAccess, Fault, CloudAssumption, TypeInv, TypeOK
    <3>2. /\ m.pc = "store" /\ m.at \in Time /\ m.at >= m.began /\ Kept(m, cl'[c])
          /\ m \in State /\ m.req.method \in {"USER", "BOOT"}
      BY <2>2, StoreAccessIs, OwnState DEF AccessInv, StampedSince
    <3>3. /\ e \in Endpoint /\ e = (IF m.req.method = "BOOT" THEN "bootscript" ELSE "user-data")
      BY DEF Accessed, Endpoint
    <3>4. ASSUME m.name # NoName
          PROVE  \A q \in {<<m.name, e>>, <<m.name, NoEndpoint>>, <<NoName, NoEndpoint>>} :
                   [name |-> m.name, endpoint |-> e, last |-> m.at]
                     \in EndpointHistoryGet(q[1], q[2])'
      BY <3>1, <3>2, <3>3, <3>4, RecordedIsFound DEF State, TypeInv, TypeOK
    <3> HIDE DEF e
    <3>. QED  BY <2>2, <3>2, <3>3, <3>4 DEF FoundIn, Kept
  <2>3. CASE d = c /\ ~StoreAccess(c)
    BY <2>3, StoresBegin DEF FoundIn
  <2>. QED  BY <2>1, <2>2, <2>3
<1>4. AccessIsFound'
  BY <1>3, AccessIsFoundNext
<1>. QED  BY <1>1, <1>2, <1>4 DEF AccessInv

LEMMA AccessNext == TypeInv /\ TypeInv' /\ AccessInv /\ [Next]_vars => AccessInv'
<1> SUFFICES ASSUME TypeInv, TypeInv', AccessInv, [Next]_vars
             PROVE  AccessInv'
  OBVIOUS
<1>1. ASSUME UNCHANGED <<useSQL, epochs, rows, cl>>, clock' \in Nat, clock' >= clock, Alone' \subseteq Alone
      PROVE  AccessInv'
  <2>1. BeganBefore'
    <3>1. clock \in Nat /\ \A c \in Client : cl[c].began \in Nat
      BY OwnState, HistoryAssumption
      DEF State, TypeInv, TypeOK, HistoryOK, Time, HistoryAssumption
    <3>. QED  BY <1>1, <3>1 DEF AccessInv, BeganBefore
  <2>2. StampedSince'
    BY <1>1 DEF AccessInv, StampedSince
  <2>3. \A c \in Alone' : FoundIn(cl[c])'
    BY <1>1, FoundAgain, AccessIsFoundIn DEF AccessInv, Alone
  <2>. QED  BY <2>1, <2>2, <2>3, AccessIsFoundNext DEF AccessInv
<1>2. CASE TimePasses
  BY <1>1, <1>2, HistoryAssumption
  DEF TimePasses, Tick, Alone, HistoryAssumption, TypeInv, TypeOK, HistoryOK, Time
<1>3. CASE Discover
  BY <1>1, <1>3, HistoryAssumption
  DEF Discover, historyVars, Alone, HistoryAssumption, TypeInv, TypeOK, HistoryOK, Time
<1>4. CASE UNCHANGED vars
  BY <1>1, <1>4, HistoryAssumption
  DEF vars, historyVars, Alone, HistoryAssumption, TypeInv, TypeOK, HistoryOK, Time
<1>. QED  BY <1>2, <1>3, <1>4, AccessStep DEF Next

LEMMA AccessInit == Init => AccessInv
<1> SUFFICES ASSUME Init
             PROVE  AccessInv
  OBVIOUS
<1>1. Refuse.pc = "idle" /\ Refuse.began = 0
  BY NoDataTyped, BlankTyped, HistoryAssumption DEF Refuse, HistoryAssumption
<1>. QED  BY <1>1
          DEF Init, HistoryInit, Refuse, AccessInv, BeganBefore, StampedSince, AccessIsFound, Alone

(* A node that got its script or its user-data, and beside which nothing   *)
(* failed and nobody changed anything, is found in the history by name and *)
(* endpoint, by name and without either, whichever backend is in use, with *)
(* a second that is not before the one in which it asked                   *)
(* (updateEndpointAccessed, SearchEndpointAccessed, endpointHistoryGet).   *)
THEOREM AccessFound == Spec => []AccessIsFound
<1>1. AccessInv => AccessIsFound
  BY DEF AccessInv
<1>. QED  BY <1>1, AccessInit, AccessNext, AlwaysTyped, PTL DEF Spec

-----------------------------------------------------------------------------
(* What a handler that was alone has come to.  While it looks for the data *)
(* of its node, no record ahead of those it has yet to try exists; then it *)
(* holds the node's data as of now, and what it serves is what the node    *)
(* should see.  A phone-home is about to merge the node's record with      *)
(* itself, but for the phone-home data.                                    *)

HasRole(x) == x \in known /\ Role[x] # None

Ahead(chain, x) ==
  \/ x # NoName /\ HasRole(x) /\ chain = <<x, Role[x], Default>>
  \/ x # NoName /\ ~HasRole(x) /\ chain = <<x, Default>>
  \/ x # NoName /\ HasRole(x) /\ chain = <<Role[x], Default>> /\ recs[x] = Absent
  \/ /\ chain = <<Default>> /\ (x # NoName => recs[x] = Absent)
     /\ HasRole(x) => recs[Role[x]] = Absent

MetaOf(n) == generateMetaData(n, Own(n).meta, located \intersect known)

PhoneMerge(rec, phone) == updateCloudInit(rec, [rec EXCEPT !.phone = phone])

Course(m) ==
  LET n == m.req.name
      method == m.req.method
  IN  /\ m.pc \in {"lookup", "try", "global", "generate"} => m.role = NoData
      /\ m.pc \in {"try", "global", "generate"} => m.name = Found(n)
      /\ m.pc = "try" => Ahead(m.chain, Found(n))
      /\ m.pc \in {"global", "generate"} => m.ci = Own(n)
      /\ m.pc = "role" => m.ci = [Own(n) EXCEPT !.meta = MetaOf(n)]
      /\ m.pc \in {"generate", "role", "ok"} /\ method = "META" /\ recs[Global] # Absent =>
           m.global = recs[Global].meta
      /\ m.pc \in {"stamp", "store", "ok"} /\ method \in {"META", "USER"} =>
           m.out = ShouldSee(n, method)
      /\ m.pc = "read" /\ method = "PHONE" => n \in located /\ m.ci = Own(n)
      /\ m.pc = "write" /\ method = "PHONE" =>
           recs[n] # Absent /\ m.ci = PhoneMerge(recs[n], m.req.ci.phone)

Courses == \A c \in Alone : Course(cl[c])

(* With Postgres there are no records, and nobody tries or changes one.    *)
NoRecords ==
  useSQL => /\ \A h \in Host : recs[h] = Absent
            /\ \A c \in Client : /\ cl[c].pc \notin Changing \union {"try"}
                                 /\ cl[c].pc = "lookup" => cl[c].req.method # "PHONE"

CourseInv == NoRecords /\ Courses

LEMMA OwnTyped ==
  ASSUME TypeInv, NEW n \in Node
  PROVE  Own(n) \in CloudData /\ recs[n] \in CloudData \union {Absent}
<1>1. \A h \in Host : recs[h] \in CloudData \union {Absent}
  BY DEF TypeInv, TypeOK
<1>2. n \in Host /\ Default \in Host
  BY CloudAssumption DEF CloudAssumption
<1>3. Role[n] \in Host \union {None} /\ None \notin Host
  BY CloudAssumption DEF CloudAssumption
<1>4. Stored(Role[n]) # Absent => Role[n] \in Host
  BY DEF Stored
<1>. QED  BY <1>1, <1>2, <1>4, NoDataTyped DEF Own, Stored

LEMMA TwoJoined ==
  ASSUME NEW a, NEW b
  PROVE  <<a>> \o <<b>> = <<a, b>>
<1> DEFINE S == {a, b}
           s == <<a>> \o <<b>>
           t == <<a, b>>
<1>1. s \in Seq(S) /\ Len(s) = 2 /\ s[1] = a /\ s[2] = b
  <2>1. /\ <<a>> \in Seq(S) /\ <<b>> \in Seq(S)
        /\ Len(<<a>>) = 1 /\ Len(<<b>>) = 1
    OBVIOUS
  <2>. QED  BY <2>1
<1>2. t \in Seq(S) /\ Len(t) = 2 /\ t[1] = a /\ t[2] = b
  OBVIOUS
<1> HIDE DEF s, t
<1>3. Len(s) = Len(t) /\ \A i \in 1 .. Len(s) : s[i] = t[i]
  BY <1>1, <1>2
<1>4. s = t
  BY <1>1, <1>2, <1>3, SeqEqual
<1>. QED  BY <1>4 DEF s, t

LEMMA ThreeJoined ==
  ASSUME NEW a, NEW b, NEW d
  PROVE  <<a, b>> \o <<d>> = <<a, b, d>>
<1> DEFINE S == {a, b, d}
           s == <<a, b>> \o <<d>>
           t == <<a, b, d>>
<1>1. s \in Seq(S) /\ Len(s) = 3 /\ s[1] = a /\ s[2] = b /\ s[3] = d
  <2>1. /\ <<a, b>> \in Seq(S) /\ <<d>> \in Seq(S)
        /\ Len(<<a, b>>) = 2 /\ Len(<<d>>) = 1
    OBVIOUS
  <2>. QED  BY <2>1
<1>2. t \in Seq(S) /\ Len(t) = 3 /\ t[1] = a /\ t[2] = b /\ t[3] = d
  OBVIOUS
<1> HIDE DEF s, t
<1>3. Len(s) = Len(t) /\ \A i \in 1 .. Len(s) : s[i] = t[i]
  BY <1>1, <1>2
<1>4. s = t
  BY <1>1, <1>2, <1>3, SeqEqual
<1>. QED  BY <1>4 DEF s, t

(* The records that are tried, one by one.                                 *)
LEMMA TriesAre ==
  ASSUME NEW x
  PROVE  Ahead(Tries(x), x) \/ (x = NoName /\ HasRole(x))
<1> DEFINE s == Tries(x)
           r == IF x \in known /\ Role[x] # None THEN <<Role[x]>> ELSE <<>>
<1>1. CASE x = NoName /\ ~HasRole(x)
  <2>1. s = (<<>> \o <<>>) \o <<Default>>
    BY <1>1, Zenon DEF Tries, HasRole
  <2>2. s = <<Default>>
    BY <2>1
  <2>. QED  BY <1>1, <2>2 DEF Ahead
<1>2. CASE x # NoName /\ HasRole(x)
  <2>1. s = (<<x>> \o <<Role[x]>>) \o <<Default>>
    BY <1>2, Zenon DEF Tries, HasRole
  <2>2. <<x>> \o <<Role[x]>> = <<x, Role[x]>>
    BY TwoJoined
  <2>3. <<x, Role[x]>> \o <<Default>> = <<x, Role[x], Default>>
    BY ThreeJoined
  <2>. QED  BY <1>2, <2>1, <2>2, <2>3 DEF Ahead
<1>3. CASE x # NoName /\ ~HasRole(x)
  <2>1. s = (<<x>> \o <<>>) \o <<Default>>
    BY <1>3, Zenon DEF Tries, HasRole
  <2>2. <<x>> \in Seq({x})
    OBVIOUS
  <2>3. <<x>> \o <<>> = <<x>>
    BY <2>2, ConcatEmptySeq
  <2>4. <<x>> \o <<Default>> = <<x, Default>>
    BY TwoJoined
  <2>. QED  BY <1>3, <2>1, <2>3, <2>4 DEF Ahead
<1>. QED  BY <1>1, <1>2, <1>3

LEMMA OwnByRole ==
  ASSUME TypeInv, NEW n \in Node
  PROVE  /\ n \in located /\ recs[n] # Absent => Own(n) = recs[n]
         /\ n \in located /\ recs[n] = Absent /\ HasRole(n) /\ recs[Role[n]] # Absent =>
              Own(n) = recs[Role[n]]
         /\ (n \in located => recs[n] = Absent /\ (HasRole(n) => recs[Role[n]] = Absent)) =>
              Own(n) = IF recs[Default] = Absent THEN NoCloudData ELSE recs[Default]
<1>1. HasRole(n) => Role[n] \in Host
  BY CloudAssumption DEF CloudAssumption, HasRole
<1>2. n \in known /\ Stored(Role[n]) # Absent => HasRole(n) /\ recs[Role[n]] # Absent
  BY CloudAssumption DEF CloudAssumption, Stored, HasRole
<1>3. HasRole(n) => n \in known /\ Stored(Role[n]) = recs[Role[n]]
  BY <1>1 DEF HasRole, Stored
<1>. QED  BY <1>2, <1>3 DEF Own

(* One record after the other comes to the node's own data.                *)
LEMMA TriesFindOwn ==
  ASSUME TypeInv, NEW n \in Node, NEW chain, Ahead(chain, Found(n))
  PROVE  LET h == Head(chain) IN
         /\ recs[h] # Absent => recs[h] = Own(n)
         /\ recs[h] = Absent /\ Len(chain) > 1 => Ahead(Tail(chain), Found(n))
         /\ recs[h] = Absent /\ ~(Len(chain) > 1) => Own(n) = NoCloudData
<1> DEFINE x == Found(n)
           h == Head(chain)
<1>0. n # NoName /\ NoName \notin known
  BY HistoryAssumption DEF HistoryAssumption, TypeInv, TypeOK
<1>1. (x # NoName => x = n /\ n \in located) /\ (x = NoName => n \notin located /\ ~HasRole(x))
  BY <1>0 DEF Found, HasRole
<1> HIDE DEF x
<1>2. CASE x # NoName /\ HasRole(x) /\ chain = <<x, Role[x], Default>>
  <2>1. h = x /\ Tail(chain) = <<Role[x], Default>> /\ Len(chain) = 3
    BY <1>2
  <2>. QED  BY <1>1, <1>2, <2>1, OwnByRole DEF Ahead, x
<1>3. CASE x # NoName /\ ~HasRole(x) /\ chain = <<x, Default>>
  <2>1. h = x /\ Tail(chain) = <<Default>> /\ Len(chain) = 2
    BY <1>3
  <2>. QED  BY <1>1, <1>3, <2>1, OwnByRole DEF Ahead, x
<1>4. CASE x # NoName /\ HasRole(x) /\ chain = <<Role[x], Default>> /\ recs[x] = Absent
  <2>1. h = Role[x] /\ Tail(chain) = <<Default>> /\ Len(chain) = 2
    BY <1>4
  <2>. QED  BY <1>1, <1>4, <2>1, OwnByRole DEF Ahead, x
<1>5. CASE /\ chain = <<Default>> /\ (x # NoName => recs[x] = Absent)
           /\ HasRole(x) => recs[Role[x]] = Absent
  <2>1. h = Default /\ Len(chain) = 1
    BY <1>5
  <2>. QED  BY <1>1, <1>5, <2>1, OwnByRole
<1>. QED  BY <1>2, <1>3, <1>4, <1>5 DEF Ahead, x

(* What generateMetaData fills in and the sub-role's data are, for a node  *)
(* that holds its own data, what it should see.                            *)
LEMMA GeneratedIs ==
  ASSUME TypeInv, NEW n \in Node
  PROVE  /\ generateMetaData(Found(n), Own(n).meta, known) = MetaOf(n)
         /\ MetaOf(n) \in Data
<1> DEFINE meta == Own(n).meta
<1>0. n # NoName /\ NoName \notin known
  BY HistoryAssumption DEF HistoryAssumption, TypeInv, TypeOK
<1>1. meta \in Data
  BY OwnTyped DEF CloudData
<1>4. MetaOf(n) \in Data
  <2>1. located \intersect known \in SUBSET Node
    BY DEF TypeInv, TypeOK
  <2>. QED  BY <1>1, <2>1, GenerateTyped DEF MetaOf, meta
<1> HIDE DEF meta
<1>2. CASE n \in located
  <2>1. Found(n) = n /\ (n \in known <=> n \in located \intersect known)
    BY <1>2 DEF Found
  <2> DEFINE filled(k) == CASE k = HostKey -> n
                            [] k = RoleKey -> SubRole[n]
                            [] OTHER -> meta[k]
  <2>2. /\ generateMetaData(n, meta, known) =
             [k \in Key |-> IF ~IsNil(meta[k]) \/ n \notin known THEN meta[k] ELSE filled(k)]
        /\ generateMetaData(n, meta, located \intersect known) =
             [k \in Key |-> IF ~IsNil(meta[k]) \/ n \notin located \intersect known
                            THEN meta[k] ELSE filled(k)]
    BY Zenon DEF generateMetaData
  <2> HIDE DEF filled
  <2>3. generateMetaData(n, meta, known) = generateMetaData(n, meta, located \intersect known)
    BY <2>1, <2>2
  <2>. QED  BY <1>4, <2>1, <2>3 DEF MetaOf, meta
<1>3. CASE n \notin located
  <2>1. Found(n) = NoName /\ NoName \notin known /\ n \notin located \intersect known
    BY <1>0, <1>3 DEF Found
  <2>2. generateMetaData(NoName, meta, known) = [k \in Key |-> meta[k]]
    BY <2>1 DEF generateMetaData
  <2>3. generateMetaData(n, meta, located \intersect known) = [k \in Key |-> meta[k]]
    BY <2>1 DEF generateMetaData
  <2>. QED  BY <1>4, <2>1, <2>2, <2>3 DEF MetaOf, meta
<1>. QED  BY <1>2, <1>3

LEMMA MergedIsSeen ==
  ASSUME TypeInv, NEW n \in Node, NEW m \in State, m.req.method \in {"META", "USER"},
         m.ci = [Own(n) EXCEPT !.meta = MetaOf(n)], m.role = RoleData(m)
  PROVE  Merged(m) = ShouldSee(n, m.req.method)
<1> DEFINE method == m.req.method
           meta == MetaOf(n)
           user == Own(n).user
           sub == Stored(meta[RoleKey])
           mine == IF method = "META" THEN meta ELSE user
           under == IF sub = Absent THEN NoData ELSE Part(sub, method)
           seen == [k \in Key |-> IF mine[k] # None THEN mine[k]
                                  ELSE IF sub # Absent THEN Part(sub, method)[k] ELSE None]
           d == mergeMaps(under, mine)
<1>1. Own(n) \in CloudData /\ meta \in Data /\ user \in Data
  BY OwnTyped, GeneratedIs DEF CloudData
<1>2. m.ci.meta = meta /\ m.ci.user = user
  BY <1>1 DEF CloudData
<1>3. m.role = under /\ Part(m.ci, method) = mine
  BY <1>2 DEF RoleData, Part
<1>4. ShouldSee(n, method) =
        [k \in Key |-> IF method = "USER" /\ k = HostKey /\ IsNil(seen[k]) /\ ~IsNil(meta[k])
                       THEN meta[k] ELSE seen[k]]
  BY Zenon DEF ShouldSee, MetaOf
<1>5. d = seen
  <2>1. d = [k \in Key |-> IF mine[k] = None THEN under[k] ELSE mine[k]]
    BY DEF mergeMaps
  <2>2. \A k \in Key : NoData[k] = None
    BY DEF NoData
  <2> HIDE DEF mine, d
  <2>. QED  BY <2>1, <2>2
<1>6. Merged(m) = IF method = "USER" /\ IsNil(d[HostKey]) /\ ~IsNil(meta[HostKey])
                  THEN [d EXCEPT ![HostKey] = meta[HostKey]] ELSE d
  BY <1>2, <1>3, Zenon DEF Merged
<1>7. seen = [k \in Key |-> seen[k]] /\ HostKey \in Key
  BY CloudAssumption DEF CloudAssumption
<1> HIDE DEF method, meta, mine, sub, under, seen, d
<1>8. CASE method = "USER" /\ IsNil(seen[HostKey]) /\ ~IsNil(meta[HostKey])
  BY <1>4, <1>5, <1>6, <1>7, <1>8 DEF method
<1>9. CASE ~(method = "USER" /\ IsNil(seen[HostKey]) /\ ~IsNil(meta[HostKey]))
  <2>1. [k \in Key |-> IF method = "USER" /\ k = HostKey /\ IsNil(seen[k]) /\ ~IsNil(meta[k])
                       THEN meta[k] ELSE seen[k]] = [k \in Key |-> seen[k]]
    BY <1>9
  <2>2. Merged(m) = d
    BY <1>5, <1>6, <1>9
  <2>. QED  BY <1>4, <1>5, <1>7, <2>1, <2>2 DEF method
<1>. QED  BY <1>8, <1>9

-----------------------------------------------------------------------------
(* What a handler has come to changes with the records, the caches and its *)
(* own steps only.                                                         *)

SeenBy(meta, user, sub, method) ==
  LET mine == IF method = "META" THEN meta ELSE user
      seen == [k \in Key |-> IF mine[k] # None THEN mine[k]
                             ELSE IF sub # Absent THEN Part(sub, method)[k] ELSE None]
  IN  [k \in Key |-> IF method = "USER" /\ k = HostKey /\ IsNil(seen[k]) /\ ~IsNil(meta[k])
                     THEN meta[k] ELSE seen[k]]

LEMMA ShouldSeeIs ==
  \A n, method : ShouldSee(n, method) =
                   SeenBy(MetaOf(n), Own(n).user, Stored(MetaOf(n)[RoleKey]), method)
BY Zenon DEF ShouldSee, SeenBy, MetaOf

LEMMA ShouldSeeIsNext ==
  (\A n, method : ShouldSee(n, method) =
                    SeenBy(MetaOf(n), Own(n).user, Stored(MetaOf(n)[RoleKey]), method))'
BY ShouldSeeIs, PTL

LEMMA SeenLater ==
  ASSUME UNCHANGED <<recs, located, known>>
  PROVE  /\ \A n : Own(n)' = Own(n) /\ Found(n)' = Found(n) /\ MetaOf(n)' = MetaOf(n)
         /\ \A n, method : ShouldSee(n, method)' = ShouldSee(n, method)
         /\ \A chain, x : Ahead(chain, x)' = Ahead(chain, x)
<1>1. \A h : Stored(h)' = Stored(h)
  BY DEF Stored
<1>2. \A n : Own(n)' = Own(n)
  BY <1>1 DEF Own
<1>3. \A n : Found(n)' = Found(n)
  BY DEF Found
<1>4. \A n : MetaOf(n)' = MetaOf(n)
  BY <1>2 DEF MetaOf
<1>5. \A n, method : ShouldSee(n, method)' = ShouldSee(n, method)
  BY <1>1, <1>2, <1>4, ShouldSeeIs, ShouldSeeIsNext
<1>6. \A chain, x : Ahead(chain, x)' = Ahead(chain, x)
  BY DEF Ahead, HasRole
<1>. QED  BY <1>2, <1>3, <1>4, <1>5, <1>6

LEMMA CourseLater ==
  ASSUME UNCHANGED <<recs, located, known>>, NEW c \in Client, NEW e, cl'[c] = e, Course(e)
  PROVE  Course(cl[c])'
BY SeenLater DEF Course, PhoneMerge

LEMMA BeginCourse ==
  ASSUME TypeInv, NEW c \in Client, Begin(c), NEW e, e = cl'[c]
  PROVE  Course(e)
BY BeginIs DEF Course

LEMMA RefuseCourse == Course(Refuse)
BY RefuseTyped DEF Course

LEMMA LookupCourse ==
  ASSUME TypeInv, NoRecords, NEW c \in Client, Course(cl[c]), Lookup(c), NEW e, e = cl'[c]
  PROVE  Course(e)
<1> DEFINE m == cl[c]
           n == m.req.name
<1>1. m.pc = "lookup" /\ m.req.method \in {"META", "USER", "PHONE"} /\ m.req \in Requests
  BY OwnState DEF Lookup, Phased
<1>2. n \in Node
  BY <1>1, RequestsTyped DEF Admin
<1>3. m.role = NoData
  BY <1>1 DEF Course
<1>4. CASE e = Refuse
  BY <1>4, RefuseCourse
<1>5. CASE useSQL /\ e.req = m.req /\ e.name = Found(n) /\ e.role = m.role
           /\ e.pc = Onto(m.req.method) /\ e.ci = NoCloudData
  <2>1. m.req.method # "PHONE" /\ \A h \in Host : recs[h] = Absent
    BY <1>1, <1>5 DEF NoRecords
  <2>2. Own(n) = NoCloudData
    <3>1. n \in Host /\ Default \in Host /\ \A h : Stored(h) = Absent
      BY <1>2, <2>1, CloudAssumption DEF CloudAssumption, Stored
    <3>. QED  BY <2>1, <3>1 DEF Own
  <2>. QED  BY <1>1, <1>3, <1>5, <2>1, <2>2 DEF Course, Onto
<1>6. CASE ~useSQL /\ e.req = m.req /\ e.name = Found(n) /\ e.role = m.role
           /\ e.pc = "try" /\ e.chain = Tries(e.name)
  <2>1. ~HasRole(NoName)
    BY HistoryAssumption DEF HistoryAssumption, TypeInv, TypeOK, HasRole
  <2>2. Ahead(e.chain, Found(n))
    BY <1>6, <2>1, TriesAre
  <2>. QED  BY <1>3, <1>6, <2>2 DEF Course
<1>. QED  BY <1>4, <1>5, <1>6, LookupIs

LEMMA TryCourse ==
  ASSUME TypeInv, NEW c \in Client, Course(cl[c]), Try(c), ~Fault, NEW e, e = cl'[c]
  PROVE  Course(e)
<1> DEFINE m == cl[c]
           n == m.req.name
           h == Head(m.chain)
<1>1. /\ m.pc = "try" /\ m.req.method \in {"META", "USER", "PHONE"} /\ m.req \in Requests
      /\ m.req.method = "PHONE" => m.name = n
  BY OwnState DEF Try, Phased
<1>2. n \in Node /\ n # NoName
  BY <1>1, RequestsTyped, HistoryAssumption DEF Admin, HistoryAssumption
<1>3. m.role = NoData /\ m.name = Found(n) /\ Ahead(m.chain, Found(n))
  BY <1>1 DEF Course
<1>4. m.req.method = "PHONE" => n \in located
  BY <1>1, <1>2, <1>3 DEF Found
<1>5. /\ recs[h] # Absent => recs[h] = Own(n)
      /\ recs[h] = Absent /\ Len(m.chain) > 1 => Ahead(Tail(m.chain), Found(n))
      /\ recs[h] = Absent /\ ~(Len(m.chain) > 1) => Own(n) = NoCloudData
  BY <1>2, <1>3, TriesFindOwn
<1>6. Kept(m, e) /\ e.role = m.role
  BY TryIs
<1>7. \/ e.pc = Onto(m.req.method) /\ e.ci = Own(n)
      \/ e.pc = "try" /\ Ahead(e.chain, Found(n))
  BY <1>5, TryIs
<1>8. CASE e.pc = Onto(m.req.method) /\ e.ci = Own(n)
  BY <1>1, <1>3, <1>4, <1>6, <1>8 DEF Course, Onto, Kept
<1>9. CASE e.pc = "try" /\ Ahead(e.chain, Found(n))
  BY <1>3, <1>6, <1>9 DEF Course, Kept
<1>. QED  BY <1>7, <1>8, <1>9

LEMMA ReadGlobalCourse ==
  ASSUME TypeInv, NEW c \in Client, Course(cl[c]), ReadGlobal(c), ~Fault, NEW e, e = cl'[c]
  PROVE  Course(e)
<1>1. /\ cl[c].pc = "global" /\ Kept(cl[c], e) /\ e.pc = "generate" /\ e.ci = cl[c].ci
      /\ e.role = cl[c].role
      /\ e.global = (IF recs[Global] = Absent THEN NoData ELSE recs[Global].meta)
  BY ReadGlobalIs
<1>. QED  BY <1>1 DEF Course, Kept

LEMMA GenerateCourse ==
  ASSUME TypeInv, NEW c \in Client, Course(cl[c]), Generate(c), NEW e, e = cl'[c]
  PROVE  Course(e)
<1> DEFINE m == cl[c]
           n == m.req.name
           meta == generateMetaData(m.name, m.ci.meta, known)
           k == [m EXCEPT !.ci.meta = meta]
<1>1. m.pc = "generate" /\ m.req.method \in {"META", "USER"} /\ m.req \in Requests /\ m \in State
  BY OwnState DEF Generate, Phased, Serving
<1>2. n \in Node
  BY <1>1, RequestsTyped DEF Admin
<1>3. m.role = NoData /\ m.name = Found(n) /\ m.ci = Own(n)
  BY <1>1 DEF Course
<1>4. meta = MetaOf(n) /\ meta \in Data
  BY <1>2, <1>3, GeneratedIs
<1>5. /\ Kept(m, e) /\ e.global = m.global
      /\ IF IsNil(meta[RoleKey])
         THEN e.pc = (IF m.req.method = "META" THEN "ok" ELSE "stamp") /\ e.out = Merged(k)
         ELSE e.pc = "role" /\ e.ci = [m.ci EXCEPT !.meta = meta] /\ e.role = m.role
  BY GenerateIs
<1>6. m.req.method = "META" /\ recs[Global] # Absent => m.global = recs[Global].meta
  BY <1>1 DEF Course
<1> HIDE DEF meta
<1>7. CASE IsNil(meta[RoleKey])
  <2>1. Stored(meta[RoleKey]) = Absent
    BY <1>7, CloudAssumption DEF IsNil, Stored, CloudAssumption
  <2>2. k.ci = [m.ci EXCEPT !.meta = meta] /\ k.ci.meta = meta /\ k.req = m.req /\ k.role = m.role
    BY <1>1, <1>4 DEF State, CloudData
  <2>3. k \in State
    BY <1>1, <1>4 DEF State, CloudData
  <2> HIDE DEF k
  <2>4. RoleData(k) = NoData
    BY <2>1, <2>2 DEF RoleData
  <2>5. Merged(k) = ShouldSee(n, m.req.method)
    BY <1>1, <1>2, <1>3, <1>4, <2>2, <2>3, <2>4, MergedIsSeen
  <2>. QED  BY <1>1, <1>5, <1>6, <1>7, <2>5 DEF Course, Kept
<1>8. CASE ~IsNil(meta[RoleKey])
  BY <1>3, <1>4, <1>5, <1>6, <1>8 DEF Course, Kept
<1>. QED  BY <1>7, <1>8

LEMMA ReadRoleCourse ==
  ASSUME TypeInv, NEW c \in Client, Course(cl[c]), ReadRole(c), ~Fault, NEW e, e = cl'[c]
  PROVE  Course(e)
<1> DEFINE m == cl[c]
           n == m.req.name
           data == RoleData(m)
           k == [m EXCEPT !.role = data]
<1>1. m.pc = "role" /\ m.req.method \in {"META", "USER"} /\ m.req \in Requests /\ m \in State
  BY OwnState DEF ReadRole, Phased, Serving
<1>2. n \in Node
  BY <1>1, RequestsTyped DEF Admin
<1>3. m.ci = [Own(n) EXCEPT !.meta = MetaOf(n)]
  BY <1>1 DEF Course
<1>4. /\ Kept(m, e) /\ e.global = m.global /\ e.out = Merged(k)
      /\ e.pc = (IF m.req.method = "META" THEN "ok" ELSE "stamp")
  BY ReadRoleIs
<1>5. m.req.method = "META" /\ recs[Global] # Absent => m.global = recs[Global].meta
  BY <1>1 DEF Course
<1>6. data \in Data
  BY NoDataTyped, PartTyped DEF TypeInv, TypeOK, RoleData, Stored
<1> HIDE DEF data
<1>7. k \in State /\ k.ci = m.ci /\ k.req = m.req /\ k.role = data
  BY <1>1, <1>6 DEF State
<1> HIDE DEF k
<1>8. RoleData(k) = data
  BY <1>7 DEF RoleData, data
<1>9. Merged(k) = ShouldSee(n, m.req.method)
  BY <1>1, <1>2, <1>3, <1>7, <1>8, MergedIsSeen
<1>. QED  BY <1>1, <1>4, <1>5, <1>9 DEF Course, Kept, k, data

LEMMA RecordingCourse ==
  ASSUME TypeInv, NEW c \in Client, Course(cl[c]), Script(c) \/ Stamp(c) \/ StoreAccess(c),
         NEW e, e = cl'[c]
  PROVE  Course(e)
<1>1. CASE Script(c)
  <2>1. cl[c].req.method = "BOOT"
    BY <1>1, OwnState DEF Script, Phased
  <2>. QED  BY <1>1, <2>1, ScriptIs, RefuseCourse DEF Course
<1>2. CASE Stamp(c)
  BY <1>2, StampIs DEF Course, Kept
<1>3. CASE StoreAccess(c)
  BY <1>3, StoreAccessIs DEF Course, Kept
<1>. QED  BY <1>1, <1>2, <1>3

(* An administrator's request is forgotten, a phone-home only answered.    *)
LEMMA FinishedChange ==
  ASSUME NEW m \in Handler, m.pc \in Changing, NEW e, e = Finish(m)
  PROVE  e = Refuse \/ (e.pc = "ok" /\ e.req = m.req /\ e.req.method = "PHONE")
<1>1. m \in State /\ m.req \in Requests /\ m.req.method \in Admin \union {"PHONE"}
  BY DEF Handler, Phased, Changing
<1>. QED  BY <1>1, FinishIs

LEMMA ReadRecordCourse ==
  ASSUME TypeInv, NEW c \in Client, Course(cl[c]), ReadRecord(c), NEW e, e = cl'[c]
  PROVE  Course(e)
<1> DEFINE m == cl[c]
           n == m.req.name
           rec == recs[n]
<1>1. m \in Handler /\ m.pc = "read" /\ m.pc \in Changing
  BY OwnState DEF ReadRecord, Changing
<1>2. CASE e = Refuse
  BY <1>2, RefuseCourse
<1>3. CASE e = Finish(m)
  BY <1>1, <1>3, FinishedChange, RefuseCourse DEF Course
<1>4. CASE /\ Kept(m, e) /\ rec # Absent
           /\ IF m.req.method = "DELETE" THEN e.pc = "delete"
              ELSE e.pc = "write" /\ e.ci = updateCloudInit(rec, Given(m))
  <2>1. ASSUME m.req.method = "PHONE"
        PROVE  e.ci = PhoneMerge(rec, m.req.ci.phone)
    <3>1. n \in located /\ m.ci = Own(n)
      BY <1>1, <2>1 DEF Course
    <3>2. m.ci = rec
      BY <1>4, <3>1 DEF Own
    <3>3. Given(m) = [rec EXCEPT !.phone = m.req.ci.phone]
      BY <2>1, <3>2 DEF Given
    <3>. QED  BY <1>4, <2>1, <3>3 DEF PhoneMerge
  <2>. QED  BY <1>4, <2>1 DEF Course, Kept
<1>. QED  BY <1>2, <1>3, <1>4, ReadRecordIs

LEMMA ChangeCourse ==
  ASSUME TypeInv, NEW c \in Client, Write(c) \/ Delete(c)
  PROVE  Course(cl[c])'
<1>1. ASSUME NEW pc \in Changing, NEW rec, Change(c, pc, rec)
      PROVE  cl'[c] = Refuse \/ (cl'[c].pc = "ok" /\ cl'[c].req.method = "PHONE")
  <2>1. cl[c] \in Handler /\ cl[c].pc \in Changing
    BY <1>1, OwnState DEF Change
  <2>. QED  BY <1>1, <2>1, ChangeIs, FinishedChange
<1>2. cl'[c] = Refuse \/ (cl'[c].pc = "ok" /\ cl'[c].req.method = "PHONE")
  BY <1>1 DEF Write, Delete, Changing
<1>. QED  BY <1>2, RefuseTyped DEF Course

(* A step that touches no record, of a handler with which nothing failed.  *)
LEMMA QuietCourse ==
  ASSUME TypeInv, NoRecords, NEW c \in Client, Quiet(c), ~Begin(c) => Course(cl[c]), ~Fault
  PROVE  Course(cl[c])'
<1> SUFFICES ASSUME NEW e, e = cl'[c]
             PROVE  Course(e)
  <2>1. UNCHANGED <<recs, located, known>>
    <3>1. Begin(c) \/ Step(c)
      BY DEF Quiet, Step
    <3>. QED  BY <3>1, QuietKeeps, StepMoves
  <2>. QED  BY <2>1, CourseLater
<1>1. CASE Begin(c)
  BY <1>1, BeginCourse
<1>2. CASE ~Begin(c) /\ Panic(c)
  BY <1>2, PanicIs, RefuseCourse
<1>. QED  BY <1>1, <1>2, LookupCourse, TryCourse, ReadGlobalCourse, GenerateCourse, ReadRoleCourse,
             RecordingCourse, ReadRecordCourse DEF Quiet

LEMMA NoRecordsStep ==
  ASSUME TypeInv, NoRecords, NEW c \in Client, Begin(c) \/ Step(c)
  PROVE  NoRecords'
<1>0. \A d \in Client : d # c => cl'[d] = cl[d]
  BY StepMoves, BecomeIs
<1>1. useSQL' = useSQL
  <2>1. CASE StoreAccess(c)
    BY <2>1 DEF StoreAccess, Record, historyVars
  <2>2. CASE ~StoreAccess(c)
    BY <2>2, HistoryKept DEF historyVars
  <2>. QED  BY <2>1, <2>2
<1> SUFFICES ASSUME useSQL
             PROVE  NoRecords'
  BY <1>1 DEF NoRecords
<1>2. cl[c].pc \notin Changing \union {"try"} /\ (cl[c].pc = "lookup" => cl[c].req.method # "PHONE")
  BY DEF NoRecords
<1>3. ~Try(c) /\ ~ReadRecord(c) /\ ~Write(c) /\ ~Delete(c)
  BY <1>2 DEF Try, ReadRecord, Write, Delete, Change, Changing
<1>4. ~ReadGlobal(c) /\ ~ReadRole(c)
  BY DEF ReadGlobal, ReadRole
<1>5. recs' = recs
  BY <1>3, QuietKeeps DEF Step, Quiet
<1>6. /\ cl'[c].pc \notin Changing \union {"try"}
      /\ cl'[c].pc = "lookup" => cl'[c].req.method # "PHONE"
  <2>1. CASE Begin(c)
    BY <2>1, BeginIs DEF Changing
  <2>2. CASE Lookup(c)
    <3>1. cl[c].req.method \in {"META", "USER"}
      BY <1>2, <2>2, OwnState DEF Lookup, Phased
    <3>. QED  BY <2>2, <3>1, LookupIs, RefuseTyped DEF Changing, Onto
  <2>3. CASE Generate(c)
    BY <2>3, GenerateIs DEF Changing
  <2>4. CASE Panic(c)
    BY <2>4, PanicIs, RefuseTyped DEF Changing
  <2>5. CASE Script(c) \/ Stamp(c) \/ StoreAccess(c)
    BY <2>5, ScriptIs, StampIs, StoreAccessIs, RefuseTyped DEF Changing
  <2>. QED  BY <1>3, <1>4, <2>1, <2>2, <2>3, <2>4, <2>5 DEF Step
<1>. QED  BY <1>0, <1>1, <1>5, <1>6 DEF NoRecords

(* The handler that takes the step is alone after it if it was so before,  *)
(* or if it began with it.                                                 *)
LEMMA AloneStill ==
  ASSUME TypeInv, NEW c \in Client, Begin(c) \/ Step(c), c \in Alone', ~Begin(c)
  PROVE  c \in Alone
<1>1. faults = 0 /\ c \in calm'
  BY AloneKept DEF Alone
<1>2. UNCHANGED calm \/ Disturb(c)
  <2>1. CASE Lookup(c) \/ Generate(c) \/ Panic(c) \/ Script(c) \/ Stamp(c) \/ StoreAccess(c)
    BY <2>1 DEF Lookup, Generate, Panic, Script, Stamp, StoreAccess
  <2>2. CASE Try(c)
    BY <2>2 DEF Try
  <2>3. CASE ReadGlobal(c)
    BY <2>3 DEF ReadGlobal
  <2>4. CASE ReadRole(c)
    BY <2>4 DEF ReadRole
  <2>5. CASE ReadRecord(c)
    BY <2>5 DEF ReadRecord
  <2>6. CASE Write(c) \/ Delete(c)
    BY <2>6 DEF Write, Delete, Change
  <2>. QED  BY <2>1, <2>2, <2>3, <2>4, <2>5, <2>6 DEF Step
<1>. QED  BY <1>1, <1>2 DEF Alone, Disturb

LEMMA CoursesStep ==
  ASSUME TypeInv, CourseInv, NEW c \in Client, Begin(c) \/ Step(c)
  PROVE  \A d \in Alone' : Course(cl[d])'
<1> SUFFICES ASSUME NEW d \in Alone'
             PROVE  Course(cl[d])'
  OBVIOUS
<1>0. d \in Client /\ faults = 0 /\ faults' = faults
  BY AloneKept DEF Alone
<1>1. ~Fault
  BY <1>0 DEF Fault
<1>2. CASE d # c
  <2>1. d \in Alone /\ Quiet(c)
    BY <1>2, AloneKept
  <2>2. UNCHANGED <<recs, located, known>>
    BY <2>1, QuietKeeps, StepMoves
  <2>3. cl'[d] = cl[d]
    BY <1>0, <1>2, StepMoves, BecomeIs
  <2>4. Course(cl[d])
    BY <2>1 DEF CourseInv, Courses
  <2>. QED  BY <1>0, <2>2, <2>3, <2>4, CourseLater
<1>3. CASE d = c /\ Quiet(c)
  <2>1. ~Begin(c) => Course(cl[c])
    BY <1>3, AloneStill DEF CourseInv, Courses
  <2>. QED  BY <1>1, <1>3, <2>1, QuietCourse DEF CourseInv
<1>4. CASE d = c /\ ~Quiet(c)
  BY <1>4, ChangeCourse DEF Quiet, Step
<1>. QED  BY <1>2, <1>3, <1>4

LEMMA CoursesOthers ==
  ASSUME CourseInv, TimePasses \/ Discover \/ UNCHANGED vars
  PROVE  CourseInv'
<1>1. UNCHANGED <<useSQL, recs, cl>>
  BY DEF TimePasses, Tick, Discover, vars, historyVars
<1>2. NoRecords'
  BY <1>1 DEF CourseInv, NoRecords
<1>3. Alone' = {} \/ (Alone' = Alone /\ UNCHANGED <<recs, located, known, cl>>)
  BY DEF TimePasses, Discover, vars, Alone
<1>4. \A d \in Alone' : Course(cl[d])'
  BY <1>3, CourseLater DEF CourseInv, Courses, Alone
<1>. QED  BY <1>2, <1>4 DEF CourseInv, Courses

LEMMA CourseNext == TypeInv /\ CourseInv /\ [Next]_vars => CourseInv'
<1>1. ASSUME TypeInv, CourseInv, NEW c \in Client, Begin(c) \/ Step(c)
      PROVE  CourseInv'
  BY <1>1, NoRecordsStep, CoursesStep DEF CourseInv, Courses
<1>. QED  BY <1>1, CoursesOthers DEF Next

LEMMA CourseInit == Init => CourseInv
<1> SUFFICES ASSUME Init
             PROVE  CourseInv
  OBVIOUS
<1>1. NoRecords
  BY RefuseTyped DEF Init, NoRecords, Refuse, Changing
<1>2. Courses
  BY DEF Init, Courses, Alone
<1>. QED  BY <1>1, <1>2 DEF CourseInv

LEMMA AlwaysOnCourse == Spec => []CourseInv
BY CourseInit, CourseNext, AlwaysTyped, PTL DEF Spec

(* A node beside which nothing failed and nobody changed anything is       *)
(* served, over all the reads it takes, its own data, else its role's,     *)
(* else the default's, with what HSM knows filled in and the sub-role's    *)
(* data under it, and the global data beside its meta-data (metaDataGet,   *)
(* userDataGet, LookupByName, generateMetaData, mergeMaps).                *)
THEOREM ServedMerged == Spec => []ServedIsMerged
<1>1. CourseInv => ServedIsMerged
  BY DEF CourseInv, Courses, Course, ServedIsMerged
<1>. QED  BY <1>1, AlwaysOnCourse, PTL

-----------------------------------------------------------------------------
(* Phone-home.                                                             *)

LEMMA MergeWithItself ==
  ASSUME NEW rec \in CloudData, NEW phone \in Phone \union {None}
  PROVE  LET new == PhoneMerge(rec, phone) IN
         /\ phone \in {None, new.phone}
         /\ View(new.meta) = View(rec.meta) /\ View(new.user) = View(rec.user)
<1>1. ASSUME NEW d \in Data
      PROVE  View(MergePatch(d, d)) = View(d)
  <2> DEFINE e == [k \in Key |-> CASE d[k] = None -> d[k]
                                   [] d[k] = Null -> None
                                   [] OTHER -> d[k]]
  <2>1. None # Null
    BY CloudAssumption DEF CloudAssumption
  <2>2. \A k \in Key : e[k] = IF d[k] = Null THEN None ELSE d[k]
    BY <2>1
  <2>3. MergePatch(d, d) = d \/ MergePatch(d, d) = e
    BY Zenon DEF MergePatch
  <2> HIDE DEF e
  <2>4. \A k \in Key : (IF e[k] = Null THEN None ELSE e[k]) = (IF d[k] = Null THEN None ELSE d[k])
    BY <2>1, <2>2
  <2>5. View(e) = View(d)
    BY <2>4 DEF View
  <2>. QED  BY <2>3, <2>5
<1>2. [rec EXCEPT !.phone = phone].meta = rec.meta /\ [rec EXCEPT !.phone = phone].user = rec.user
      /\ [rec EXCEPT !.phone = phone].phone = phone /\ rec.meta \in Data /\ rec.user \in Data
  BY DEF CloudData
<1>3. LET new == PhoneMerge(rec, phone) IN
      /\ new.meta = MergePatch(rec.meta, rec.meta) /\ new.user = MergePatch(rec.user, rec.user)
      /\ new.phone = IF phone = None THEN rec.phone ELSE phone
  BY <1>2 DEF PhoneMerge, updateCloudInit
<1>. QED  BY <1>1, <1>2, <1>3

(* A phone-home beside which nothing failed and nobody changed anything    *)
(* writes the node's own record, and changes its phone-home data only, up  *)
(* to keys that are null (phoneHomePost, Update, updateCloudInit).         *)
THEOREM PhoneHomeKeeps == Spec => PhoneHomeOnlyPhone
<1> DEFINE A == \A c \in Alone : Write(c) /\ cl[c].req.method = "PHONE" /\ recs' # recs =>
                  LET old == recs[cl[c].req.name]
                      new == recs'[cl[c].req.name]
                  IN  /\ old # Absent
                      /\ cl[c].req.ci.phone \in {None, new.phone}
                      /\ View(new.meta) = View(old.meta) /\ View(new.user) = View(old.user)
<1>1. TypeInv /\ CourseInv /\ [Next]_vars => A
  <2> SUFFICES ASSUME TypeInv, CourseInv, NEW c \in Alone, Write(c),
                      cl[c].req.method = "PHONE", recs' # recs
               PROVE  LET old == recs[cl[c].req.name]
                          new == recs'[cl[c].req.name]
                      IN  /\ old # Absent
                          /\ cl[c].req.ci.phone \in {None, new.phone}
                          /\ View(new.meta) = View(old.meta) /\ View(new.user) = View(old.user)
    OBVIOUS
  <2> DEFINE m == cl[c]
             n == m.req.name
  <2>1. c \in Client /\ m.pc = "write" /\ m.pc \in Changing
    BY DEF Alone, Write, Change, Changing
  <2>2. n \in Host /\ m.req \in Requests /\ m.req.ci.phone \in Phone \union {None}
    BY <2>1, OwnState, TargetTyped, RequestsTyped DEF CloudData
  <2>3. recs[n] # Absent /\ m.ci = PhoneMerge(recs[n], m.req.ci.phone)
    BY <2>1 DEF CourseInv, Courses, Course
  <2>4. recs[n] \in CloudData
    BY <2>2, <2>3 DEF TypeInv, TypeOK
  <2>5. recs' = [recs EXCEPT ![n] = m.ci]
    BY <2>1, ChangeIs DEF Write
  <2>6. recs'[n] = m.ci
    BY <2>2, <2>5 DEF TypeInv, TypeOK
  <2>. QED  BY <2>2, <2>3, <2>4, <2>6, MergeWithItself
<1>2. Spec => [][A]_vars
  BY <1>1, AlwaysTyped, AlwaysOnCourse, PTL DEF Spec
<1>. QED  BY <1>2 DEF PhoneHomeOnlyPhone

=============================================================================
