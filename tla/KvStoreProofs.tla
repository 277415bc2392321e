---------------------------- MODULE KvStoreProofs ---------------------------
(***************************************************************************)
(* More theorems about KvBoot: what kvMutex protects, what a lookup serves *)
(* and a lone client is told, and that the store of a lone client          *)
(* implements BootStore's table.                                           *)
(***************************************************************************)
EXTENDS KvBootProofs

-----------------------------------------------------------------------------
(* The course of a request: what a handler has at each of its steps, when  *)
(* k accesses have failed and comp is what HSM knows.                      *)

Writing == {"POST", "PUT", "PATCH"}
HeldNothing(m) == \A n \in Name : m.held[n] = Absent

(* The keys of the images before f, and no others.                         *)
HasKeys(m, f) ==
  /\ m.ids.kernel = (IF f = "kernel" THEN None ELSE m.req.kernel)
  /\ m.ids.initrd = (IF f = "none" THEN m.req.initrd ELSE None)

(* Only Update goes on without a key, and only after a failure.            *)
KeysUpTo(m, f, k) == m.req.method # "PATCH" \/ k = 0 => HasKeys(m, f)

(* Update turns to the image if it found no record, Store without names.   *)
Nameless(r) == IF r.method = "PATCH" THEN r.hosts = {} ELSE Targets(r) = {}

(* The records that a request may change.                                  *)
KeysOf(r, comp) ==
  AllNames(r) \union ({comp[a] : a \in Alias \intersect AllNames(r)} \ {None})

(* Going through the names of a request.                                   *)
AtNames(m, k, comp) ==
  /\ m.req.method # "PUT" /\ m.todo \subseteq AllNames(m.req)
  /\ IF m.req.method = "PATCH"
     THEN /\ KeysUpTo(m, "none", k)
          /\ \A n \in Name : m.held[n] # Absent => n \in KeysOf(m.req, comp)
     ELSE m.ids = NoRefs /\ HeldNothing(m)
  /\ m.req.method = "GET" => m.fld = "kernel"

(* Update has the record of each host, or will read it, or is reading s.   *)
HostsRead(m, s) ==
  m.req.method = "PATCH" =>
    \A h \in m.req.hosts : h \in m.todo \/ m.held[h] # Absent \/ s = <<h>>

(* Update and Remove read no other records than the request's.             *)
InChain(m, comp) ==
  m.req.method \in {"PATCH", "DELETE"} =>
    \A i \in DOMAIN m.chain : m.chain[i] \in KeysOf(m.req, comp)

(* A lookup has found at most one record and asks for its images in turn.  *)
AtImagesOf(m) ==
  /\ m.req.method = "GET"
  /\ \A n, x \in Name : m.held[n] # Absent /\ m.held[x] # Absent => n = x
  /\ m.fld = "kernel" => m.ids.kernel = None
  /\ m.ids.initrd = None

Flow(m, k, comp) ==
  /\ m.pc = "find" => m.req.method = "POST" /\ HeldNothing(m) /\ KeysUpTo(m, "kernel", k)
  /\ m.pc \in {"image", "add"} =>
       m.req.method \in Writing /\ HeldNothing(m) /\ KeysUpTo(m, m.fld, k)
  /\ m.pc = "setimage" =>
       m.req.method \in Writing /\ Nameless(m.req) /\ KeysUpTo(m, "none", k)
  /\ m.pc = "write" =>
       /\ m.req.method \in {"POST", "PUT"} /\ HeldNothing(m) /\ KeysUpTo(m, "none", k)
       /\ m.todo \subseteq Targets(m.req)
  /\ m.pc = "resolve" => AtNames(m, k, comp) /\ HostsRead(m, <<>>)
  /\ m.pc = "read" => AtNames(m, k, comp) /\ HostsRead(m, m.chain) /\ InChain(m, comp)
  /\ m.pc = "apply" => m.req.method = "PATCH" /\ AtNames(m, k, comp)
  /\ m.pc = "delete" =>
       m.req.method = "DELETE" /\ AtNames(m, k, comp) /\ InChain(m, comp) /\ m.chain # <<>>
  /\ m.pc = "fetch" => AtImagesOf(m)

FlowInv == \A c \in Client : Flow(cl[c], faults, smComp)

(* Where the helpers lead: not to the steps that follow one other step.    *)
Inner == {"find", "add", "delimage", "gettags", "sweep", "fetch", "delete"}

(* A success without a copy to serve, and no name that was to be stored.   *)
Answered(e) == HeldNothing(e) /\ (e.req.method = "PUT" => Targets(e.req) = {})

Fresh(e) ==
  /\ e.pc = "ok" => Answered(e)
  /\ e.pc = "write" => e.todo = Targets(e.req)

Leads(e, k, comp) == Flow(e, k, comp) /\ e.pc \notin Inner /\ Fresh(e)


LEMMA FinishLeads ==
  ASSUME NEW m \in State, NEW b \in BOOLEAN, NEW k, NEW comp,
         \/ b
         \/ /\ m.req.method = "GET" => HeldNothing(m)
            /\ m.req.method = "PUT" => Targets(m.req) = {}
  PROVE  Leads(Finish(m, b), k, comp)
<1> DEFINE e == Finish(m, b)
<1>1. /\ e.pc = (IF b THEN "failed" ELSE "ok") /\ e.req = m.req
      /\ e.held = (IF m.req.method = "GET" THEN m.held ELSE NoCopies)
  BY DEF Finish, Blank
<1> HIDE DEF e
<1>2. Flow(e, k, comp) /\ e.pc \notin Inner
  BY <1>1 DEF Flow, Inner
<1>3. Fresh(e)
  BY <1>1 DEF Fresh, Answered, HeldNothing, NoCopies
<1>. QED  BY <1>2, <1>3 DEF Leads, e

(* A handler goes to another step with all that it has.                    *)
LEMMA GotoIs ==
  ASSUME NEW m \in State, NEW p \in Pc, NEW e, e = [m EXCEPT !.pc = p]
  PROVE  /\ e \in State /\ e.pc = p /\ e.req = m.req /\ e.fld = m.fld /\ e.todo = m.todo
         /\ e.chain = m.chain /\ e.held = m.held /\ e.ids = m.ids /\ e.err = m.err
BY DEF State

LEMMA ToSetImageLeads ==
  ASSUME NEW m \in State, NEW k, NEW comp,
         m.req.method \in Writing, Nameless(m.req), KeysUpTo(m, "none", k)
  PROVE  Leads(ToSetImage(m), k, comp)
<1>1. CASE m.ids = NoRefs
  BY <1>1, FinishLeads DEF ToSetImage, Nameless, Writing
<1>2. CASE m.ids # NoRefs
  <2> DEFINE e == [m EXCEPT !.pc = "setimage"]
  <2>1. e.pc = "setimage" /\ e.req = m.req /\ e.ids = m.ids
    BY GotoIs DEF Pc
  <2>2. ToSetImage(m) = e
    BY <1>2 DEF ToSetImage
  <2> HIDE DEF e
  <2>. QED  BY <2>1, <2>2 DEF Leads, Fresh, Flow, Inner, KeysUpTo, HasKeys
<1>. QED  BY <1>1, <1>2

LEMMA ToDropLeads ==
  ASSUME NEW m \in State, NEW f, NEW k, NEW comp, m.req.method = "DELETE"
  PROVE  Leads(ToDrop(m, f), k, comp)
<1>1. ASSUME NEW g \in Field  PROVE Leads([m EXCEPT !.pc = "drop", !.fld = g], k, comp)
  <2> DEFINE e == [m EXCEPT !.pc = "drop", !.fld = g]
  <2>1. e.pc = "drop"
    BY DEF State
  <2> HIDE DEF e
  <2>2. Leads(e, k, comp)
    BY <2>1 DEF Leads, Fresh, Flow, Inner
  <2>. QED  BY <2>2 DEF e
<1>2. m.err \in BOOLEAN
  BY DEF State
<1>. QED  BY <1>1, <1>2, FinishLeads DEF ToDrop, Field

LEMMA ToImageLeads ==
  ASSUME NEW m \in State, NEW f \in Field \union {"none"}, NEW k, NEW comp,
         m.req.method \in Writing, HeldNothing(m), KeysUpTo(m, f, k)
  PROVE  Leads(ToImage(m, f), k, comp)
<1> DEFINE names == IF m.req.method = "PATCH" THEN AllNames(m.req) ELSE Targets(m.req)
<1>1. ASSUME NEW g \in Field, KeysUpTo(m, g, k),
             ToImage(m, f) = [m EXCEPT !.pc = "image", !.fld = g]
      PROVE  Leads(ToImage(m, f), k, comp)
  <2> DEFINE e == ToImage(m, f)
  <2>1. e.pc = "image" /\ e.req = m.req /\ e.fld = g /\ e.ids = m.ids /\ e.held = m.held
    BY <1>1 DEF State, Pc
  <2> HIDE DEF e
  <2>2. Leads(e, k, comp)
    BY <1>1, <2>1 DEF Leads, Fresh, Flow, Inner, KeysUpTo, HasKeys, HeldNothing
  <2>. QED  BY <2>2 DEF e
<1>2. CASE f = "kernel" /\ m.req.kernel # None
  BY <1>1, <1>2 DEF ToImage, Field
<1>3. CASE ~(f = "kernel" /\ m.req.kernel # None) /\ f # "none" /\ m.req.initrd # None
  <2>1. KeysUpTo(m, "initrd", k)
    BY <1>3 DEF KeysUpTo, HasKeys, Field
  <2>. QED  BY <1>1, <1>3, <2>1 DEF ToImage, Field
<1>4. CASE ~(f = "kernel" /\ m.req.kernel # None) /\ ~(f # "none" /\ m.req.initrd # None)
  <2>1. KeysUpTo(m, "none", k)
    BY <1>4 DEF KeysUpTo, HasKeys, Field
  <2>2. CASE names = {}
    <3>1. Nameless(m.req)
      BY <2>2 DEF Nameless, AllNames
    <3>. QED  BY <1>4, <2>1, <2>2, <3>1, ToSetImageLeads DEF ToImage
  <2>3. CASE names # {}
    <3> DEFINE p == IF m.req.method = "PATCH" THEN "resolve" ELSE "write"
               e == [m EXCEPT !.todo = names, !.pc = p]
    <3>1. ToImage(m, f) = e
      BY <1>4, <2>3 DEF ToImage
    <3>2. names \in SUBSET Name
      BY NamesTyped DEF State
    <3> HIDE DEF names
    <3>3. e.pc = p /\ e.req = m.req /\ e.todo = names /\ e.ids = m.ids /\ e.held = m.held
      BY <3>2 DEF State
    <3> HIDE DEF e
    <3>4. CASE m.req.method = "PATCH"
      <4>1. e.pc = "resolve" /\ e.todo = AllNames(e.req)
        BY <3>3, <3>4 DEF names
      <4>2. AtNames(e, k, comp) /\ HostsRead(e, <<>>)
        BY <2>1, <3>3, <3>4, <4>1
        DEF AtNames, HostsRead, KeysUpTo, HasKeys, HeldNothing, AllNames
      <4>. QED  BY <3>1, <4>1, <4>2 DEF Leads, Fresh, Flow, Inner
    <3>5. CASE m.req.method # "PATCH"
      <4>1. e.pc = "write" /\ e.todo = Targets(e.req)
        BY <3>3, <3>5 DEF names
      <4>2. HeldNothing(e) /\ KeysUpTo(e, "none", k) /\ e.req.method \in {"POST", "PUT"}
        BY <2>1, <3>3, <3>5 DEF KeysUpTo, HasKeys, HeldNothing, Writing
      <4>. QED  BY <3>1, <4>1, <4>2 DEF Leads, Fresh, Flow, Inner
    <3>. QED  BY <3>4, <3>5
  <2>. QED  BY <2>2, <2>3
<1>. QED  BY <1>2, <1>3, <1>4

LEMMA NextNameLeads ==
  ASSUME NEW m \in State, NEW k, NEW comp, AtNames(m, k, comp), HostsRead(m, <<>>)
  PROVE  Leads(NextName(m), k, comp)
<1> DEFINE d == [m EXCEPT !.chain = <<>>]
<1>1. /\ d \in State /\ d.req = m.req /\ d.ids = m.ids /\ d.held = m.held
      /\ d.todo = m.todo /\ d.fld = m.fld
  <2>1. \A s \in Seq(Name) :
          LET x == [m EXCEPT !.chain = s]
          IN  /\ x \in State /\ x.req = m.req /\ x.ids = m.ids /\ x.held = m.held
              /\ x.todo = m.todo /\ x.fld = m.fld
    BY ChainSet
  <2>2. <<>> \in Seq(Name)
    OBVIOUS
  <2> HIDE DEF d
  <2>. QED  BY ONLY <2>1, <2>2, Zenon DEF d
<1>2. m.req.method \in Method
  BY DEF State, Request
<1> HIDE DEF d
<1>3. AtNames(d, k, comp) /\ HostsRead(d, <<>>)
  BY <1>1 DEF AtNames, HostsRead, KeysUpTo, HasKeys, HeldNothing
<1>4. ASSUME NEW p \in {"resolve", "apply"}, p = "apply" => m.req.method = "PATCH",
             NextName(m) = [d EXCEPT !.pc = p]
      PROVE  Leads(NextName(m), k, comp)
  <2> DEFINE e == NextName(m)
  <2>1. /\ e.pc = p /\ e.req = d.req /\ e.ids = d.ids /\ e.held = d.held
        /\ e.todo = d.todo /\ e.fld = d.fld
    BY <1>1, <1>4, GotoIs DEF Pc
  <2> HIDE DEF e
  <2>2. AtNames(e, k, comp) /\ HostsRead(e, <<>>)
    BY <1>3, <2>1 DEF AtNames, HostsRead, KeysUpTo, HasKeys, HeldNothing
  <2>3. Leads(e, k, comp)
    BY <1>1, <1>4, <2>1, <2>2 DEF Leads, Fresh, Flow, Inner
  <2>. QED  BY <2>3 DEF e
<1>5. CASE m.todo # {}
  BY <1>4, <1>5 DEF NextName, d
<1>6. CASE m.todo = {} /\ m.req.method = "POST"
  <2>1. HeldNothing(d) /\ KeysUpTo(d, "kernel", k)
    BY <1>1, <1>3, <1>6 DEF AtNames, KeysUpTo, HasKeys, NoRefs
  <2>2. NextName(m) = ToImage(d, "kernel")
    BY <1>6 DEF NextName, d
  <2>. QED  BY <1>1, <1>6, <2>1, <2>2, ToImageLeads DEF Writing, Field
<1>7. CASE m.todo = {} /\ m.req.method = "PATCH" /\ m.held = NoCopies
  <2>1. \A n \in Name : m.held[n] = Absent
    BY <1>7 DEF NoCopies
  <2>2. m.req.hosts \subseteq Name
    BY DEF State, Request, Name
  <2>3. ASSUME NEW h \in Name  PROVE <<>> # <<h>>
    <3>1. Len(<<>>) = 0 /\ Len(<<h>>) = 1
      OBVIOUS
    <3>. QED  BY <3>1, Zenon
  <2>4. Nameless(d.req)
    BY <1>1, <1>7, <2>1, <2>2, <2>3 DEF HostsRead, Nameless
  <2>5. KeysUpTo(d, "none", k)
    BY <1>1, <1>3, <1>7 DEF AtNames
  <2>6. NextName(m) = ToSetImage(d)
    BY <1>7 DEF NextName, d
  <2>. QED  BY <1>1, <1>7, <2>4, <2>5, <2>6, ToSetImageLeads DEF Writing
<1>8. CASE m.todo = {} /\ m.req.method = "PATCH" /\ m.held # NoCopies
  BY <1>4, <1>8 DEF NextName, d
<1>9. CASE m.todo = {} /\ m.req.method = "DELETE"
  BY <1>1, <1>9, ToDropLeads DEF NextName, d
<1>10. CASE m.todo = {} /\ m.req.method \notin {"POST", "PATCH", "DELETE"}
  <2>1. NextName(m) = Finish(d, FALSE)
    BY <1>10 DEF NextName, d
  <2>. QED  BY <1>1, <1>3, <1>10, <2>1, FinishLeads DEF AtNames
<1>. QED  BY <1>5, <1>6, <1>7, <1>8, <1>9, <1>10

LEMMA StartLeads ==
  ASSUME NEW r \in Request, NEW k, NEW comp
  PROVE  /\ Flow(Start(r), k, comp)
         /\ Start(r).pc \in Inner => Start(r).pc = "find"
         /\ Fresh(Start(r))
<1> DEFINE m == Blank(r)
           given == {f \in Field : r[f] # None}
<1>1. /\ m \in State /\ m.req = r /\ m.ids = NoRefs /\ m.fld = "kernel"
      /\ HeldNothing(m) /\ r.method \in Method
  BY BlankTyped DEF Handler, Request, HeldNothing, NoCopies, Blank
<1>2. KeysUpTo(m, "kernel", k)
  BY <1>1 DEF KeysUpTo, HasKeys, NoRefs
<1> HIDE DEF m
<1>3. ASSUME NEW s \in SUBSET Name, s \subseteq AllNames(r), r.method \notin {"PUT", "PATCH"}
      PROVE  Leads(NextName([m EXCEPT !.todo = s]), k, comp)
  <2> DEFINE e == [m EXCEPT !.todo = s]
  <2>1. /\ e \in State /\ e.req = r /\ e.ids = NoRefs /\ e.todo = s /\ e.held = m.held
        /\ e.fld = "kernel"
    BY <1>1 DEF State
  <2> HIDE DEF e
  <2>2. AtNames(e, k, comp) /\ HostsRead(e, <<>>)
    BY <1>1, <1>3, <2>1 DEF AtNames, HostsRead, HeldNothing
  <2>3. Leads(NextName(e), k, comp)
    BY <2>1, <2>2, NextNameLeads
  <2>. QED  BY <2>3 DEF e
<1>4. Targets(r) \in SUBSET Name /\ AllNames(r) \in SUBSET Name /\ Targets(r) \subseteq AllNames(r)
  BY NamesTyped DEF Targets, AllNames
<1>5. CASE r.method = "POST" /\ Targets(r) = {} /\ given # {}
  <2> DEFINE g == IF "kernel" \in given THEN "kernel" ELSE "initrd"
             e == [m EXCEPT !.pc = "find", !.fld = g]
  <2>1. Start(r) = e
    BY <1>5 DEF Start, m
  <2>2. e.pc = "find" /\ e.req = r /\ e.ids = m.ids /\ e.held = m.held
    <3> HIDE DEF g
    <3>. QED  BY <1>1 DEF State
  <2> HIDE DEF e
  <2>. QED
    BY <1>1, <1>2, <1>5, <2>1, <2>2 DEF Flow, Fresh, KeysUpTo, HasKeys, HeldNothing
<1>6. CASE r.method = "POST" /\ Targets(r) = {} /\ given = {}
  <2>1. Start(r) = Finish(m, FALSE)
    BY <1>6 DEF Start, m
  <2>. QED  BY <1>1, <1>6, <2>1, FinishLeads DEF Leads
<1>7. CASE r.method = "POST" /\ Targets(r) # {}
  <2>1. Start(r) = NextName([m EXCEPT !.todo = Targets(r)])
    BY <1>7 DEF Start, m
  <2>. QED  BY <1>3, <1>4, <1>7, <2>1 DEF Leads
<1>8. CASE r.method \in {"PUT", "PATCH"}
  <2>1. Start(r) = ToImage(m, "kernel")
    BY <1>8 DEF Start, m
  <2>. QED  BY <1>1, <1>2, <1>8, <2>1, ToImageLeads DEF Writing, Field, Leads
<1>9. CASE r.method \notin {"POST", "PUT", "PATCH"}
  <2>1. Start(r) = NextName([m EXCEPT !.todo = AllNames(r)])
    BY <1>9 DEF Start, m
  <2>. QED  BY <1>3, <1>4, <1>9, <2>1 DEF Leads
<1>. QED  BY <1>5, <1>6, <1>7, <1>8, <1>9

-----------------------------------------------------------------------------
(* Each step of a handler keeps to the course.                             *)

LEMMA BecomeIs ==
  ASSUME TypeInv, NEW c \in Client, NEW e, Become(c, e)
  PROVE  cl'[c] = e /\ \A d \in Client : d # c => cl'[d] = cl[d]
BY DEF TypeInv, Become

(* The step leads where helpers do.                                        *)
Onward(c, k) == Leads(cl'[c], k, smComp)

LEMMA BeginOnward ==
  ASSUME TypeInv, NEW c \in Client, NEW k, Begin(c)
  PROVE  /\ Flow(cl'[c], k, smComp)
         /\ cl'[c].pc \in Inner => cl'[c].pc = "find"
         /\ Fresh(cl'[c])
BY BecomeIs, StartLeads, RequestAssumption DEF Begin, RequestAssumption

LEMMA TriesKeys ==
  ASSUME TypeInv, NEW r \in Request, NEW n \in AllNames(r), r.method \in {"PATCH", "DELETE"}
  PROVE  /\ \A i \in DOMAIN Tries(r.method, n) : Tries(r.method, n)[i] \in KeysOf(r, smComp)
         /\ n \in Host => Tries(r.method, n) = <<n>>
<1>1. n \in Name /\ n \in KeysOf(r, smComp)
  BY NamesTyped DEF KeysOf
<1>2. Known(n) => smComp[n] \in KeysOf(r, smComp)
  BY DEF Known, KeysOf
<1>3. KeyOf(n) \in KeysOf(r, smComp)
  BY <1>1, <1>2 DEF KeyOf
<1>4. n \in Host => n \notin Mac /\ ~Known(n)
  BY NameAssumption DEF NameAssumption, Known, Alias
<1>5. CASE r.method = "PATCH"
  <2>1. \/ n \in Host /\ Tries(r.method, n) = <<n>>
        \/ n \notin Host /\ Known(n) /\ Tries(r.method, n) = <<smComp[n], n>>
        \/ n \notin Host /\ Tries(r.method, n) = <<>>
    BY <1>5 DEF Tries
  <2>. QED  BY <1>1, <1>2, <2>1
<1>6. CASE r.method = "DELETE"
  <2>1. Tries(r.method, n) \in {<<>>, <<KeyOf(n)>>}
    BY <1>6 DEF Tries
  <2>2. n \in Host => Tries(r.method, n) = <<n>>
    BY <1>4, <1>6 DEF Tries, KeyOf
  <2>. QED  BY <1>3, <2>1, <2>2
<1>. QED  BY <1>5, <1>6

LEMMA ResolveOnward ==
  ASSUME TypeInv, NEW c \in Client, NEW k, Flow(cl[c], k, smComp), Resolve(c)
  PROVE  Onward(c, k)
<1>1. PICK n \in cl[c].todo :
        LET chain == Tries(cl[c].req.method, n)
            m == [cl[c] EXCEPT !.todo = @ \ {n}, !.chain = chain, !.pc = "read"]
        IN  Become(c, IF chain = <<>> THEN NextName(m) ELSE m)
  BY DEF Resolve
<1> DEFINE chain == Tries(cl[c].req.method, n)
           m == [cl[c] EXCEPT !.todo = @ \ {n}, !.chain = chain, !.pc = "read"]
           r == cl[c].req
<1>2. cl[c] \in State /\ cl[c].pc = "resolve" /\ r \in Request
  BY OwnState DEF Resolve
<1>3. AtNames(cl[c], k, smComp) /\ HostsRead(cl[c], <<>>)
  BY <1>2 DEF Flow
<1>4. n \in Name /\ n \in AllNames(r)
  BY <1>2, <1>3 DEF State, AtNames
<1>5. chain \in Seq(Name)
  BY <1>4, TriesTyped
<1>6. /\ r.method \in {"PATCH", "DELETE"} =>
           \A i \in DOMAIN chain : chain[i] \in KeysOf(r, smComp)
      /\ r.method = "PATCH" /\ n \in Host => chain = <<n>>
  <2> HIDE DEF r
  <2>. QED  BY <1>2, <1>4, TriesKeys DEF r
<1> HIDE DEF chain
<1>7. /\ m \in State /\ m.pc = "read" /\ m.chain = chain /\ m.req = r /\ m.ids = cl[c].ids
      /\ m.held = cl[c].held /\ m.todo = cl[c].todo \ {n} /\ m.fld = cl[c].fld
  BY <1>2, <1>5 DEF State, Pc
<1>8. Become(c, IF chain = <<>> THEN NextName(m) ELSE m)
  BY <1>1 DEF chain
<1> HIDE DEF m
<1>9. AtNames(m, k, smComp) /\ InChain(m, smComp)
  BY <1>3, <1>6, <1>7 DEF AtNames, InChain, KeysUpTo, HasKeys, HeldNothing
<1>10. HostsRead(m, chain)
  <2>1. SUFFICES ASSUME r.method = "PATCH", NEW h \in r.hosts
                 PROVE  h \in m.todo \/ m.held[h] # Absent \/ chain = <<h>>
    BY <1>7 DEF HostsRead
  <2>2. h \in Host /\ <<>> # <<h>>
    BY <1>2 DEF Request
  <2>3. h \in cl[c].todo \/ cl[c].held[h] # Absent
    BY <1>3, <2>1, <2>2 DEF HostsRead
  <2>. QED  BY <1>6, <1>7, <2>1, <2>2, <2>3
<1>11. CASE chain = <<>>
  BY <1>7, <1>8, <1>9, <1>10, <1>11, NextNameLeads, BecomeIs DEF Onward
<1>12. CASE chain # <<>>
  <2>1. cl'[c] = m
    BY <1>8, <1>12, BecomeIs
  <2>. QED  BY <1>7, <1>9, <1>10, <2>1 DEF Onward, Leads, Fresh, Flow, Inner
<1>. QED  BY <1>11, <1>12

LEMMA ReadFoundOnward ==
  ASSUME TypeInv, NEW c \in Client, NEW k, Flow(cl[c], k, smComp), ReadFound(c)
  PROVE  /\ Flow(cl'[c], k, smComp)
         /\ cl'[c].pc \in Inner => cl'[c].pc \in {"delete", "fetch"}
         /\ cl'[c].pc = "fetch" => cl'[c].fld = "kernel"
         /\ Fresh(cl'[c])
<1> DEFINE m == cl[c]
           n == Head(m.chain)
           rec == IF m.held[n] # Absent THEN m.held[n] ELSE tags[n]
           copied == [m EXCEPT !.held[n] = rec]
<1>1. m \in State /\ Coherent(m) /\ m.pc = "read" /\ rec # Absent /\ m.req \in Request
  BY OwnState DEF ReadFound
<1>2. m.req.method \in Method
  BY <1>1 DEF Request
<1>3. n \in Name /\ m.chain \in Seq(Name) /\ m.chain # <<>>
  BY <1>1, HeadTyped DEF Coherent, State
<1>4. AtNames(m, k, smComp) /\ HostsRead(m, m.chain) /\ InChain(m, smComp)
  BY <1>1 DEF Flow
<1>5. Become(c, CASE m.req.method = "POST"   -> Finish(m, TRUE)
                  [] m.req.method = "PATCH"  -> NextName(copied)
                  [] m.req.method = "DELETE" -> [m EXCEPT !.pc = "delete"]
                  [] OTHER -> [copied EXCEPT !.pc = "fetch"])
  BY DEF ReadFound
<1>6. rec \in Record \union {Absent}
  BY <1>1, <1>3 DEF State, TypeInv, TypeOK
<1>7. /\ copied \in State /\ copied.req = m.req /\ copied.ids = m.ids /\ copied.fld = m.fld
      /\ copied.todo = m.todo /\ copied.held[n] = rec
      /\ \A x \in Name : x # n => copied.held[x] = m.held[x]
  <2> HIDE DEF m, n, rec
  <2>. QED  BY <1>1, <1>3, <1>6 DEF State
<1> HIDE DEF copied, rec
<1>8. CASE m.req.method = "POST"
  <2>1. cl'[c] = Finish(m, TRUE)
    BY <1>5, <1>8, BecomeIs
  <2>. QED  BY <1>1, <2>1, FinishLeads DEF Leads, Inner
<1>9. CASE m.req.method = "PATCH"
  <2>1. cl'[c] = NextName(copied)
    BY <1>5, <1>9, BecomeIs
  <2>2. n \in KeysOf(m.req, smComp)
    <3>1. 1 \in DOMAIN m.chain /\ n = m.chain[1]
      BY <1>3
    <3>. QED  BY <1>4, <1>9, <3>1 DEF InChain
  <2>3. AtNames(copied, k, smComp)
    BY <1>4, <1>7, <1>9, <2>2 DEF AtNames, KeysUpTo, HasKeys
  <2>4. HostsRead(copied, <<>>)
    <3>1. SUFFICES ASSUME NEW h \in m.req.hosts
                   PROVE  h \in copied.todo \/ copied.held[h] # Absent
      BY <1>7 DEF HostsRead
    <3>2. h \in Name
      BY <1>1, <3>1 DEF Request, Name
    <3>3. CASE m.chain = <<h>>
      <4>1. n = h
        BY <3>3
      <4>. QED  BY <1>1, <1>7, <4>1
    <3>4. CASE m.chain # <<h>>
      <4>1. h \in m.todo \/ m.held[h] # Absent
        BY <1>4, <1>9, <3>4 DEF HostsRead
      <4>. QED  BY <1>1, <1>7, <3>2, <4>1
    <3>. QED  BY <3>3, <3>4
  <2>. QED  BY <1>7, <2>1, <2>3, <2>4, NextNameLeads DEF Leads, Inner
<1>10. CASE m.req.method = "DELETE"
  <2> DEFINE e == [m EXCEPT !.pc = "delete"]
  <2>1. cl'[c] = e
    BY <1>5, <1>10, BecomeIs
  <2>2. /\ e.pc = "delete" /\ e.req = m.req /\ e.ids = m.ids /\ e.held = m.held
        /\ e.todo = m.todo /\ e.chain = m.chain /\ e.fld = m.fld
    BY <1>1 DEF State
  <2> HIDE DEF e
  <2>3. AtNames(e, k, smComp) /\ InChain(e, smComp) /\ e.chain # <<>>
    BY <1>3, <1>4, <2>2 DEF AtNames, InChain, KeysUpTo, HasKeys, HeldNothing
  <2>. QED  BY <1>10, <2>1, <2>2, <2>3 DEF Flow, Fresh
<1>11. CASE m.req.method \notin {"POST", "PATCH", "DELETE"}
  <2> DEFINE e == [copied EXCEPT !.pc = "fetch"]
  <2>1. cl'[c] = e
    BY <1>5, <1>11, BecomeIs
  <2>2. /\ e.pc = "fetch" /\ e.req = m.req /\ e.ids = m.ids /\ e.held = copied.held
        /\ e.fld = m.fld
    BY <1>7 DEF State
  <2> HIDE DEF e
  <2>3. HeldNothing(m) /\ m.ids = NoRefs /\ m.req.method = "GET" /\ m.fld = "kernel"
    BY <1>2, <1>4, <1>11 DEF AtNames, Method
  <2>4. AtImagesOf(e)
    BY <1>7, <2>2, <2>3 DEF AtImagesOf, HeldNothing, NoRefs
  <2>. QED  BY <2>1, <2>2, <2>3, <2>4 DEF Flow, Fresh
<1>. QED  BY <1>8, <1>9, <1>10, <1>11

LEMMA ReadNothingOnward ==
  ASSUME TypeInv, NEW c \in Client, NEW k, Flow(cl[c], k, smComp), ReadNothing(c)
  PROVE  Onward(c, k)
<1> DEFINE m == cl[c]
           fails == [m EXCEPT !.err = TRUE]
           t == Tail(m.chain)
           next == [m EXCEPT !.chain = t]
<1>1. m \in State /\ Coherent(m) /\ m.pc = "read" /\ m.chain \in Seq(Name) /\ m.req \in Request
  BY OwnState DEF ReadNothing, State
<1>2. AtNames(m, k, smComp) /\ HostsRead(m, m.chain) /\ InChain(m, smComp)
  BY <1>1 DEF Flow
<1>3. Become(c, IF Len(m.chain) > 1 THEN next
                ELSE CASE m.req.method = "PATCH"  -> Finish(m, TRUE)
                       [] m.req.method = "DELETE" -> NextName(fails)
                       [] OTHER                   -> NextName(m))
  BY DEF ReadNothing
<1>4. /\ fails \in State /\ fails.req = m.req /\ fails.ids = m.ids /\ fails.held = m.held
      /\ fails.todo = m.todo /\ fails.fld = m.fld
  BY <1>1 DEF State
<1>5. CASE Len(m.chain) > 1
  <2>1. t \in Seq(Name) /\ \A i \in DOMAIN t : i + 1 \in DOMAIN m.chain /\ t[i] = m.chain[i + 1]
    BY <1>1, <1>5
  <2>2. cl'[c] = next
    BY <1>3, <1>5, BecomeIs
  <2> HIDE DEF t
  <2>3. /\ next.pc = "read" /\ next.req = m.req /\ next.ids = m.ids /\ next.held = m.held
        /\ next.chain = t /\ next.todo = m.todo /\ next.fld = m.fld
    BY <1>1, <2>1 DEF State
  <2> HIDE DEF next
  <2>4. AtNames(next, k, smComp)
    BY <1>2, <2>3 DEF AtNames, KeysUpTo, HasKeys, HeldNothing
  <2>5. InChain(next, smComp)
    BY <1>2, <2>1, <2>3 DEF InChain
  <2>6. ASSUME NEW h  PROVE m.chain # <<h>>
    <3>1. Len(<<h>>) = 1 /\ ~(1 > 1)
      OBVIOUS
    <3>. QED  BY <1>5, <3>1, Zenon
  <2>7. HostsRead(next, t)
    BY <1>2, <2>3, <2>6 DEF HostsRead
  <2>. QED  BY <2>2, <2>3, <2>4, <2>5, <2>7 DEF Onward, Leads, Fresh, Flow, Inner
<1>6. CASE ~(Len(m.chain) > 1) /\ m.req.method = "PATCH"
  <2>1. cl'[c] = Finish(m, TRUE)
    BY <1>3, <1>6, BecomeIs
  <2>. QED  BY <1>1, <2>1, FinishLeads DEF Onward
<1>7. CASE ~(Len(m.chain) > 1) /\ m.req.method = "DELETE"
  <2>1. cl'[c] = NextName(fails)
    BY <1>3, <1>7, BecomeIs
  <2> HIDE DEF fails
  <2>2. AtNames(fails, k, smComp) /\ HostsRead(fails, <<>>)
    BY <1>2, <1>4, <1>7 DEF AtNames, HostsRead, HeldNothing
  <2>. QED  BY <1>4, <2>1, <2>2, NextNameLeads DEF Onward
<1>8. CASE ~(Len(m.chain) > 1) /\ m.req.method \notin {"PATCH", "DELETE"}
  <2>1. cl'[c] = NextName(m)
    BY <1>3, <1>8, BecomeIs
  <2>2. HostsRead(m, <<>>)
    BY <1>8 DEF HostsRead
  <2>. QED  BY <1>1, <1>2, <2>1, <2>2, NextNameLeads DEF Onward
<1>. QED  BY <1>5, <1>6, <1>7, <1>8

(* A lookup turns from the kernel to the initrd, and then answers.         *)
NextRef(d) == IF d.fld = "kernel" THEN [d EXCEPT !.fld = "initrd"] ELSE Finish(d, FALSE)

LEMMA NextRefFlows ==
  ASSUME NEW d \in State, NEW k, NEW comp, d.pc = "fetch", d.req.method = "GET",
         \A n, x \in Name : d.held[n] # Absent /\ d.held[x] # Absent => n = x,
         d.fld = "kernel" => d.ids.initrd = None
  PROVE  /\ Flow(NextRef(d), k, comp)
         /\ NextRef(d).pc \in Inner => NextRef(d).pc = "fetch"
<1>1. CASE d.fld = "kernel"
  <2> DEFINE e == [d EXCEPT !.fld = "initrd"]
  <2>1. /\ e.pc = "fetch" /\ e.req = d.req /\ e.ids = d.ids /\ e.held = d.held
        /\ e.fld = "initrd"
    BY DEF State
  <2> HIDE DEF e
  <2>2. Flow(e, k, comp)
    BY <1>1, <2>1 DEF Flow, AtImagesOf
  <2>. QED  BY <1>1, <2>1, <2>2 DEF NextRef, e
<1>2. CASE d.fld # "kernel"
  BY <1>2, FinishFollows DEF NextRef, Flow, Inner
<1>. QED  BY <1>1, <1>2

(* What a look for an image of the record may find.                        *)
LEMMA FetchImageIs ==
  ASSUME TypeInv, NEW c \in Client, FetchImage(c)
  PROVE  LET m == cl[c] IN
         /\ m.pc = "fetch" /\ images' = images /\ tags' = tags
         /\ \/ \E n \in Name :
                 /\ m.held[n] # Absent /\ m.held[n][m.fld] # None
                 /\ images[m.held[n][m.fld]] # Absent
                 /\ cl'[c] = NextRef([m EXCEPT !.ids[m.fld] = m.held[n][m.fld]])
            \/ /\ faults' = faults
               /\ \A n \in Name :
                    m.held[n] # Absent /\ m.held[n][m.fld] # None
                      => images[m.held[n][m.fld]] = Absent
               /\ cl'[c] = NextRef(m)
            \/ Fault /\ cl'[c] = NextRef(m)
<1> DEFINE m == cl[c]
           ref == {m.held[n][m.fld] : n \in {x \in Name : m.held[x] # Absent}} \ {None}
<1>1. /\ m.pc = "fetch" /\ images' = images /\ tags' = tags
      /\ \/ \E i \in ref : images[i] # Absent
                           /\ Become(c, NextRef([m EXCEPT !.ids[m.fld] = i]))
         \/ /\ faults' = faults
            /\ \A i \in ref : images[i] = Absent
            /\ Become(c, NextRef(m))
         \/ Fault /\ Become(c, NextRef(m))
  BY DEF FetchImage, NextRef
<1>2. ASSUME NEW i \in ref, images[i] # Absent,
             Become(c, NextRef([m EXCEPT !.ids[m.fld] = i]))
      PROVE  \E n \in Name :
                 /\ m.held[n] # Absent /\ m.held[n][m.fld] # None
                 /\ images[m.held[n][m.fld]] # Absent
                 /\ cl'[c] = NextRef([m EXCEPT !.ids[m.fld] = m.held[n][m.fld]])
  <2>1. PICK n \in Name : m.held[n] # Absent /\ i = m.held[n][m.fld] /\ i # None
    OBVIOUS
  <2>2. cl'[c] = NextRef([m EXCEPT !.ids[m.fld] = i])
    BY <1>2, BecomeIs
  <2>. QED  BY <1>2, <2>1, <2>2
<1>. QED  BY <1>1, <1>2, BecomeIs

LEMMA FetchImageFlows ==
  ASSUME TypeInv, NEW c \in Client, NEW k, Flow(cl[c], k, smComp), FetchImage(c)
  PROVE  /\ Flow(cl'[c], k, smComp)
         /\ cl'[c].pc \in Inner => cl'[c].pc = "fetch"
<1> DEFINE m == cl[c]
<1>1. m \in State /\ m.pc = "fetch" /\ m.fld \in Field
  BY OwnState DEF FetchImage, State
<1>2. AtImagesOf(m)
  BY <1>1 DEF Flow
<1>3. CASE cl'[c] = NextRef(m)
  BY <1>1, <1>2, <1>3, NextRefFlows DEF AtImagesOf
<1>4. ASSUME NEW n \in Name, m.held[n] # Absent, m.held[n][m.fld] # None,
             cl'[c] = NextRef([m EXCEPT !.ids[m.fld] = m.held[n][m.fld]])
      PROVE  /\ Flow(cl'[c], k, smComp)
             /\ cl'[c].pc \in Inner => cl'[c].pc = "fetch"
  <2> DEFINE i == m.held[n][m.fld]
             d == [m EXCEPT !.ids[m.fld] = i]
  <2>1. m.held[n] \in Record
    BY <1>1, <1>4 DEF State
  <2>2. /\ m.fld = "kernel" => i \in Kernel \union {None}
        /\ m.fld = "initrd" => i \in Initrd \union {None}
    BY <2>1 DEF Record
  <2> HIDE DEF m, i
  <2>3. /\ d \in State /\ d.pc = "fetch" /\ d.req = m.req /\ d.held = m.held /\ d.fld = m.fld
        /\ d.fld = "kernel" => d.ids.initrd = m.ids.initrd
    BY <1>1, <2>2 DEF State, Field
  <2>4. cl'[c] = NextRef(d)
    BY <1>4 DEF i
  <2> HIDE DEF d
  <2>. QED  BY <1>2, <2>3, <2>4, NextRefFlows DEF AtImagesOf
<1>. QED  BY <1>3, <1>4, FetchImageIs

LEMMA FindImageOnward ==
  ASSUME TypeInv, NEW c \in Client, NEW k, Flow(cl[c], k, smComp), FindImage(c)
  PROVE  Onward(c, k)
<1>1. cl[c] \in State /\ cl[c].pc = "find"
  BY OwnState DEF FindImage
<1>2. cl'[c] = Finish(cl[c], TRUE) \/ cl'[c] = ToImage(cl[c], "kernel")
  BY BecomeIs DEF FindImage
<1>3. HeldNothing(cl[c]) /\ KeysUpTo(cl[c], "kernel", k) /\ cl[c].req.method \in Writing
  BY <1>1 DEF Flow, Writing
<1>. QED  BY <1>1, <1>2, <1>3, FinishLeads, ToImageLeads DEF Onward, Field

(* imageStore has given the key of the image.                              *)
LEMMA KeyOnward ==
  ASSUME TypeInv, NEW c \in Client, NEW k, Flow(cl[c], k, smComp),
         cl[c].pc \in {"image", "add"},
         LET m == [cl[c] EXCEPT !.ids[cl[c].fld] = Asked(c)]
         IN  Become(c, ToImage(m, FieldAfter(m.fld)))
  PROVE  Onward(c, k)
<1> DEFINE m == cl[c]
           d == [m EXCEPT !.ids[m.fld] = Asked(c)]
<1>1. m \in State /\ m.fld \in Field /\ m.req \in Request
  BY OwnState DEF State
<1>2. m.req.method \in Writing /\ HeldNothing(m) /\ KeysUpTo(m, m.fld, k)
  BY DEF Flow
<1>3. /\ m.fld = "kernel" => Asked(c) = m.req.kernel /\ Asked(c) \in Kernel \union {None}
      /\ m.fld = "initrd" => Asked(c) = m.req.initrd /\ Asked(c) \in Initrd \union {None}
  BY <1>1 DEF Asked, Request
<1>4. cl'[c] = ToImage(d, FieldAfter(d.fld))
  BY BecomeIs
<1> HIDE DEF m
<1>5. /\ d \in State /\ d.req = m.req /\ d.held = m.held /\ d.fld = m.fld
      /\ d.ids.kernel = (IF m.fld = "kernel" THEN Asked(c) ELSE m.ids.kernel)
      /\ d.ids.initrd = (IF m.fld = "initrd" THEN Asked(c) ELSE m.ids.initrd)
  BY <1>1, <1>3 DEF State, Field
<1> HIDE DEF d
<1>6. HeldNothing(d) /\ KeysUpTo(d, FieldAfter(d.fld), k)
  BY <1>1, <1>2, <1>3, <1>5 DEF HeldNothing, KeysUpTo, HasKeys, FieldAfter, Field
<1>. QED  BY <1>1, <1>2, <1>4, <1>5, <1>6, ToImageLeads, AfterTyped DEF Onward

LEMMA ImageUnknownFlows ==
  ASSUME TypeInv, NEW c \in Client, NEW k, Flow(cl[c], k, smComp), ImageUnknown(c)
  PROVE  Flow(cl'[c], k, smComp) /\ cl'[c].pc = "add" /\ cl'[c].req = cl[c].req
         /\ cl'[c].fld = cl[c].fld
<1> DEFINE e == [cl[c] EXCEPT !.pc = "add"]
<1>1. cl[c] \in State /\ cl[c].pc = "image" /\ cl'[c] = e
  BY OwnState, BecomeIs DEF ImageUnknown
<1>2. /\ e.pc = "add" /\ e.req = cl[c].req /\ e.fld = cl[c].fld
      /\ e.ids = cl[c].ids /\ e.held = cl[c].held
  BY <1>1, GotoIs DEF Pc
<1> HIDE DEF e
<1>. QED  BY <1>1, <1>2 DEF Flow, KeysUpTo, HasKeys, HeldNothing

LEMMA AddImageFailsOnward ==
  ASSUME TypeInv, NEW c \in Client, NEW k, k # 0, Flow(cl[c], k, smComp), AddImageFails(c)
  PROVE  Onward(c, k)
<1>1. cl[c] \in State /\ cl[c].fld \in Field /\ cl[c].pc = "add"
  BY OwnState DEF AddImageFails, State
<1>2. CASE cl[c].req.method = "PATCH"
  <2>1. cl'[c] = ToImage(cl[c], FieldAfter(cl[c].fld))
    BY <1>2, BecomeIs DEF AddImageFails
  <2>2. KeysUpTo(cl[c], FieldAfter(cl[c].fld), k) /\ HeldNothing(cl[c])
    BY <1>1, <1>2 DEF KeysUpTo, Flow
  <2>. QED  BY <1>1, <1>2, <2>1, <2>2, ToImageLeads, AfterTyped DEF Onward, Writing
<1>3. CASE cl[c].req.method # "PATCH"
  <2>1. cl'[c] = Finish(cl[c], TRUE)
    BY <1>3, BecomeIs DEF AddImageFails
  <2>. QED  BY <1>1, <2>1, FinishLeads DEF Onward
<1>. QED  BY <1>2, <1>3

LEMMA WriteNameFlows ==
  ASSUME TypeInv, NEW c \in Client, NEW k, Flow(cl[c], k, smComp), WriteName(c)
  PROVE  /\ Flow(cl'[c], k, smComp) /\ cl'[c].pc \notin Inner
         /\ cl'[c].pc = "ok" => HeldNothing(cl'[c])
<1>1. PICK n \in cl[c].todo :
        LET m == [cl[c] EXCEPT !.todo = @ \ {n}]
        IN  Become(c, IF m.todo = {} THEN Finish(m, FALSE) ELSE m)
  BY DEF WriteName
<1> DEFINE m == [cl[c] EXCEPT !.todo = @ \ {n}]
<1>2. cl[c] \in State /\ cl[c].pc = "write"
  BY OwnState DEF WriteName
<1>3. /\ m \in State /\ m.req = cl[c].req /\ m.ids = cl[c].ids /\ m.held = cl[c].held
      /\ m.pc = "write" /\ m.todo = cl[c].todo \ {n}
  BY <1>2 DEF State
<1>4. cl'[c] = Finish(m, FALSE) \/ cl'[c] = m
  BY <1>1, BecomeIs
<1> HIDE DEF m
<1>5. Flow(m, k, smComp) /\ m.pc \notin Inner /\ m.pc # "ok" /\ HeldNothing(m)
  BY <1>2, <1>3 DEF Flow, Inner, HeldNothing, KeysUpTo, HasKeys
<1>6. LET e == Finish(m, FALSE) IN Flow(e, k, smComp) /\ e.pc \notin Inner /\ HeldNothing(e)
  BY <1>3, <1>5, FinishFollows DEF Flow, Inner, HeldNothing, Follows
<1>. QED  BY <1>4, <1>5, <1>6

LEMMA ApplyPatchOnward ==
  ASSUME TypeInv, NEW c \in Client, NEW n \in Name, NEW k, Flow(cl[c], k, smComp),
         ApplyPatch(c, n)
  PROVE  Onward(c, k)
<1>1. cl[c] \in State /\ cl[c].pc = "apply" /\ cl[c].req.method = "PATCH"
      /\ AtNames(cl[c], k, smComp)
  BY OwnState DEF ApplyPatch, Flow
<1>2. ASSUME NEW e \in State, e.req = cl[c].req, e.ids = cl[c].ids, e.held = cl[c].held,
             e.todo = cl[c].todo, e.pc = "apply", cl'[c] = Applied(e, n)
      PROVE  Onward(c, k)
  <2> DEFINE h == [e.held EXCEPT ![n] = Absent]
             d == [e EXCEPT !.held = h]
  <2>1. h \in [Name -> Record \union {Absent}] /\ \A x \in Name : h[x] \in {e.held[x], Absent}
    BY DEF State
  <2> HIDE DEF h
  <2>2. /\ d \in State /\ d.req = e.req /\ d.ids = e.ids /\ d.held = h /\ d.todo = e.todo
        /\ d.pc = "apply"
    BY <1>2, <2>1 DEF State
  <2>3. Applied(e, n) = IF d.held = NoCopies THEN Finish(d, d.last) ELSE d
    BY DEF Applied, h
  <2>4. d.last \in BOOLEAN
    BY <2>2 DEF State
  <2> HIDE DEF d
  <2>5. AtNames(d, k, smComp)
    BY <1>1, <1>2, <2>1, <2>2 DEF AtNames, KeysUpTo, HasKeys
  <2>6. Leads(d, k, smComp)
    BY <1>1, <1>2, <2>2, <2>5 DEF Leads, Fresh, Flow, Inner
  <2>. QED  BY <1>1, <1>2, <2>2, <2>3, <2>4, <2>6, FinishLeads DEF Onward
<1>3. ASSUME NEW b \in BOOLEAN, cl'[c] = Applied([cl[c] EXCEPT !.last = b], n)
      PROVE  Onward(c, k)
  <2> DEFINE e == [cl[c] EXCEPT !.last = b]
  <2>1. /\ e \in State /\ e.req = cl[c].req /\ e.ids = cl[c].ids /\ e.held = cl[c].held
        /\ e.todo = cl[c].todo /\ e.pc = "apply"
    BY <1>1 DEF State
  <2> HIDE DEF e
  <2>. QED  BY <1>2, <1>3, <2>1 DEF e
<1>4. \/ cl'[c] = Applied([cl[c] EXCEPT !.last = FALSE], n)
      \/ cl'[c] = Applied(cl[c], n)
      \/ cl'[c] = Applied([cl[c] EXCEPT !.last = TRUE], n)
  BY BecomeIs DEF ApplyPatch
<1>. QED  BY <1>1, <1>2, <1>3, <1>4

LEMMA DeleteRecordOnward ==
  ASSUME TypeInv, NEW c \in Client, NEW k, Flow(cl[c], k, smComp), DeleteRecord(c)
  PROVE  Onward(c, k)
<1> DEFINE fails == [cl[c] EXCEPT !.err = TRUE]
<1>1. cl[c] \in State /\ cl[c].req.method = "DELETE" /\ AtNames(cl[c], k, smComp)
  BY OwnState DEF DeleteRecord, Flow
<1>2. /\ fails \in State /\ fails.req = cl[c].req /\ fails.ids = cl[c].ids
      /\ fails.held = cl[c].held /\ fails.todo = cl[c].todo
  BY <1>1 DEF State
<1>3. cl'[c] = NextName(cl[c]) \/ cl'[c] = NextName(fails)
  BY BecomeIs DEF DeleteRecord
<1> HIDE DEF fails
<1>4. /\ AtNames(fails, k, smComp) /\ HostsRead(fails, <<>>)
      /\ HostsRead(cl[c], <<>>)
  BY <1>1, <1>2 DEF AtNames, HostsRead, HeldNothing
<1>. QED  BY <1>1, <1>2, <1>3, <1>4, NextNameLeads DEF Onward

LEMMA DroppedLeads ==
  ASSUME NEW m \in State, NEW b \in BOOLEAN, NEW k, NEW comp, m.req.method = "DELETE"
  PROVE  Leads(Dropped(m, b), k, comp)
<1> DEFINE d == [m EXCEPT !.err = @ \/ b, !.last = FALSE, !.held = NoCopies]
<1>1. NoCopies \in [Name -> Record \union {Absent}]
  BY DEF NoCopies
<1>2. m.err \in BOOLEAN
  BY DEF State
<1>3. (m.err \/ b) \in BOOLEAN
  BY <1>2
<1>4. \A x, y \in BOOLEAN, h \in [Name -> Record \union {Absent}] :
        /\ [m EXCEPT !.err = x, !.last = y, !.held = h] \in State
        /\ [m EXCEPT !.err = x, !.last = y, !.held = h].req = m.req
  BY DEF State
<1>5. d \in State /\ d.req = m.req
  BY <1>1, <1>3, <1>4
<1>6. Dropped(m, b) = ToDrop(d, FieldAfter(m.fld))
  BY DEF Dropped
<1> HIDE DEF d
<1>. QED  BY <1>5, <1>6, ToDropLeads

(* In the course, a step of removeImage knows nothing of its own.          *)
LEMMA DropFlows ==
  ASSUME NEW m, m.pc \in DropPc, NEW k, NEW comp
  PROVE  Flow(m, k, comp)
BY DEF DropPc, Flow

(* Which step leads into each of the inner ones.                           *)
Entered(c) ==
  LET p == cl'[c].pc IN
  /\ p = "add" => ImageUnknown(c)
  /\ p = "find" => Begin(c)
  /\ p = "delimage" => FindDropped(c)
  /\ p = "gettags" => DeleteImage(c)
  /\ p = "sweep" => ReadReferrers(c) \/ \E n \in Name : Sweep(c, n)
  /\ p = "fetch" => ReadFound(c) \/ FetchImage(c)
  /\ p = "delete" => ReadFound(c)
  /\ \/ Fresh(cl'[c])
     \/ FetchImage(c)
     \/ WriteName(c) /\ (p = "ok" => HeldNothing(cl'[c]))

LEMMA OnwardEnters ==
  ASSUME NEW c, NEW k, Onward(c, k)
  PROVE  Flow(cl'[c], k, smComp) /\ Entered(c)
BY DEF Onward, Leads, Inner, Entered

LEMMA ImagesOnward ==
  ASSUME TypeInv, NEW c \in Client, NEW k, Flow(cl[c], k, smComp),
         AddImageFails(c) => k # 0,
         FindImage(c) \/ ImageKnown(c) \/ AddImage(c) \/ AddImageFails(c) \/ SetImage(c)
  PROVE  Onward(c, k)
<1>1. CASE ImageKnown(c) \/ AddImage(c)
  BY <1>1, KeyOnward DEF ImageKnown, AddImage
<1>2. CASE SetImage(c)
  <2>1. /\ cl[c] \in State /\ cl[c].req.method \in Writing /\ Nameless(cl[c].req)
        /\ cl'[c] = Finish(cl[c], FALSE) \/ cl'[c] = Finish(cl[c], TRUE)
    BY <1>2, OwnState, BecomeIs DEF SetImage, Flow
  <2>. QED  BY <2>1, FinishLeads DEF Onward, Writing, Nameless
<1>3. CASE AddImageFails(c)
  BY <1>3, AddImageFailsOnward
<1>. QED  BY <1>1, <1>2, <1>3, FindImageOnward

LEMMA FindDroppedFlows ==
  ASSUME TypeInv, NEW c \in Client, NEW k, FindDropped(c)
  PROVE  /\ Flow(cl'[c], k, smComp) /\ Fresh(cl'[c])
         /\ cl'[c].pc \in Inner => cl'[c].pc = "delimage"
<1>1. cl[c] \in State /\ cl[c].pc = "drop" /\ cl[c].req.method = "DELETE"
  BY DropIsDelete DEF FindDropped, DropPc
<1>2. cl'[c] = [cl[c] EXCEPT !.pc = "delimage"] \/ cl'[c] = Dropped(cl[c], FALSE)
  BY BecomeIs DEF FindDropped
<1>3. CASE cl'[c] = [cl[c] EXCEPT !.pc = "delimage"]
  <2>1. cl'[c].pc = "delimage"
    BY <1>1, <1>3 DEF State
  <2>. QED  BY <2>1, DropFlows DEF DropPc, Fresh
<1>4. CASE cl'[c] = Dropped(cl[c], FALSE)
  BY <1>1, <1>4, DroppedLeads DEF Leads
<1>. QED  BY <1>2, <1>3, <1>4

LEMMA DeleteImageFlows ==
  ASSUME TypeInv, NEW c \in Client, NEW k, DeleteImage(c)
  PROVE  /\ Flow(cl'[c], k, smComp) /\ Fresh(cl'[c])
         /\ cl'[c].pc \in Inner => cl'[c].pc = "gettags"
<1>1. cl[c] \in State /\ cl[c].req.method = "DELETE"
  BY DropIsDelete DEF DeleteImage, DropPc
<1>2. cl'[c] = [cl[c] EXCEPT !.pc = "gettags"] \/ cl'[c] = Dropped(cl[c], TRUE)
  BY BecomeIs DEF DeleteImage
<1>3. CASE cl'[c] = [cl[c] EXCEPT !.pc = "gettags"]
  <2>1. cl'[c].pc = "gettags"
    BY <1>1, <1>3 DEF State
  <2>. QED  BY <2>1, DropFlows DEF DropPc, Fresh
<1>4. CASE cl'[c] = Dropped(cl[c], TRUE)
  BY <1>1, <1>4, DroppedLeads DEF Leads
<1>. QED  BY <1>2, <1>3, <1>4

LEMMA ReadReferrersFlows ==
  ASSUME TypeInv, NEW c \in Client, NEW k, ReadReferrers(c)
  PROVE  /\ Flow(cl'[c], k, smComp) /\ Fresh(cl'[c])
         /\ cl'[c].pc \in Inner => cl'[c].pc = "sweep"
<1> DEFINE m == cl[c]
           refers(n) == tags[n] # Absent /\ tags[n][m.fld] = Asked(c)
           copies == [n \in Name |-> IF refers(n) THEN tags[n] ELSE Absent]
           e == [m EXCEPT !.pc = "sweep", !.held = copies]
<1>1. m \in State /\ m.req.method = "DELETE"
  BY DropIsDelete DEF ReadReferrers, DropPc
<1>2. cl'[c] = Dropped(m, FALSE) \/ cl'[c] = Dropped(m, TRUE) \/ cl'[c] = e
  BY BecomeIs DEF ReadReferrers
<1> HIDE DEF m, copies
<1>3. e.pc = "sweep"
  BY <1>1 DEF State
<1> HIDE DEF e
<1>4. CASE cl'[c] = e
  BY <1>3, <1>4, DropFlows DEF DropPc, Fresh
<1>5. CASE cl'[c] = Dropped(m, FALSE) \/ cl'[c] = Dropped(m, TRUE)
  BY <1>1, <1>5, DroppedLeads DEF Leads
<1>. QED  BY <1>2, <1>4, <1>5

LEMMA SweepFlows ==
  ASSUME TypeInv, NEW c \in Client, NEW n \in Name, NEW k, Sweep(c, n)
  PROVE  /\ Flow(cl'[c], k, smComp) /\ Fresh(cl'[c])
         /\ cl'[c].pc \in Inner => cl'[c].pc = "sweep"
<1> DEFINE m == cl[c]
           d(failed) == [m EXCEPT !.held[n] = Absent, !.last = failed]
           swept(failed) == IF d(failed).held = NoCopies THEN Dropped(d(failed), failed) ELSE d(failed)
<1>1. m \in State /\ m.pc = "sweep" /\ m.req.method = "DELETE"
  BY DropIsDelete DEF Sweep, DropPc
<1>2. cl'[c] = swept(FALSE) \/ cl'[c] = swept(TRUE)
  BY BecomeIs DEF Sweep
<1> HIDE DEF m
<1>3. ASSUME NEW b \in BOOLEAN, cl'[c] = swept(b)
      PROVE  /\ Flow(cl'[c], k, smComp) /\ Fresh(cl'[c])
             /\ cl'[c].pc \in Inner => cl'[c].pc = "sweep"
  <2> DEFINE x == d(b)
  <2>1. x \in State /\ x.pc = "sweep" /\ x.req.method = "DELETE"
    BY <1>1 DEF State
  <2>2. cl'[c] = Dropped(x, b) \/ cl'[c] = x
    BY <1>3
  <2> HIDE DEF x
  <2>3. Leads(Dropped(x, b), k, smComp)
    BY <2>1, DroppedLeads
  <2>4. Flow(x, k, smComp)
    BY <2>1, DropFlows DEF DropPc
  <2>. QED  BY <2>1, <2>2, <2>3, <2>4 DEF Leads, Fresh
<1>. QED  BY <1>2, <1>3

(* The flow of handler c after its step, as of then and of what HSM knew.  *)
LEMMA ActsFlow ==
  ASSUME TypeInv, NEW c \in Client, NEW k, Flow(cl[c], k, smComp), Acts(c),
         AddImageFails(c) => k # 0
  PROVE  Flow(cl'[c], k, smComp) /\ Entered(c)
<1>0. CASE WriteName(c)
  BY <1>0, WriteNameFlows DEF Entered, Inner
<1>1. CASE Resolve(c) \/ ReadNothing(c) \/ DeleteRecord(c)
           \/ (\E n \in Name : ApplyPatch(c, n))
  BY <1>1, ResolveOnward, ReadNothingOnward, DeleteRecordOnward,
     ApplyPatchOnward, OnwardEnters
<1>2. CASE FindImage(c) \/ ImageKnown(c) \/ AddImage(c) \/ AddImageFails(c) \/ SetImage(c)
  BY <1>2, ImagesOnward, OnwardEnters
<1>3. CASE WriteFails(c)
  <2>1. cl[c] \in State /\ cl'[c] = Finish(cl[c], TRUE)
    BY <1>3, OwnState, BecomeIs DEF WriteFails
  <2>. QED  BY <2>1, FinishLeads, OnwardEnters DEF Onward
<1>4. CASE Begin(c)
  BY <1>4, BeginOnward DEF Entered, Inner
<1>5. CASE ReadFound(c)
  BY <1>5, ReadFoundOnward DEF Entered, Inner
<1>6. CASE FetchImage(c)
  BY <1>6, FetchImageFlows DEF Entered, Inner
<1>7. CASE ImageUnknown(c)
  BY <1>7, ImageUnknownFlows DEF Entered, Fresh
<1>8. CASE FindDropped(c)
  BY <1>8, FindDroppedFlows DEF Entered, Inner
<1>9. CASE DeleteImage(c)
  BY <1>9, DeleteImageFlows DEF Entered, Inner
<1>10. CASE ReadReferrers(c)
  BY <1>10, ReadReferrersFlows DEF Entered, Inner
<1>11. CASE \E n \in Name : Sweep(c, n)
  BY <1>11, SweepFlows DEF Entered, Inner
<1>. QED
  BY <1>0, <1>1, <1>2, <1>3, <1>4, <1>5, <1>6, <1>7, <1>8, <1>9, <1>10, <1>11 DEF Acts

(* Failures and discoveries only widen the course.                         *)
LEMMA FlowWidens ==
  ASSUME NEW m \in State, NEW j, NEW k, NEW old, NEW new,
         Flow(m, j, old), k = 0 => j = 0, KeysOf(m.req, old) \subseteq KeysOf(m.req, new)
  PROVE  Flow(m, k, new)
<1>1. \A f : KeysUpTo(m, f, j) => KeysUpTo(m, f, k)
  BY DEF KeysUpTo
<1>2. AtNames(m, j, old) => AtNames(m, k, new)
  BY <1>1 DEF AtNames
<1>3. InChain(m, old) => InChain(m, new)
  BY DEF InChain
<1>. QED  BY <1>1, <1>2, <1>3 DEF Flow

LEMMA FaultsGrow ==
  ASSUME TypeInv, NEW c \in Client, Acts(c)
  PROVE  /\ faults' \in Nat /\ (faults' = 0 => faults = 0)
         /\ AddImageFails(c) => faults' # 0
<1>1. (Fault \/ UNCHANGED faults) /\ (AddImageFails(c) => Fault)
  BY DEF Acts, Begin, FindImage, ImageKnown, ImageUnknown, Resolve, ReadFound, ReadNothing,
         FetchImage, AddImage, AddImageFails, SetImage, WriteName, WriteFails, ApplyPatch,
         DeleteRecord, FindDropped, DeleteImage, ReadReferrers, Sweep, ReadsAbsent
<1>2. faults \in Nat
  BY FaultAssumption DEF TypeInv, TypeOK, FaultAssumption
<1>. QED  BY <1>1, <1>2 DEF Fault

LEMMA KeysGrow ==
  ASSUME TypeInv, NEW r \in Request, Discover
  PROVE  KeysOf(r, smComp) \subseteq KeysOf(r, smComp')
<1>1. PICK a \in Alias, h \in Host : smComp[a] = None /\ smComp' = [smComp EXCEPT ![a] = h]
  BY DEF Discover
<1>2. \A b \in Alias : smComp[b] # None => smComp'[b] = smComp[b]
  BY <1>1 DEF TypeInv, TypeOK
<1>. QED  BY <1>2 DEF KeysOf

LEMMA FlowInit == Init => FlowInv
<1> SUFFICES ASSUME Init, NEW c \in Client PROVE Flow(cl[c], faults, smComp)
  BY DEF FlowInv
<1>1. cl[c].pc = "idle"
  BY DEF Init, Blank
<1>. QED  BY <1>1 DEF Flow

LEMMA FlowNext == TypeInv /\ FlowInv /\ [Next]_vars => FlowInv'
<1> SUFFICES ASSUME TypeInv, FlowInv, [Next]_vars PROVE FlowInv'
  OBVIOUS
<1>1. CASE UNCHANGED vars
  BY <1>1 DEF vars, FlowInv
<1>2. CASE Discover
  <2>1. cl' = cl /\ faults' = faults
    BY <1>2 DEF Discover
  <2>2. ASSUME NEW c \in Client  PROVE Flow(cl[c], faults, smComp')
    <3>1. cl[c] \in State /\ cl[c].req \in Request /\ Flow(cl[c], faults, smComp)
      BY OwnState DEF FlowInv
    <3>2. KeysOf(cl[c].req, smComp) \subseteq KeysOf(cl[c].req, smComp')
      BY <1>2, <3>1, KeysGrow
    <3>. QED  BY <3>1, <3>2, FlowWidens
  <2>. QED  BY <2>1, <2>2 DEF FlowInv
<1>3. ASSUME NEW c \in Client, Acts(c)  PROVE FlowInv'
  <2>1. smComp' = smComp
    BY <1>3, SmCompKept
  <2>2. \A d \in Client : Flow(cl[d], faults', smComp)
    BY <1>3, FaultsGrow, FlowWidens, OwnState DEF FlowInv
  <2>3. Flow(cl'[c], faults', smComp)
    BY <1>3, <2>2, FaultsGrow, ActsFlow
  <2>4. \A d \in Client : d # c => cl'[d] = cl[d]
    BY <1>3, ActsMove, BecomeIs DEF Moves
  <2>. QED  BY <2>1, <2>2, <2>3, <2>4 DEF FlowInv
<1>. QED  BY <1>1, <1>2, <1>3, NextIsActs

-----------------------------------------------------------------------------
(* What kvMutex protects.                                                  *)

(* Between imageStore's look and its Store the handler holds the mutex,    *)
(* and the image that was not there is not there.                          *)
MutexInv ==
  \A c \in Client :
    cl[c].pc = "add" => kvMutex = c /\ (faults = 0 => images[Asked(c)] = Absent)

LEMMA MutexInit == Init => MutexInv
BY DEF Init, MutexInv, Blank

LEMMA MutexNext ==
  ASSUME NoImageDelete, TypeInv, RefsInv, FlowInv, MutexInv, NEW c \in Client, Acts(c)
  PROVE  MutexInv'
<1>1. SUFFICES ASSUME NEW d \in Client, cl'[d].pc = "add"
               PROVE  kvMutex' = d /\ (faults' = 0 => images'[cl'[d].req[cl'[d].fld]] = Absent)
  BY DEF MutexInv, Asked
<1>2. Flow(cl[c], faults', smComp)
  BY FaultsGrow, FlowWidens, OwnState DEF FlowInv
<1>3. Entered(c)
  BY <1>2, ActsFlow, FaultsGrow
<1>4. CASE d = c
  <2>1. ImageUnknown(c)
    BY <1>1, <1>3, <1>4 DEF Entered
  <2>2. cl'[c].req = cl[c].req /\ cl'[c].fld = cl[c].fld
    BY <1>2, <2>1, ImageUnknownFlows
  <2>3. kvMutex' = c /\ images' = images /\ ReadsAbsent(images[Asked(c)])
    BY <2>1 DEF ImageUnknown
  <2>4. ~Fault => images[Asked(c)] = Absent
    BY <2>3 DEF ReadsAbsent
  <2>5. Fault => faults' # 0
    BY FaultAssumption DEF Fault, TypeInv, TypeOK, FaultAssumption
  <2>. QED  BY <1>4, <2>2, <2>3, <2>4, <2>5 DEF Asked
<1>5. CASE d # c
  <2>1. cl'[d] = cl[d]
    BY <1>5, ActsMove, BecomeIs DEF Moves
  <2>2. kvMutex = d /\ (faults = 0 => images[Asked(d)] = Absent)
    BY <1>1, <2>1 DEF MutexInv
  <2>3. kvMutex # Free /\ cl[c].pc # "add"
    BY <1>5, <2>2, FreeAssumption DEF MutexInv, FreeAssumption
  <2>4. kvMutex' = kvMutex
    BY <2>3
    DEF Acts, Begin, FindImage, ImageKnown, ImageUnknown, Resolve, ReadFound, ReadNothing,
        FetchImage, AddImage, AddImageFails, SetImage, WriteName, WriteFails, ApplyPatch,
        DeleteRecord, FindDropped, DeleteImage, ReadReferrers, Sweep
  <2>5. ASSUME NEW i \in Image, images[i] = Absent  PROVE images'[i] = Absent
    <3>1. CASE SetImage(c)
      <4> DEFINE x == IF cl[c].ids.kernel # None THEN cl[c].ids.kernel ELSE cl[c].ids.initrd
      <4>1. cl[c].ids # NoRefs /\ cl[c] \in State
        BY <3>1, OwnState DEF SetImage, Coherent
      <4>2. x \in Image /\ x # None
        BY <4>1 DEF State, NoRefs, Image
      <4>3. images[x] # Absent
        BY <4>2 DEF RefsInv, Knows, RefsIn, Field
      <4>4. images' = [images EXCEPT ![x] = cl[c].req.params] \/ images' = images
        BY <3>1 DEF SetImage
      <4> HIDE DEF x
      <4>. QED  BY <2>5, <4>3, <4>4 DEF TypeInv, TypeOK
    <3>2. CASE images' = images
      BY <2>5, <3>2
    <3>3. ~AddImage(c) /\ ~DeleteImage(c)
      BY <2>3, NothingDropped DEF AddImage, DeleteImage, DropPc
    <3>. QED
      BY <3>1, <3>2, <3>3
      DEF Acts, Begin, FindImage, ImageKnown, ImageUnknown, Resolve, ReadFound, ReadNothing,
          FetchImage, AddImageFails, WriteName, WriteFails, ApplyPatch,
          DeleteRecord, FindDropped, ReadReferrers, Sweep
  <2>6. Asked(d) \in Image /\ (faults' = 0 => faults = 0)
    BY <1>1, <2>1, AskedTyped, FaultsGrow
  <2>. QED  BY <2>1, <2>2, <2>4, <2>5, <2>6 DEF Asked
<1>. QED  BY <1>4, <1>5

LEMMA AddKeepsOthers ==
  ASSUME TypeInv, MutexInv, faults' = 0, NEW c \in Client, NEW i \in Image,
         AddImage(c), images[i] # Absent
  PROVE  images'[i] = images[i]
<1>1. faults = 0 /\ images[Asked(c)] = Absent
  BY DEF AddImage, MutexInv
<1>. QED  BY <1>1 DEF AddImage, TypeInv, TypeOK

(* If no request deletes an image, and while no access has failed, an      *)
(* imageStore that stores an image without parameters never overwrites     *)
(* those of an image that is there, however many handlers look for it.     *)
THEOREM ParamsKept ==
  ASSUME NoImageDelete
  PROVE  Spec => ImageParamsKept
<1> DEFINE Inv == TypeInv /\ RefsInv /\ FlowInv /\ MutexInv
<1>1. Init => Inv
  BY TypeInit, RefsInit, FlowInit, MutexInit
<1>2. Inv /\ [Next]_vars => Inv'
  <2>1. TypeInv /\ RefsInv /\ FlowInv /\ [Next]_vars => (TypeInv /\ RefsInv /\ FlowInv)'
    BY TypeNext, RefsNext, FlowNext
  <2>2. ASSUME Inv, [Next]_vars PROVE MutexInv'
    <3>1. CASE UNCHANGED <<images, kvMutex, cl, faults>>
      BY <2>2, <3>1 DEF MutexInv, Asked
    <3>2. CASE \E c \in Client : Acts(c)
      BY <2>2, <3>2, MutexNext
    <3>. QED  BY <2>2, <3>1, <3>2, NextIsActs DEF vars, Discover
  <2>. QED  BY <2>1, <2>2
<1>3. Inv => [faults' = 0 => \A c \in Client, i \in Image :
                AddImage(c) /\ images[i] # Absent => images'[i] = images[i]]_vars
  BY AddKeepsOthers
<1> HIDE DEF Inv
<1>. QED  BY <1>1, <1>2, <1>3, PTL DEF Spec, ImageParamsKept

-----------------------------------------------------------------------------
(* What a lookup serves.                                                   *)

(* A lookup that went on to the initrd has what there was of the kernel.   *)
Halfway(m) ==
  m.pc = "fetch" /\ m.fld = "initrd" =>
    \A n \in Name : m.held[n] # Absent => m.ids.kernel = m.held[n].kernel

Served(m) ==
  m.pc = "ok" =>
    \A n \in Name : m.held[n] # Absent => \A f \in Field : m.ids[f] = m.held[n][f]

ServedInv == faults = 0 => \A c \in Client : Halfway(cl[c]) /\ Served(cl[c])

LEMMA NextRefIs ==
  ASSUME NEW d \in State, d.pc = "fetch", d.req.method = "GET"
  PROVE  LET e == NextRef(d) IN
         /\ e.ids = d.ids /\ e.held = d.held
         /\ IF d.fld = "kernel" THEN e.pc = "fetch" ELSE e.pc = "ok"
<1>1. CASE d.fld = "kernel"
  BY <1>1 DEF NextRef, State
<1>2. CASE d.fld # "kernel"
  BY <1>2 DEF NextRef, Finish, Blank
<1>. QED  BY <1>1, <1>2

(* The image of the field under way is the one the record names.           *)
LEMMA FetchKnows ==
  ASSUME TypeInv, RefsInv, FlowInv, NEW c \in Client, FetchImage(c), faults' = 0,
         NEW n \in Name, cl[c].held[n] # Absent
  PROVE  LET m == cl[c] IN
         /\ m.held[n] \in Record /\ m.fld \in Field
         /\ \E d \in State :
              /\ cl'[c] = NextRef(d)
              /\ d.pc = "fetch" /\ d.req = m.req /\ d.fld = m.fld /\ d.held = m.held
              /\ d.ids[m.fld] = m.held[n][m.fld]
              /\ m.fld = "initrd" => d.ids.kernel = m.ids.kernel
<1> DEFINE m == cl[c]
<1>1. m \in State /\ m.pc = "fetch" /\ m.fld \in Field
  BY OwnState DEF FetchImage, State
<1>2. m.held[n] \in Record
  BY <1>1 DEF State
<1>3. AtImagesOf(m)
  BY <1>1 DEF FlowInv, Flow
<1>4. ~Fault
  BY FaultAssumption DEF Fault, TypeInv, TypeOK, FaultAssumption
<1>5. CASE \E x \in Name :
             /\ m.held[x] # Absent /\ m.held[x][m.fld] # None
             /\ cl'[c] = NextRef([m EXCEPT !.ids[m.fld] = m.held[x][m.fld]])
  <2> DEFINE i == m.held[n][m.fld]
             d == [m EXCEPT !.ids[m.fld] = i]
  <2>1. cl'[c] = NextRef(d)
    BY <1>3, <1>5 DEF AtImagesOf
  <2>2. /\ m.fld = "kernel" => i \in Kernel \union {None}
        /\ m.fld = "initrd" => i \in Initrd \union {None}
    BY <1>2 DEF Record
  <2> HIDE DEF m, i
  <2>3. /\ d \in State /\ d.pc = "fetch" /\ d.req = m.req /\ d.fld = m.fld
        /\ d.held = m.held /\ d.ids[m.fld] = i
        /\ m.fld = "initrd" => d.ids.kernel = m.ids.kernel
    BY <1>1, <2>2 DEF State, Field
  <2> HIDE DEF d
  <2>. QED  BY <1>1, <1>2, <2>1, <2>3 DEF i, m
<1>6. CASE /\ \A x \in Name : m.held[x] # Absent /\ m.held[x][m.fld] # None
                                => images[m.held[x][m.fld]] = Absent
           /\ cl'[c] = NextRef(m)
  <2>1. m.held[n][m.fld] # None => images[m.held[n][m.fld]] # Absent
    BY <1>1 DEF RefsInv, Knows, RefsIn
  <2>2. m.held[n][m.fld] = None
    BY <1>6, <2>1
  <2>3. m.ids[m.fld] = None
    BY <1>1, <1>3 DEF AtImagesOf, Field
  <2>. QED  BY <1>1, <1>2, <1>6, <2>2, <2>3
<1>. QED  BY <1>4, <1>5, <1>6, FetchImageIs

LEMMA FetchServes ==
  ASSUME TypeInv, RefsInv, FlowInv, ServedInv, NEW c \in Client, FetchImage(c), faults' = 0
  PROVE  Halfway(cl'[c]) /\ Served(cl'[c])
<1> DEFINE m == cl[c]
<1>1. m \in State /\ m.pc = "fetch" /\ m.req.method = "GET" /\ faults = 0
  <2>1. faults = 0
    BY FaultsGrow DEF Acts
  <2>. QED  BY <2>1, OwnState DEF FetchImage, FlowInv, Flow, AtImagesOf
<1>2. \A x \in Name : cl'[c].held[x] \in {m.held[x], Absent}
  <2>1. PICK d \in State : cl'[c] = NextRef(d) /\ d.pc = "fetch" /\ d.held = m.held /\ d.req = m.req
    <3>1. ASSUME NEW x \in Name, m.held[x] # Absent, m.held[x][m.fld] # None,
                 cl'[c] = NextRef([m EXCEPT !.ids[m.fld] = m.held[x][m.fld]])
          PROVE  \E d \in State : cl'[c] = NextRef(d) /\ d.pc = "fetch" /\ d.held = m.held /\ d.req = m.req
      BY <3>1, FetchKnows
    <3>. QED  BY <1>1, <3>1, FetchImageIs
  <2>. QED  BY <1>1, <2>1, NextRefIs
<1>3. ASSUME NEW n \in Name, cl'[c].held[n] # Absent
      PROVE  /\ cl'[c].pc = "fetch" /\ cl'[c].fld = "initrd"
                  => cl'[c].ids.kernel = cl'[c].held[n].kernel
             /\ cl'[c].pc = "ok" => \A f \in Field : cl'[c].ids[f] = cl'[c].held[n][f]
  <2>1. m.held[n] # Absent
    BY <1>2, <1>3
  <2>2. m.fld \in Field
    BY <1>1 DEF State
  <2>3. PICK d \in State :
              /\ cl'[c] = NextRef(d)
              /\ d.pc = "fetch" /\ d.req = m.req /\ d.fld = m.fld /\ d.held = m.held
              /\ d.ids[m.fld] = m.held[n][m.fld]
              /\ m.fld = "initrd" => d.ids.kernel = m.ids.kernel
    BY <2>1, FetchKnows
  <2>4. /\ cl'[c].ids = d.ids /\ cl'[c].held = m.held
        /\ IF m.fld = "kernel" THEN cl'[c].pc = "fetch" ELSE cl'[c].pc = "ok"
    BY <1>1, <2>3, NextRefIs
  <2>5. m.fld = "initrd" => m.ids.kernel = m.held[n].kernel
    BY <1>1, <2>1 DEF ServedInv, Halfway
  <2>. QED  BY <2>2, <2>3, <2>4, <2>5 DEF Field
<1>. QED  BY <1>3 DEF Halfway, Served


LEMMA ServedNext ==
  ASSUME NoImageDelete, TypeInv, RefsInv, FlowInv, ServedInv, NEW c \in Client, Acts(c)
  PROVE  ServedInv'
<1>1. SUFFICES ASSUME faults' = 0, NEW d \in Client
               PROVE  Halfway(cl'[d]) /\ Served(cl'[d])
  BY DEF ServedInv, Halfway, Served
<1>2. faults = 0 /\ ~AddImageFails(c)
  BY <1>1, FaultsGrow
<1>3. Flow(cl[c], faults', smComp) /\ cl[c] \in State
  BY <1>1, <1>2, OwnState DEF FlowInv
<1>4. CASE d # c
  BY <1>2, <1>4, ActsMove, BecomeIs DEF Moves, ServedInv
<1>5. CASE d = c /\ FetchImage(c)
  BY <1>1, <1>5, FetchServes
<1>6. CASE d = c /\ ~FetchImage(c)
  <2>1. Entered(c)
    BY <1>2, <1>3, ActsFlow
  <2>2. cl'[c].pc = "fetch" => cl'[c].fld = "kernel"
    BY <1>3, <1>6, <2>1, ReadFoundOnward DEF Entered
  <2>3. cl'[c].pc = "ok" => HeldNothing(cl'[c])
    BY <1>6, <2>1 DEF Entered, Fresh, Answered
  <2>. QED  BY <1>6, <2>2, <2>3 DEF Halfway, Served, HeldNothing
<1>. QED  BY <1>4, <1>5, <1>6

LEMMA ServedInit == Init => ServedInv
BY DEF Init, ServedInv, Halfway, Served, Blank

(* If no request deletes an image, and while no access has failed, a       *)
(* lookup answers with every image that the record it found names, however *)
(* many other handlers write records and images between its reads.         *)
THEOREM LookupsWhole ==
  ASSUME NoImageDelete
  PROVE  Spec => []ServedWhole
<1> DEFINE Inv == TypeInv /\ RefsInv /\ FlowInv /\ ServedInv
<1>1. Init => Inv
  BY TypeInit, RefsInit, FlowInit, ServedInit
<1>2. Inv /\ [Next]_vars => Inv'
  <2>1. TypeInv /\ RefsInv /\ FlowInv /\ [Next]_vars => (TypeInv /\ RefsInv /\ FlowInv)'
    BY TypeNext, RefsNext, FlowNext
  <2>2. ASSUME Inv, [Next]_vars PROVE ServedInv'
    <3>1. CASE UNCHANGED <<cl, faults>>
      BY <2>2, <3>1 DEF ServedInv, Halfway, Served
    <3>2. CASE \E c \in Client : Acts(c)
      BY <2>2, <3>2, ServedNext
    <3>. QED  BY <2>2, <3>1, <3>2, NextIsActs DEF vars, Discover
  <2>. QED  BY <2>1, <2>2
<1>3. Inv => ServedWhole
  BY DEF ServedInv, Served, ServedWhole
<1> HIDE DEF Inv
<1>. QED  BY <1>1, <1>2, <1>3, PTL DEF Spec

-----------------------------------------------------------------------------
(* What a lone client is told.                                             *)

LoneClient == \A c, d \in Client : c = d

(* Its handler's copies are what is stored.                                *)
HeldIsStored ==
  \A c \in Client, n \in Name : cl[c].held[n] # Absent => cl[c].held[n] = tags[n]

LEMMA ReqKept ==
  ASSUME TypeInv, NEW c \in Client, Acts(c)
  PROVE  cl'[c].req = cl[c].req \/ Begin(c)
BY ActsMove, BecomeIs DEF Moves, Follows

(* A handler that writes a record has no copy of it afterwards.            *)
LEMMA WritersForget ==
  ASSUME TypeInv, FlowInv, NEW c \in Client, Acts(c), NEW n \in Name, tags'[n] # tags[n]
  PROVE  cl'[c].held[n] = Absent
<1>1. cl[c] \in State /\ Flow(cl[c], faults, smComp)
  BY OwnState DEF FlowInv
<1>2. CASE WriteName(c)
  <2>1. PICK x \in cl[c].todo :
          LET m == [cl[c] EXCEPT !.todo = @ \ {x}]
          IN  Become(c, IF m.todo = {} THEN Finish(m, FALSE) ELSE m)
    BY <1>2 DEF WriteName
  <2> DEFINE m == [cl[c] EXCEPT !.todo = @ \ {x}]
  <2>2. m \in State /\ m.held = cl[c].held
    BY <1>1 DEF State
  <2>3. cl'[c] = Finish(m, FALSE) \/ cl'[c] = m
    BY <2>1, BecomeIs
  <2>4. m.held[n] = Absent
    BY <1>1, <1>2, <2>2 DEF WriteName, Flow, HeldNothing
  <2> HIDE DEF m
  <2>. QED  BY <2>2, <2>3, <2>4, FinishFollows DEF Follows
<1>3. CASE DeleteRecord(c)
  <2>1. cl[c].held[n] = Absent
    BY <1>1, <1>3 DEF DeleteRecord, Flow, AtNames, HeldNothing
  <2>2. cl'[c] = NextName(cl[c])
    BY <1>3, BecomeIs DEF DeleteRecord
  <2>. QED  BY <1>1, <2>1, <2>2, NextNameFollows DEF Follows
<1>4. ASSUME NEW x \in Name, ApplyPatch(c, x)
      PROVE  cl'[c].held[n] = Absent
  <2> DEFINE k == [cl[c] EXCEPT !.last = FALSE]
             h == [k.held EXCEPT ![x] = Absent]
             d == [k EXCEPT !.held = h]
  <2>1. x = n /\ cl'[c] = Applied(k, x)
    BY <1>4, BecomeIs DEF ApplyPatch, TypeInv, TypeOK
  <2>2. k \in State
    BY <1>1 DEF State
  <2> HIDE DEF k
  <2>3. h \in [Name -> Record \union {Absent}] /\ h[x] = Absent
    BY <2>2 DEF State
  <2>4. Applied(k, x) = IF d.held = NoCopies THEN Finish(d, d.last) ELSE d
    BY DEF Applied
  <2> HIDE DEF h
  <2>5. d \in State /\ d.held[n] = Absent /\ d.last \in BOOLEAN
    BY <2>1, <2>2, <2>3 DEF State
  <2> HIDE DEF d
  <2>. QED  BY <2>1, <2>4, <2>5, FinishFollows DEF Follows
<1>5. ASSUME NEW x \in Name, Sweep(c, x)
      PROVE  cl'[c].held[n] = Absent
  <2> DEFINE h == [cl[c].held EXCEPT ![x] = Absent]
             d == [cl[c] EXCEPT !.held = h, !.last = FALSE]
  <2>1. x = n /\ cl'[c] = (IF d.held = NoCopies THEN Dropped(d, FALSE) ELSE d)
    BY <1>5, BecomeIs DEF Sweep, TypeInv, TypeOK
  <2>2. h \in [Name -> Record \union {Absent}] /\ h[x] = Absent
    BY <1>1 DEF State
  <2>3. cl[c].req.method = "DELETE"
    BY <1>5, DropIsDelete DEF Sweep, DropPc
  <2> HIDE DEF h
  <2>4. d \in State /\ d.held[n] = Absent /\ d.req.method = "DELETE"
    BY <1>1, <2>1, <2>2, <2>3 DEF State
  <2> HIDE DEF d
  <2>. QED  BY <2>1, <2>4, DroppedFollows DEF Follows
<1>. QED
  BY <1>2, <1>3, <1>4, <1>5
  DEF Acts, Begin, FindImage, ImageKnown, ImageUnknown, Resolve, ReadFound, ReadNothing,
      FetchImage, AddImage, AddImageFails, SetImage, WriteFails,
      FindDropped, DeleteImage, ReadReferrers

LEMMA HeldStoredNext ==
  ASSUME LoneClient, TypeInv, FlowInv, HeldIsStored, NEW c \in Client, Acts(c)
  PROVE  HeldIsStored'
<1>1. SUFFICES ASSUME NEW n \in Name, cl'[c].held[n] # Absent
               PROVE  cl'[c].held[n] = tags'[n]
  BY DEF HeldIsStored, LoneClient
<1>2. cl'[c].held[n] \in {cl[c].held[n], tags[n]}
  BY <1>1, ActsMove, BecomeIs DEF Moves, Follows
<1>. QED  BY <1>1, <1>2, WritersForget DEF HeldIsStored

(* PUT: every name that is not still to come is stored.                    *)
Asks(r) == [params |-> r.params, kernel |-> r.kernel, initrd |-> r.initrd]
Stored(r, n) == Asks(r) \in {tags[k] : k \in {n, KeyOf(n)}}

PutInv ==
  \A c \in Client :
    cl[c].req.method = "PUT" =>
      /\ cl[c].pc = "write" =>
           \A n \in Targets(cl[c].req) : n \in cl[c].todo \/ Stored(cl[c].req, n)
      /\ cl[c].pc = "ok" => \A n \in Targets(cl[c].req) : Stored(cl[c].req, n)

LEMMA WriteStores ==
  ASSUME TypeInv, FlowInv, PutInv, NEW c \in Client, WriteName(c), cl[c].req.method = "PUT"
  PROVE  \A n \in Targets(cl[c].req) :
           \/ cl'[c].pc = "write" /\ n \in cl'[c].todo
           \/ Asks(cl[c].req) \in {tags'[k] : k \in {n, KeyOf(n)}}
<1> DEFINE r == cl[c].req
<1>1. cl[c] \in State /\ cl[c].pc = "write" /\ KeysUpTo(cl[c], "none", faults)
  BY OwnState DEF WriteName, FlowInv, Flow
<1>2. NewRecord(cl[c]) = Asks(r)
  BY <1>1 DEF NewRecord, Asks, KeysUpTo, HasKeys
<1>3. PICK x \in cl[c].todo :
        /\ tags' = [tags EXCEPT ![KeyOf(x)] = NewRecord(cl[c])]
        /\ LET m == [cl[c] EXCEPT !.todo = @ \ {x}]
           IN  Become(c, IF m.todo = {} THEN Finish(m, FALSE) ELSE m)
  BY DEF WriteName
<1> DEFINE m == [cl[c] EXCEPT !.todo = @ \ {x}]
<1>4. m.pc = "write" /\ m.todo = cl[c].todo \ {x} /\ (m.todo = {} \/ cl'[c] = m)
  BY <1>1, <1>3, BecomeIs DEF State
<1> HIDE DEF m
<1>5. SUFFICES ASSUME NEW n \in Targets(r), n \notin cl[c].todo \ {x}
               PROVE  Asks(r) \in {tags'[k] : k \in {n, KeyOf(n)}}
  BY <1>4
<1>6. x \in Name /\ n \in Name /\ KeyOf(x) \in Name /\ KeyOf(n) \in Name
  <2>1. x \in Name /\ n \in Name
    BY <1>1, <1>5, NamesTyped DEF State
  <2>2. \A y \in Name : KeyOf(y) \in Name
    BY DEF KeyOf, Known, TypeInv, TypeOK, Name
  <2>. QED  BY <2>1, <2>2
<1>7. tags'[KeyOf(x)] = Asks(r)
     /\ \A k \in Name : tags[k] = Asks(r) => tags'[k] = Asks(r)
  BY <1>2, <1>3, <1>6 DEF TypeInv, TypeOK
<1>8. CASE n = x
  BY <1>7, <1>8
<1>9. CASE n # x
  <2>1. Stored(r, n)
    BY <1>1, <1>5, <1>9 DEF PutInv
  <2>. QED  BY <1>6, <1>7, <2>1 DEF Stored
<1>. QED  BY <1>8, <1>9

LEMMA PutNext ==
  ASSUME LoneClient, TypeInv, FlowInv, PutInv, NEW c \in Client, Acts(c)
  PROVE  PutInv'
<1> DEFINE r == cl'[c].req
<1>1. SUFFICES ASSUME r.method = "PUT", cl'[c].pc \in {"write", "ok"}, NEW n \in Targets(r)
               PROVE  \/ cl'[c].pc = "write" /\ n \in cl'[c].todo
                      \/ Asks(r) \in {tags'[k] : k \in {n, KeyOf(n)'}}
  BY DEF PutInv, LoneClient, Stored
<1>2. KeyOf(n)' = KeyOf(n)
  BY SmCompKept DEF KeyOf, Known
<1>3. Flow(cl[c], faults', smComp)
  BY FaultsGrow, FlowWidens, OwnState DEF FlowInv
<1>4. CASE WriteName(c)
  <2>1. cl'[c].req = cl[c].req
    BY <1>3, <1>4, ReqKept DEF WriteName, Begin, Done
  <2>. QED  BY <1>1, <1>2, <1>4, <2>1, WriteStores
<1>5. CASE FetchImage(c)
  <2>1. cl'[c].req = cl[c].req
    BY <1>5, ReqKept DEF FetchImage, Begin, Done
  <2>. QED  BY <1>1, <1>3, <1>5, <2>1 DEF FetchImage, Flow, AtImagesOf
<1>6. CASE ~WriteName(c) /\ ~FetchImage(c)
  <2>1. Fresh(cl'[c])
    BY <1>3, <1>6, ActsFlow, FaultsGrow DEF Entered
  <2>. QED  BY <1>1, <2>1 DEF Fresh, Answered
<1>. QED  BY <1>4, <1>5, <1>6

LEMMA PutDiscover ==
  ASSUME TypeInv, PutInv, Discover
  PROVE  PutInv'
<1>1. tags' = tags /\ cl' = cl
  BY DEF Discover
<1>2. PICK a \in Alias, h \in Host : smComp[a] = None /\ smComp' = [smComp EXCEPT ![a] = h]
  BY DEF Discover
<1>3. ASSUME NEW n, Known(n)  PROVE KeyOf(n)' = KeyOf(n)
  BY <1>2, <1>3, NameAssumption DEF KeyOf, Known, TypeInv, TypeOK, NameAssumption, Name
<1>4. ASSUME NEW n, NEW r, Stored(r, n)  PROVE Stored(r, n)'
  BY <1>1, <1>3, <1>4 DEF Stored, Asks, KeyOf
<1>. QED  BY <1>1, <1>4 DEF PutInv, Stored

(* DELETE: a handler that will not answer with an error has deleted every  *)
(* host's record, or will look for it, or is at it.                        *)
Clean(m) == m.pc = "ok" \/ (~m.err /\ m.pc \notin Done)

ToGo(m, h) ==
  \/ m.pc \in {"resolve", "read", "delete"} /\ h \in m.todo
  \/ m.pc \in {"read", "delete"} /\ m.chain = <<h>>

DeleteInv ==
  \A c \in Client :
    cl[c].req.method = "DELETE" /\ Clean(cl[c]) =>
      \A h \in cl[c].req.hosts : tags[h] = Absent \/ ToGo(cl[c], h)

(* e is the handler after m, and answers no better than m would.           *)
NoBetter(m, e) == Clean(e) => ~m.err

LEMMA ToDropDeletes ==
  ASSUME NEW m \in State, NEW f, m.req.method = "DELETE"
  PROVE  NoBetter(m, ToDrop(m, f))
<1>1. ASSUME NEW g \in Field  PROVE NoBetter(m, [m EXCEPT !.pc = "drop", !.fld = g])
  <2> DEFINE e == [m EXCEPT !.pc = "drop", !.fld = g]
  <2>1. e.pc = "drop" /\ e.err = m.err
    BY DEF State
  <2> HIDE DEF e
  <2>2. NoBetter(m, e)
    BY <2>1 DEF NoBetter, Clean
  <2>. QED  BY <2>2 DEF e
<1>2. NoBetter(m, Finish(m, m.err))
  BY DEF NoBetter, Clean, Finish, Blank, Done
<1>. QED  BY <1>1, <1>2 DEF ToDrop, Field

LEMMA NextNameDeletes ==
  ASSUME NEW m \in State, m.req.method = "DELETE"
  PROVE  /\ NoBetter(m, NextName(m))
         /\ m.todo # {} => NextName(m).pc = "resolve" /\ NextName(m).todo = m.todo
<1> DEFINE d == [m EXCEPT !.chain = <<>>]
<1>1. /\ d \in State /\ d.req = m.req /\ d.todo = m.todo /\ d.err = m.err
  <2>1. \A s \in Seq(Name) :
          LET x == [m EXCEPT !.chain = s]
          IN  x \in State /\ x.req = m.req /\ x.todo = m.todo /\ x.err = m.err
    BY DEF State
  <2>2. <<>> \in Seq(Name)
    OBVIOUS
  <2> HIDE DEF d
  <2>. QED  BY ONLY <2>1, <2>2, Zenon DEF d
<1> HIDE DEF d
<1>2. CASE m.todo # {}
  <2> DEFINE e == [d EXCEPT !.pc = "resolve"]
  <2>1. NextName(m) = e
    BY <1>2 DEF NextName, d
  <2>2. e.pc = "resolve" /\ e.todo = d.todo /\ e.err = d.err
    BY <1>1 DEF State
  <2> HIDE DEF e
  <2>. QED  BY <1>1, <1>2, <2>1, <2>2 DEF NoBetter, Clean
<1>3. CASE m.todo = {}
  <2>1. NextName(m) = ToDrop(d, "kernel")
    BY <1>3 DEF NextName, d
  <2>2. NoBetter(d, ToDrop(d, "kernel"))
    BY <1>1, ToDropDeletes
  <2>. QED  BY <1>1, <1>3, <2>1, <2>2 DEF NoBetter
<1>. QED  BY <1>2, <1>3

LEMMA DroppedDeletes ==
  ASSUME NEW m \in State, NEW b \in BOOLEAN, m.req.method = "DELETE"
  PROVE  NoBetter(m, Dropped(m, b)) /\ (b => ~Clean(Dropped(m, b)))
<1> DEFINE d == [m EXCEPT !.err = @ \/ b, !.last = FALSE, !.held = NoCopies]
<1>1. NoCopies \in [Name -> Record \union {Absent}]
  BY DEF NoCopies
<1>2. m.err \in BOOLEAN
  BY DEF State
<1>3. (m.err \/ b) \in BOOLEAN
  BY <1>2
<1>4. \A x, y \in BOOLEAN, h \in [Name -> Record \union {Absent}] :
        LET k == [m EXCEPT !.err = x, !.last = y, !.held = h]
        IN  k \in State /\ k.req = m.req /\ k.err = x
  BY DEF State
<1>5. d \in State /\ d.req = m.req /\ d.err = (m.err \/ b)
  BY <1>1, <1>3, <1>4, ZenonT(30)
<1>6. Dropped(m, b) = ToDrop(d, FieldAfter(m.fld))
  BY DEF Dropped
<1> HIDE DEF d
<1>7. NoBetter(d, Dropped(m, b))
  BY <1>5, <1>6, ToDropDeletes
<1>. QED  BY <1>5, <1>7 DEF NoBetter

(* The steps of Remove through the names.                                  *)
LEMMA DeleteNames ==
  ASSUME TypeInv, FlowInv, DeleteInv, NEW c \in Client, cl[c].req.method = "DELETE",
         Resolve(c) \/ ReadFound(c) \/ ReadNothing(c) \/ DeleteRecord(c),
         Clean(cl'[c]), NEW h \in cl[c].req.hosts
  PROVE  tags'[h] = Absent \/ ToGo(cl'[c], h)
<1> DEFINE m == cl[c]
<1>1. m \in State /\ h \in Host /\ h \in Name /\ m.req \in Request
  BY OwnState DEF State, Request, Name
<1>2. Clean(m) => tags[h] = Absent \/ ToGo(m, h)
  BY DEF DeleteInv
<1>3. CASE Resolve(c)
  <2>1. m.pc = "resolve" /\ tags' = tags /\ AtNames(m, faults, smComp)
    BY <1>3 DEF Resolve, FlowInv, Flow
  <2>2. PICK n \in m.todo :
          LET chain == Tries(m.req.method, n)
              e == [m EXCEPT !.todo = @ \ {n}, !.chain = chain, !.pc = "read"]
          IN  Become(c, IF chain = <<>> THEN NextName(e) ELSE e)
    BY <1>3 DEF Resolve
  <2> DEFINE chain == Tries(m.req.method, n)
             e == [m EXCEPT !.todo = @ \ {n}, !.chain = chain, !.pc = "read"]
  <2>3. n \in Name /\ n \in AllNames(m.req)
    BY <1>1, <2>1 DEF State, AtNames
  <2>4. chain \in Seq(Name) /\ (n = h => chain = <<h>>)
    BY <1>1, <2>3, TriesTyped, TriesKeys
  <2>5. cl'[c] = IF chain = <<>> THEN NextName(e) ELSE e
    BY <2>2, BecomeIs
  <2> HIDE DEF m, chain
  <2>6. /\ e \in State /\ e.req = m.req /\ e.todo = m.todo \ {n} /\ e.chain = chain
        /\ e.pc = "read" /\ e.err = m.err
    BY <1>1, <2>4 DEF State, Pc
  <2> HIDE DEF e
  <2>7. NoBetter(e, NextName(e)) /\ (e.todo # {} => NextName(e).pc = "resolve" /\ NextName(e).todo = e.todo)
    BY <2>6, NextNameDeletes DEF m
  <2>8. ~m.err
    BY <2>5, <2>6, <2>7 DEF NoBetter, Clean
  <2>9. tags[h] = Absent \/ h \in m.todo
    BY <1>2, <2>1, <2>8 DEF Clean, Done, ToGo
  <2>10. <<>> # <<h>>
    BY <1>1
  <2>. QED  BY <2>1, <2>4, <2>5, <2>6, <2>7, <2>9, <2>10 DEF ToGo
<1>4. CASE ReadFound(c)
  <2> DEFINE e == [m EXCEPT !.pc = "delete"]
  <2>1. m.pc = "read" /\ tags' = tags /\ cl'[c] = e
    BY <1>4, BecomeIs DEF ReadFound
  <2>2. e.pc = "delete" /\ e.todo = m.todo /\ e.chain = m.chain /\ e.err = m.err
    BY <1>1 DEF State
  <2> HIDE DEF e
  <2>. QED  BY <1>2, <2>1, <2>2 DEF Clean, ToGo, Done
<1>5. CASE ReadNothing(c)
  <2> DEFINE fails == [m EXCEPT !.err = TRUE]
             t == Tail(m.chain)
             next == [m EXCEPT !.chain = t]
  <2>1. m.pc = "read" /\ tags' = tags /\ m.chain \in Seq(Name)
        /\ cl'[c] = IF Len(m.chain) > 1 THEN next ELSE NextName(fails)
    BY <1>1, <1>5, BecomeIs DEF ReadNothing, State
  <2>2. fails \in State /\ fails.req = m.req /\ fails.err
    BY <1>1 DEF State
  <2> HIDE DEF fails
  <2>3. Len(m.chain) > 1
    <3>1. ~Clean(NextName(fails))
      BY <2>2, NextNameDeletes DEF NoBetter
    <3>. QED  BY <2>1, <3>1
  <2>4. t \in Seq(Name)
    BY <2>1, <2>3, TailTyped
  <2> HIDE DEF t
  <2>5. next.pc = "read" /\ next.todo = m.todo /\ next.err = m.err
    BY <1>1, <2>1, <2>4 DEF State
  <2> HIDE DEF next
  <2>6. m.chain # <<h>>
    <3>1. Len(<<h>>) = 1 /\ ~(1 > 1)
      OBVIOUS
    <3>. QED  BY <2>3, <3>1, Zenon
  <2>. QED  BY <1>2, <2>1, <2>3, <2>5, <2>6 DEF Clean, ToGo, Done
<1>6. CASE DeleteRecord(c)
  <2> DEFINE fails == [m EXCEPT !.err = TRUE]
  <2>1. m.pc = "delete" /\ m.chain # <<>> /\ m.chain \in Seq(Name)
    BY <1>1, <1>6 DEF DeleteRecord, FlowInv, Flow, State
  <2>2. fails \in State /\ fails.req = m.req /\ fails.err
    BY <1>1 DEF State
  <2>3. ~Clean(NextName(fails))
    <3> HIDE DEF fails
    <3>. QED  BY <2>2, NextNameDeletes DEF NoBetter
  <2>4. tags' = [tags EXCEPT ![Head(m.chain)] = Absent] /\ cl'[c] = NextName(m)
    BY <1>6, <2>3, BecomeIs DEF DeleteRecord
  <2>5. NoBetter(m, cl'[c]) /\ (m.todo # {} => cl'[c].pc = "resolve" /\ cl'[c].todo = m.todo)
    BY <1>1, <2>4, NextNameDeletes
  <2>6. tags[h] = Absent \/ ToGo(m, h)
    BY <1>2, <2>1, <2>5 DEF Clean, NoBetter, Done
  <2>7. m.chain = <<h>> => Head(m.chain) = h
    OBVIOUS
  <2>8. tags[h] = Absent \/ m.chain = <<h>> => tags'[h] = Absent
    BY <1>1, <2>4, <2>7 DEF TypeInv, TypeOK
  <2>. QED  BY <2>5, <2>6, <2>8 DEF ToGo
<1>. QED  BY <1>3, <1>4, <1>5, <1>6

(* The steps of removeImage, after the names.                              *)
LEMMA DeleteImages ==
  ASSUME TypeInv, HeldIsStored, DeleteInv, NEW c \in Client,
         FindDropped(c) \/ DeleteImage(c) \/ ReadReferrers(c) \/ \E n \in Name : Sweep(c, n),
         Clean(cl'[c]), NEW h \in cl[c].req.hosts
  PROVE  tags'[h] = Absent
<1> DEFINE m == cl[c]
<1>1. m \in State /\ m.pc \in DropPc /\ m.req.method = "DELETE"
  BY DropIsDelete DEF FindDropped, DeleteImage, ReadReferrers, Sweep, DropPc
<1>2. h \in Name
  BY <1>1 DEF State, Request, Name
<1>3. ~m.err => tags[h] = Absent
  BY <1>1 DEF DeleteInv, Clean, Done, DropPc, ToGo
<1>4. NoBetter(m, Dropped(m, FALSE)) /\ NoBetter(m, Dropped(m, TRUE))
  BY <1>1, DroppedDeletes
<1>5. CASE FindDropped(c) \/ DeleteImage(c)
  <2>1. PICK p \in {"delimage", "gettags"} :
          cl'[c] = [m EXCEPT !.pc = p] \/ cl'[c] \in {Dropped(m, FALSE), Dropped(m, TRUE)}
    BY <1>5, BecomeIs DEF FindDropped, DeleteImage
  <2>2. [m EXCEPT !.pc = p].pc = p /\ [m EXCEPT !.pc = p].err = m.err
    BY <1>1 DEF State
  <2>3. ~m.err
    BY <1>4, <2>1, <2>2 DEF NoBetter, Clean
  <2>. QED  BY <1>3, <1>5, <2>3 DEF FindDropped, DeleteImage
<1>6. CASE ReadReferrers(c)
  <2> DEFINE refers(n) == tags[n] # Absent /\ tags[n][m.fld] = Asked(c)
             copies == [n \in Name |-> IF refers(n) THEN tags[n] ELSE Absent]
             e == [m EXCEPT !.pc = "sweep", !.held = copies]
  <2>1. cl'[c] = e \/ cl'[c] \in {Dropped(m, FALSE), Dropped(m, TRUE)}
    BY <1>6, BecomeIs DEF ReadReferrers
  <2> HIDE DEF copies
  <2>2. e.pc = "sweep" /\ e.err = m.err
    BY <1>1 DEF State
  <2> HIDE DEF e
  <2>3. ~m.err
    BY <1>4, <2>1, <2>2 DEF NoBetter, Clean
  <2>. QED  BY <1>3, <1>6, <2>3 DEF ReadReferrers
<1>7. ASSUME NEW n \in Name, Sweep(c, n)
      PROVE  tags'[h] = Absent
  <2> DEFINE d(failed) == [m EXCEPT !.held[n] = Absent, !.last = failed]
             swept(failed) == IF d(failed).held = NoCopies THEN Dropped(d(failed), failed) ELSE d(failed)
  <2>1. cl'[c] = swept(FALSE) \/ cl'[c] = swept(TRUE)
    BY <1>7, BecomeIs DEF Sweep
  <2>2. ASSUME NEW b \in BOOLEAN, cl'[c] = swept(b)  PROVE ~m.err
    <3> DEFINE x == d(b)
    <3> HIDE DEF m
    <3>1. x \in State /\ x.req.method = "DELETE" /\ x.err = m.err /\ x.pc = m.pc
      BY <1>1 DEF State
    <3>2. cl'[c] = x \/ cl'[c] = Dropped(x, b)
      BY <2>2
    <3> HIDE DEF x
    <3>3. NoBetter(x, Dropped(x, b))
      BY <3>1, DroppedDeletes
    <3>. QED  BY <1>1, <3>1, <3>2, <3>3 DEF NoBetter, Clean, DropPc
  <2>3. tags[h] = Absent
    BY <1>3, <2>1, <2>2
  <2>4. n # h
    BY <1>7, <2>3 DEF Sweep, HeldIsStored
  <2>5. tags' = tags \/ \E r : tags' = [tags EXCEPT ![n] = r]
    BY <1>7 DEF Sweep
  <2>. QED  BY <1>2, <2>3, <2>4, <2>5 DEF TypeInv, TypeOK
<1>. QED  BY <1>5, <1>6, <1>7

LEMMA StartDeletes ==
  ASSUME NEW r \in Request, r.method = "DELETE", NEW h \in r.hosts
  PROVE  Start(r).pc = "resolve" /\ h \in Start(r).todo
<1> DEFINE s == AllNames(r)
           m == [Blank(r) EXCEPT !.todo = s]
<1>1. Blank(r) \in State /\ Blank(r).req = r
  BY BlankTyped DEF Handler
<1>2. s \in SUBSET Name /\ h \in s
  BY NamesTyped DEF AllNames
<1>3. Start(r) = NextName(m)
  BY DEF Start
<1> HIDE DEF s
<1>4. m \in State /\ m.req = r /\ m.todo = s
  <2> HIDE DEF m
  <2>1. \A k \in State : LET e == [k EXCEPT !.todo = s]
                         IN  e \in State /\ e.req = k.req /\ e.todo = s
    BY <1>2 DEF State
  <2>. QED  BY <1>1, <2>1 DEF m
<1> HIDE DEF m
<1>. QED  BY <1>2, <1>3, <1>4, NextNameDeletes

LEMMA DeleteNext ==
  ASSUME LoneClient, TypeInv, FlowInv, HeldIsStored, DeleteInv, NEW c \in Client, Acts(c)
  PROVE  DeleteInv'
<1>1. SUFFICES ASSUME cl'[c].req.method = "DELETE", Clean(cl'[c]), NEW h \in cl'[c].req.hosts
               PROVE  tags'[h] = Absent \/ ToGo(cl'[c], h)
  BY DEF DeleteInv, LoneClient
<1>2. CASE Begin(c)
  <2>1. PICK r \in Request : cl'[c] = Start(r)
    BY <1>2, BecomeIs, RequestAssumption DEF Begin, RequestAssumption
  <2>2. Start(r).req = r
    BY StartFollows, BlankTyped DEF Follows
  <2>. QED  BY <1>1, <2>1, <2>2, StartDeletes DEF ToGo
<1>3. CASE ~Begin(c)
  <2>1. cl'[c].req = cl[c].req
    BY <1>3, ReqKept
  <2>2. CASE Resolve(c) \/ ReadFound(c) \/ ReadNothing(c) \/ DeleteRecord(c)
    BY <1>1, <2>1, <2>2, DeleteNames
  <2>3. CASE FindDropped(c) \/ DeleteImage(c) \/ ReadReferrers(c) \/ \E n \in Name : Sweep(c, n)
    BY <1>1, <2>1, <2>3, DeleteImages
  <2>4. cl[c].pc \notin {"find", "image", "add", "setimage", "write", "apply", "fetch"}
    BY <1>1, <2>1 DEF FlowInv, Flow, Writing, AtImagesOf
  <2>. QED
    BY <1>3, <2>2, <2>3, <2>4
    DEF Acts, FindImage, ImageKnown, ImageUnknown, FetchImage, AddImage, AddImageFails,
        SetImage, WriteName, WriteFails, ApplyPatch
<1>. QED  BY <1>2, <1>3

LEMMA ToldInit == Init => HeldIsStored /\ PutInv /\ DeleteInv
<1> SUFFICES ASSUME Init PROVE HeldIsStored /\ PutInv /\ DeleteInv
  OBVIOUS
<1>1. \A c \in Client : cl[c] = Blank(NoRequest)
  BY DEF Init
<1>2. Blank(NoRequest).req.method = "GET" /\ \A n \in Name : Blank(NoRequest).held[n] = Absent
  BY DEF Blank, NoRequest, NoCopies
<1>. QED  BY <1>1, <1>2 DEF HeldIsStored, PutInv, DeleteInv

(* A lone client that is told its PUT or DELETE succeeded finds each of    *)
(* the names stored as asked, or each of the hosts gone, although Store    *)
(* and Remove access the store once per name and any access may fail.      *)
THEOREM SuccessHolds ==
  ASSUME LoneClient
  PROVE  Spec => []SuccessIsComplete
<1> DEFINE Inv == TypeInv /\ FlowInv /\ HeldIsStored /\ PutInv /\ DeleteInv
<1>1. Init => Inv
  BY TypeInit, FlowInit, ToldInit
<1>2. Inv /\ [Next]_vars => Inv'
  <2>1. TypeInv /\ FlowInv /\ [Next]_vars => (TypeInv /\ FlowInv)'
    BY TypeNext, FlowNext
  <2>2. ASSUME Inv, [Next]_vars PROVE (HeldIsStored /\ PutInv /\ DeleteInv)'
    <3>1. CASE UNCHANGED <<tags, smComp, cl>>
      BY <2>2, <3>1 DEF HeldIsStored, PutInv, DeleteInv, Stored, KeyOf, Known
    <3>2. CASE Discover
      <4>1. tags' = tags /\ cl' = cl
        BY <3>2 DEF Discover
      <4>. QED  BY <2>2, <3>2, <4>1, PutDiscover DEF HeldIsStored, DeleteInv
    <3>3. CASE \E c \in Client : Acts(c)
      BY <2>2, <3>3, HeldStoredNext, PutNext, DeleteNext
    <3>. QED  BY <2>2, <3>1, <3>2, <3>3, NextIsActs DEF vars
  <2>. QED  BY <2>1, <2>2
<1>3. Inv => SuccessIsComplete
  <2> SUFFICES ASSUME Inv, NEW c \in Client, cl[c].pc = "ok"
               PROVE  /\ cl[c].req.method = "PUT" =>
                           \A n \in Targets(cl[c].req) : Stored(cl[c].req, n)
                      /\ cl[c].req.method = "DELETE" =>
                           \A h \in cl[c].req.hosts : tags[h] = Absent
    BY DEF SuccessIsComplete, Stored, Asks
  <2>. QED  BY DEF PutInv, DeleteInv, Clean, ToGo
<1> HIDE DEF Inv
<1>. QED  BY <1>1, <1>2, <1>3, PTL DEF Spec

-----------------------------------------------------------------------------
(* The table a lone client sees.                                           *)

NoFailures == MaxFaults = 0

(* References are to images that are there, but for those to the image     *)
(* that is being taken out; the sweep has a copy of each record with one.  *)
Removing(m, f, i) == m.pc \in {"gettags", "sweep"} /\ f = m.fld /\ i = m.req[f]

RefsKept(m) ==
  \A n \in Name, f \in Field :
    tags[n] # Absent /\ tags[n][f] # None =>
      images[tags[n][f]] # Absent \/ Removing(m, f, tags[n][f])

Referrers(m) ==
  m.pc = "sweep" => \A n \in Name :
    m.held[n] # Absent <=> tags[n] # Absent /\ tags[n][m.fld] = m.req[m.fld]

KeysThere(m) == m.req.method # "DELETE" => RefsIn(m.ids)

Missing(m) == m.pc \in {"add", "gettags", "sweep"} => images[m.req[m.fld]] = Absent

LoneRefs ==
  \A c \in Client :
    RefsKept(cl[c]) /\ Referrers(cl[c]) /\ KeysThere(cl[c]) /\ Missing(cl[c])

LEMMA NeverFails ==
  ASSUME NoFailures, TypeInv
  PROVE  ~Fault
BY DEF NoFailures, TypeInv, TypeOK, Fault

LEMMA DeleteImageIs ==
  ASSUME NoFailures, TypeInv, NEW c \in Client, DeleteImage(c)
  PROVE  LET m == cl[c] IN
         /\ m.pc = "delimage" /\ m.req.method = "DELETE"
         /\ images' = [images EXCEPT ![Asked(c)] = Absent] /\ tags' = tags
         /\ cl'[c].pc = "gettags" /\ cl'[c].req = m.req /\ cl'[c].fld = m.fld
<1>1. cl[c] \in State /\ cl[c].pc = "delimage" /\ cl[c].req.method = "DELETE"
  BY DropIsDelete DEF DeleteImage, DropPc
<1>2. cl'[c] = [cl[c] EXCEPT !.pc = "gettags"] /\ images' = [images EXCEPT ![Asked(c)] = Absent]
  BY NeverFails, BecomeIs DEF DeleteImage
<1>3. cl'[c].pc = "gettags" /\ cl'[c].req = cl[c].req /\ cl'[c].fld = cl[c].fld
  BY <1>1, <1>2 DEF State
<1>. QED  BY <1>1, <1>2, <1>3 DEF DeleteImage

LEMMA ReadReferrersIs ==
  ASSUME NoFailures, TypeInv, NEW c \in Client, ReadReferrers(c)
  PROVE  LET m == cl[c]
             refers(n) == tags[n] # Absent /\ tags[n][m.fld] = Asked(c)
         IN  /\ m.pc = "gettags" /\ images' = images /\ tags' = tags
             /\ \/ cl'[c].pc # "sweep" /\ \A n \in Name : ~refers(n)
                \/ /\ cl'[c].pc = "sweep" /\ cl'[c].req = m.req /\ cl'[c].fld = m.fld
                   /\ \A n \in Name : cl'[c].held[n] # Absent <=> refers(n)
<1> DEFINE m == cl[c]
           refers(n) == tags[n] # Absent /\ tags[n][m.fld] = Asked(c)
           copies == [n \in Name |-> IF refers(n) THEN tags[n] ELSE Absent]
           e == [m EXCEPT !.pc = "sweep", !.held = copies]
<1>1. m \in State /\ m.pc = "gettags" /\ images' = images /\ tags' = tags
  BY OwnState DEF ReadReferrers
<1>2. cl'[c] = IF copies = NoCopies THEN Dropped(m, FALSE) ELSE e
  BY NeverFails, BecomeIs DEF ReadReferrers
<1>3. \A n \in Name : copies[n] # Absent <=> refers(n)
  OBVIOUS
<1>4. CASE copies = NoCopies
  <2>1. \A n \in Name : ~refers(n)
    <3>1. \A n \in Name : NoCopies[n] = Absent
      BY DEF NoCopies
    <3> HIDE DEF copies, refers
    <3>. QED  BY <1>3, <1>4, <3>1
  <2>2. m.req.method = "DELETE"
    BY DropIsDelete DEF ReadReferrers, DropPc
  <2>3. Dropped(m, FALSE).pc # "sweep"
    BY <1>1, <2>2, DroppedLeads DEF Leads, Inner
  <2>. QED  BY <1>1, <1>2, <1>4, <2>1, <2>3
<1>5. CASE copies # NoCopies
  <2> HIDE DEF m, copies
  <2>1. e.pc = "sweep" /\ e.req = m.req /\ e.fld = m.fld /\ e.held = copies
    BY <1>1 DEF State
  <2> HIDE DEF e
  <2>2. cl'[c].pc = "sweep" /\ cl'[c].req = m.req /\ cl'[c].fld = m.fld /\ cl'[c].held = copies
    BY <1>2, <1>5, <2>1
  <2>. QED  BY <1>1, <1>3, <2>2 DEF m
<1>. QED  BY <1>4, <1>5

LEMMA SweepIs ==
  ASSUME NoFailures, TypeInv, HeldIsStored, NEW c \in Client, NEW n \in Name, Sweep(c, n)
  PROVE  LET m == cl[c]
             swept == [tags[n] EXCEPT ![m.fld] = None]
         IN  /\ m.pc = "sweep" /\ images' = images /\ m.held[n] # Absent
             /\ tags[n] \in Record /\ swept \in Record
             /\ tags' = [tags EXCEPT ![n] = swept]
             /\ \/ cl'[c].pc # "sweep" /\ \A x \in Name : x # n => m.held[x] = Absent
                \/ /\ cl'[c].pc = "sweep" /\ cl'[c].req = m.req /\ cl'[c].fld = m.fld
                   /\ cl'[c].held = [m.held EXCEPT ![n] = Absent]
<1> DEFINE m == cl[c]
           h == [m.held EXCEPT ![n] = Absent]
           d == [m EXCEPT !.held = h, !.last = FALSE]
<1>1. m \in State /\ m.pc = "sweep" /\ m.held[n] # Absent /\ images' = images
  BY OwnState DEF Sweep
<1>2. /\ tags' = [tags EXCEPT ![n] = [m.held[n] EXCEPT ![m.fld] = None]]
      /\ cl'[c] = IF d.held = NoCopies THEN Dropped(d, FALSE) ELSE d
  BY NeverFails, BecomeIs DEF Sweep
<1>3. m.held[n] = tags[n] /\ tags[n] \in Record
  BY <1>1 DEF HeldIsStored, State
<1>4. [tags[n] EXCEPT ![m.fld] = None] \in Record
  BY <1>1, <1>3 DEF State, Record, Field
<1>5. h \in [Name -> Record \union {Absent}] /\ \A x \in Name : x # n => h[x] = m.held[x]
  BY <1>1 DEF State
<1> HIDE DEF m, h
<1>6. d.pc = m.pc /\ d.req = m.req /\ d.fld = m.fld /\ d.held = h
  BY <1>1, <1>5 DEF State
<1> HIDE DEF d
<1>7. CASE h = NoCopies
  <2>1. \A x \in Name : x # n => m.held[x] = Absent
    BY <1>5, <1>7 DEF NoCopies
  <2>2. cl'[c] = Dropped(d, FALSE)
    BY <1>2, <1>6, <1>7
  <2>3. d \in State /\ d.req.method = "DELETE"
    <3>1. m.req.method = "DELETE"
      BY DropIsDelete DEF Sweep, DropPc, m
    <3>2. d \in State
      BY <1>1, <1>5 DEF State, d
    <3>. QED  BY <1>6, <3>1, <3>2
  <2>4. cl'[c].pc # "sweep"
    BY <2>2, <2>3, DroppedLeads DEF Leads, Inner
  <2>. QED  BY <1>1, <1>2, <1>3, <1>4, <2>1, <2>4 DEF m
<1>8. CASE h # NoCopies
  <2>1. cl'[c] = d
    BY <1>2, <1>6, <1>8
  <2>. QED  BY <1>1, <1>2, <1>3, <1>4, <1>6, <2>1 DEF m, h
<1>. QED  BY <1>7, <1>8

LEMMA ImagesGrow ==
  ASSUME TypeInv, NEW c \in Client, Acts(c), NEW i \in Image, images[i] # Absent
  PROVE  images'[i] # Absent \/ (DeleteImage(c) /\ i = Asked(c))
<1>1. None # Absent /\ cl[c].req.params # Absent
  BY OwnState, ImageAssumption DEF ImageAssumption, Request
<1>2. CASE AddImage(c)
  BY <1>1, <1>2 DEF AddImage, TypeInv, TypeOK
<1>3. CASE SetImage(c)
  BY <1>1, <1>3 DEF SetImage, TypeInv, TypeOK
<1>4. CASE DeleteImage(c)
  BY <1>4 DEF DeleteImage, TypeInv, TypeOK
<1>. QED
  BY <1>2, <1>3, <1>4
  DEF Acts, Begin, FindImage, ImageKnown, ImageUnknown, Resolve, ReadFound, ReadNothing,
      FetchImage, AddImageFails, WriteName, WriteFails, ApplyPatch,
      DeleteRecord, FindDropped, ReadReferrers, Sweep

LEMMA KeysThereNext ==
  ASSUME TypeInv, LoneRefs, NEW c \in Client, Acts(c)
  PROVE  KeysThere(cl[c])'
<1> DEFINE e == cl'[c]
<1>1. SUFFICES ASSUME e.req.method # "DELETE", NEW f \in Field, e.ids[f] # None
               PROVE  images'[e.ids[f]] # Absent
  BY DEF KeysThere, RefsIn
<1>2. CASE Begin(c)
  <2>1. PICK r \in Request : e = Start(r)
    BY <1>2, BecomeIs, RequestAssumption DEF Begin, RequestAssumption
  <2>2. e.ids = NoRefs
    BY <2>1, StartFollows, BlankTyped DEF Follows, Blank
  <2>. QED  BY <1>1, <2>2, NoRefsIn
<1>3. CASE ~Begin(c)
  <2>1. e.req = cl[c].req
    BY <1>3, ReqKept
  <2>2. ~DeleteImage(c)
    BY <1>1, <2>1, DropIsDelete DEF DeleteImage, DropPc
  <2>3. e.ids[f] = cl[c].ids[f] \/ images'[e.ids[f]] # Absent
    BY <1>1, ActsMove, BecomeIs, NoRefsIn DEF Moves, Follows
  <2>4. cl[c].ids[f] # None => cl[c].ids[f] \in Image /\ images[cl[c].ids[f]] # Absent
    BY <1>1, <2>1, OwnState, IdsRefs DEF LoneRefs, KeysThere, RefsIn
  <2>. QED  BY <1>1, <2>2, <2>3, <2>4, ImagesGrow
<1>. QED  BY <1>2, <1>3

LEMMA MissingNext ==
  ASSUME NoFailures, TypeInv, FlowInv, HeldIsStored, LoneRefs, NEW c \in Client, Acts(c)
  PROVE  Missing(cl[c])'
<1> DEFINE e == cl'[c]
<1>1. SUFFICES ASSUME e.pc \in {"add", "gettags", "sweep"}
               PROVE  images'[e.req[e.fld]] = Absent
  BY DEF Missing
<1>2. Entered(c)
  BY ActsFlow, NeverFails DEF FlowInv, AddImageFails
<1>3. CASE ImageUnknown(c)
  <2>1. cl[c] \in State /\ e = [cl[c] EXCEPT !.pc = "add"] /\ images' = images
        /\ images[Asked(c)] = Absent
    BY <1>3, OwnState, NeverFails, BecomeIs DEF ImageUnknown, ReadsAbsent
  <2>2. e.req = cl[c].req /\ e.fld = cl[c].fld
    BY <2>1 DEF State
  <2>. QED  BY <2>1, <2>2 DEF Asked
<1>4. CASE DeleteImage(c)
  <2>1. Asked(c) \in Image
    BY <1>4, AskedTyped DEF DeleteImage, DropPc
  <2>. QED  BY <1>4, <2>1, DeleteImageIs DEF Asked, TypeInv, TypeOK
<1>5. CASE ReadReferrers(c) /\ e.pc = "sweep"
  BY <1>5, ReadReferrersIs DEF LoneRefs, Missing, Asked
<1>6. ASSUME NEW n \in Name, Sweep(c, n), e.pc = "sweep"
      PROVE  images'[e.req[e.fld]] = Absent
  <2>1. cl[c].pc = "sweep" /\ images' = images /\ e.req = cl[c].req /\ e.fld = cl[c].fld
    BY <1>6, SweepIs
  <2>. QED  BY <2>1 DEF LoneRefs, Missing
<1>. QED  BY <1>1, <1>2, <1>3, <1>4, <1>5, <1>6 DEF Entered

LEMMA ReferrersNext ==
  ASSUME NoFailures, TypeInv, FlowInv, HeldIsStored, LoneRefs, NEW c \in Client, Acts(c)
  PROVE  Referrers(cl[c])'
<1> DEFINE m == cl[c]
           e == cl'[c]
<1>1. SUFFICES ASSUME e.pc = "sweep", NEW x \in Name
               PROVE  e.held[x] # Absent <=> tags'[x] # Absent /\ tags'[x][e.fld] = e.req[e.fld]
  BY DEF Referrers
<1>2. Entered(c)
  BY ActsFlow, NeverFails DEF FlowInv, AddImageFails
<1>3. CASE ReadReferrers(c)
  BY <1>1, <1>3, ReadReferrersIs DEF Asked
<1>4. ASSUME NEW n \in Name, Sweep(c, n)
      PROVE  e.held[x] # Absent <=> tags'[x] # Absent /\ tags'[x][e.fld] = e.req[e.fld]
  <2> DEFINE swept == [tags[n] EXCEPT ![m.fld] = None]
  <2>1. /\ m.pc = "sweep" /\ tags[n] \in Record /\ swept \in Record
        /\ tags' = [tags EXCEPT ![n] = swept]
        /\ e.req = m.req /\ e.fld = m.fld /\ e.held = [m.held EXCEPT ![n] = Absent]
    BY <1>1, <1>4, SweepIs
  <2>2. m.held \in [Name -> Record \union {Absent}] /\ m.fld \in Field
    BY OwnState DEF State
  <2>3. m.req[m.fld] # None
    BY <2>1, AskedTyped DEF Asked, DropPc
  <2>4. swept[m.fld] = None
    BY <2>1, <2>2 DEF Record, Field
  <2>5. CASE x = n
    BY <2>1, <2>2, <2>3, <2>4, <2>5 DEF TypeInv, TypeOK
  <2>6. CASE x # n
    <3>1. tags'[x] = tags[x] /\ e.held[x] = m.held[x]
      BY <2>1, <2>2, <2>6 DEF TypeInv, TypeOK
    <3>. QED  BY <2>1, <3>1 DEF LoneRefs, Referrers
  <2>. QED  BY <2>5, <2>6
<1>. QED  BY <1>1, <1>2, <1>3, <1>4 DEF Entered

(* A record that the step leaves alone.                                    *)
LEMMA OldRefsKept ==
  ASSUME NoFailures, TypeInv, HeldIsStored, LoneRefs, NEW c \in Client, Acts(c),
         NEW x \in Name, tags'[x] = tags[x], tags[x] # Absent,
         NEW f \in Field, tags[x][f] # None
  PROVE  images'[tags[x][f]] # Absent \/ Removing(cl[c], f, tags[x][f])'
<1> DEFINE m == cl[c]
           i == tags[x][f]
<1>1. m \in State /\ tags[x] \in Record /\ i \in Image
  BY OwnState, RecordRefs DEF TypeInv, TypeOK
<1>2. images[i] # Absent \/ Removing(m, f, i)
  BY DEF LoneRefs, RefsKept
<1>3. CASE DeleteImage(c)
  <2>1. CASE i # Asked(c)
    BY <1>1, <1>2, <1>3, <2>1, DeleteImageIs DEF TypeInv, TypeOK, Removing
  <2>2. CASE i = Asked(c)
    <3>1. f = m.fld
      <4>1. m.req[m.fld] = tags[x][f] /\ m.fld \in Field /\ m.req \in Request
        BY <1>1, <2>2 DEF Asked, State
      <4>. QED
        BY <1>1, <4>1, ImageAssumption DEF ImageAssumption, Request, Record, Field
    <3>. QED  BY <1>3, <2>2, <3>1, DeleteImageIs DEF Removing, Asked
  <2>. QED  BY <2>1, <2>2
<1>4. CASE ReadReferrers(c)
  <2>1. m.pc = "gettags" /\ images' = images
    BY <1>4, ReadReferrersIs
  <2>2. images[i] # Absent \/ (f = m.fld /\ i = m.req[f])
    BY <1>2 DEF Removing
  <2>. QED  BY <1>4, <2>1, <2>2, ReadReferrersIs DEF Removing, Asked
<1>5. ASSUME NEW n \in Name, Sweep(c, n)
      PROVE  images'[i] # Absent \/ Removing(m, f, i)'
  <2>1. m.pc = "sweep" /\ images' = images /\ m.held[n] # Absent
    BY <1>5, SweepIs
  <2>2. images[i] # Absent \/ (f = m.fld /\ i = m.req[f])
    BY <1>2 DEF Removing
  <2>3. CASE cl'[c].pc = "sweep"
    BY <1>5, <2>1, <2>2, <2>3, SweepIs DEF Removing
  <2>4. CASE cl'[c].pc # "sweep"
    <3>1. f = m.fld /\ i = m.req[f] => x = n
      <4>1. \A y \in Name : y # n => m.held[y] = Absent
        BY <1>5, <2>4, SweepIs
      <4>2. Referrers(m)
        BY DEF LoneRefs
      <4>. QED  BY <2>1, <4>1, <4>2 DEF Referrers
    <3>2. CASE x = n
      <4> DEFINE swept == [tags[n] EXCEPT ![m.fld] = None]
      <4>1. swept \in Record /\ tags' = [tags EXCEPT ![n] = swept]
        BY <1>5, SweepIs
      <4>2. swept[m.fld] = None
        BY <1>1, <3>2 DEF Record, Field, State
      <4> HIDE DEF swept
      <4>3. tags[n][m.fld] = None
        BY <3>2, <4>1, <4>2 DEF TypeInv, TypeOK
      <4>. QED  BY <2>1, <2>2, <3>2, <4>3
    <3>. QED  BY <2>1, <2>2, <3>1, <3>2
  <2>. QED  BY <2>3, <2>4
<1>6. CASE ~DeleteImage(c) /\ ~ReadReferrers(c) /\ ~\E n \in Name : Sweep(c, n)
  <2>1. m.pc \notin {"gettags", "sweep"}
    BY <1>6 DEF Acts, Begin, FindImage, ImageKnown, ImageUnknown, Resolve, ReadFound,
      ReadNothing, FetchImage, AddImage, AddImageFails, SetImage, WriteName, WriteFails,
      ApplyPatch, DeleteRecord, FindDropped, Done
  <2>. QED  BY <1>1, <1>2, <1>6, <2>1, ImagesGrow DEF Removing
<1>. QED  BY <1>3, <1>4, <1>5, <1>6

LEMMA RefsKeptNext ==
  ASSUME NoFailures, TypeInv, FlowInv, HeldIsStored, LoneRefs, NEW c \in Client, Acts(c)
  PROVE  RefsKept(cl[c])'
<1> DEFINE m == cl[c]
<1>1. SUFFICES ASSUME NEW x \in Name, NEW f \in Field, tags'[x] # Absent, tags'[x][f] # None
               PROVE  images'[tags'[x][f]] # Absent \/ Removing(m, f, tags[x][f])'
  BY DEF RefsKept
<1>2. m \in State /\ Flow(m, faults, smComp)
  BY OwnState DEF FlowInv
<1>3. CASE tags'[x] = tags[x]
  BY <1>1, <1>3, OldRefsKept
<1>4. ASSUME tags'[x] # tags[x], WriteName(c) \/ \E n \in Name : ApplyPatch(c, n)
      PROVE  images'[tags'[x][f]] # Absent
  <2>1. images' = images /\ m.req.method # "DELETE" /\ m.pc \notin {"gettags", "sweep"}
    BY <1>2, <1>4 DEF WriteName, ApplyPatch, Flow
  <2>2. m.ids[f] # None => images[m.ids[f]] # Absent
    BY <2>1 DEF LoneRefs, KeysThere, RefsIn
  <2>3. CASE WriteName(c)
    <3>1. tags'[x] = NewRecord(m)
      BY <1>4, <2>3 DEF WriteName, TypeInv, TypeOK
    <3>2. tags'[x][f] = m.ids[f]
      BY <3>1 DEF NewRecord, Field
    <3>. QED  BY <1>1, <2>1, <2>2, <3>2
  <2>4. ASSUME NEW n \in Name, ApplyPatch(c, n)
        PROVE  images'[tags'[x][f]] # Absent
    <3>1. x = n /\ tags'[x] = Patched(tags[n], m.req, m.ids) /\ tags[n] # Absent
      BY <1>4, <2>4 DEF ApplyPatch, TypeInv, TypeOK, HeldIsStored
    <3>2. tags'[x][f] \in {tags[x][f], m.ids[f]}
      BY <3>1 DEF Patched, Field
    <3>3. tags[x][f] # None => images[tags[x][f]] # Absent
      BY <2>1, <3>1 DEF LoneRefs, RefsKept, Removing
    <3>. QED  BY <1>1, <2>1, <2>2, <3>2, <3>3
  <2>. QED  BY <1>4, <2>3, <2>4
<1>5. ASSUME tags'[x] # tags[x], NEW n \in Name, Sweep(c, n)
      PROVE  images'[tags'[x][f]] # Absent
  <2> DEFINE swept == [tags[n] EXCEPT ![m.fld] = None]
  <2>0. tags[n] \in Record /\ images' = images /\ tags' = [tags EXCEPT ![n] = swept]
    BY <1>5, SweepIs
  <2>1. x = n /\ tags'[n] = swept /\ tags[n] \in Record /\ images' = images
    <3> HIDE DEF swept
    <3>. QED  BY <1>5, <2>0 DEF TypeInv, TypeOK
  <2>2. f # m.fld /\ tags'[n][f] = tags[n][f]
    BY <1>1, <1>2, <2>1 DEF State, Record, Field
  <2>3. tags[n] # Absent
    BY <2>1, ImageAssumption DEF ImageAssumption
  <2>. QED  BY <1>1, <2>1, <2>2, <2>3 DEF LoneRefs, RefsKept, Removing
<1>6. CASE DeleteRecord(c)
  BY <1>1, <1>3, <1>6 DEF DeleteRecord, TypeInv, TypeOK
<1>. QED
  BY <1>1, <1>3, <1>4, <1>5, <1>6
  DEF Acts, Begin, FindImage, ImageKnown, ImageUnknown, Resolve, ReadFound, ReadNothing,
      FetchImage, AddImage, AddImageFails, SetImage, WriteFails,
      FindDropped, DeleteImage, ReadReferrers

LEMMA LoneRefsInit == Init => LoneRefs
<1> SUFFICES ASSUME Init, NEW c \in Client
             PROVE  RefsKept(cl[c]) /\ Referrers(cl[c]) /\ KeysThere(cl[c]) /\ Missing(cl[c])
  BY DEF LoneRefs
<1>1. cl[c].pc = "idle" /\ cl[c].ids = NoRefs /\ \A n \in Name : tags[n] = Absent
  BY DEF Init, Blank
<1>. QED  BY <1>1, NoRefsIn DEF RefsKept, Referrers, KeysThere, Missing, RefsIn

LEMMA LoneRefsNext ==
  ASSUME LoneClient, NoFailures, TypeInv, FlowInv, HeldIsStored, LoneRefs, [Next]_vars
  PROVE  HeldIsStored' /\ LoneRefs'
<1>1. CASE UNCHANGED <<tags, images, cl>>
  BY <1>1 DEF HeldIsStored, LoneRefs, RefsKept, Referrers, KeysThere, RefsIn, Missing, Removing
<1>2. CASE \E c \in Client : Acts(c)
  <2>1. PICK c \in Client : Acts(c)
    BY <1>2
  <2>2. RefsKept(cl[c])' /\ Referrers(cl[c])' /\ KeysThere(cl[c])' /\ Missing(cl[c])'
    BY <2>1, RefsKeptNext, ReferrersNext, KeysThereNext, MissingNext
  <2>3. LoneRefs'
    BY <2>2 DEF LoneRefs, LoneClient
  <2>. QED  BY <2>1, <2>3, HeldStoredNext
<1>. QED  BY <1>1, <1>2, NextIsActs DEF vars, Discover

(* The records as a lookup sees them, which is without the reference that  *)
(* is being taken out.                                                     *)
Conf == [n \in Name |-> View(tags[n])]
Gone(t, m, n) == m.pc \in {"gettags", "sweep"} /\ t[n] # Absent /\ t[n][m.fld] = m.req[m.fld]
Seen(t, m) == [n \in Name |-> IF Gone(t, m, n) THEN [t[n] EXCEPT ![m.fld] = None] ELSE t[n]]

(* A record is rebuilt from its fields.                                    *)
LEMMA Rebuilt ==
  ASSUME NEW r \in Record, NEW k, NEW i
  PROVE  LET e == [r EXCEPT !.kernel = k, !.initrd = i] IN
         /\ k = r.kernel /\ i = r.initrd => e = r
         /\ k = None /\ i = r.initrd => e = [r EXCEPT !["kernel"] = None]
         /\ k = r.kernel /\ i = None => e = [r EXCEPT !["initrd"] = None]
BY DEF Record

LEMMA ConfIs == TypeInv /\ LoneRefs => \A c \in Client : Conf = Seen(tags, cl[c])
<1> SUFFICES ASSUME TypeInv, LoneRefs, NEW c \in Client, NEW n \in Name, tags[n] # Absent
             PROVE  View(tags[n]) = IF Gone(tags, cl[c], n)
                                    THEN [tags[n] EXCEPT ![cl[c].fld] = None] ELSE tags[n]
  BY DEF Conf, Seen, View, Gone
<1> DEFINE m == cl[c]
           r == tags[n]
           k == IF r.kernel # None /\ images[r.kernel] = Absent THEN None ELSE r.kernel
           i == IF r.initrd # None /\ images[r.initrd] = Absent THEN None ELSE r.initrd
<1>1. r \in Record /\ m.fld \in Field
  BY OwnState DEF TypeInv, TypeOK, State
<1>2. View(r) = [r EXCEPT !.kernel = k, !.initrd = i]
  BY Zenon DEF View, Ref
<1>3. \A f \in Field : r[f] # None => images[r[f]] # Absent \/ Removing(m, f, r[f])
  BY DEF LoneRefs, RefsKept
<1>4. CASE Gone(tags, m, n)
  <2>1. m.req[m.fld] # None /\ images[m.req[m.fld]] = Absent /\ r[m.fld] = m.req[m.fld]
    BY <1>4, AskedTyped DEF Gone, LoneRefs, Missing, Asked, DropPc
  <2>2. CASE m.fld = "kernel"
    <3>1. k = None /\ i = r.initrd
      BY <1>3, <2>1, <2>2 DEF Field, Removing
    <3> HIDE DEF k, i, m, r
    <3>. QED  BY <1>1, <1>2, <1>4, <2>2, <3>1, Rebuilt, ZenonT(30) DEF m, r
  <2>3. CASE m.fld = "initrd"
    <3>1. k = r.kernel /\ i = None
      BY <1>3, <2>1, <2>3 DEF Field, Removing
    <3> HIDE DEF k, i, m, r
    <3>. QED  BY <1>1, <1>2, <1>4, <2>3, <3>1, Rebuilt, ZenonT(30) DEF m, r
  <2>. QED  BY <1>1, <2>2, <2>3 DEF Field
<1>5. CASE ~Gone(tags, m, n)
  <2>1. k = r.kernel /\ i = r.initrd
    BY <1>3, <1>5 DEF Field, Removing, Gone
  <2> HIDE DEF k, i, m, r
  <2>. QED  BY <1>1, <1>2, <1>5, <2>1, Rebuilt DEF m, r
<1>. QED  BY <1>4, <1>5

LEMMA ConfIsNext ==
  (TypeInv /\ LoneRefs)' => (\A c \in Client : Conf = Seen(tags, cl[c]))'
BY ConfIs, PTL

(* While no image is being taken out, a record is seen as it is.           *)
LEMMA SeenPlain ==
  ASSUME NEW t \in [Name -> Record \union {Absent}], NEW m, m.pc \notin {"gettags", "sweep"}
  PROVE  Seen(t, m) = t
BY DEF Seen, Gone

(* What is known before and after a step of the lone handler c.            *)
LoneInv == TypeInv /\ FlowInv /\ HeldIsStored /\ LoneRefs

LEMMA LoneIs ==
  ASSUME LoneClient, NEW c \in Client
  PROVE  (CHOOSE d \in Client : TRUE) = c
BY DEF LoneClient

Taking(c) == DeleteImage(c) \/ ReadReferrers(c) \/ \E n \in Name : Sweep(c, n)

LEMMA SeenPlainly ==
  ASSUME NoFailures, LoneInv, LoneInv', NEW c \in Client, Acts(c), ~Taking(c)
  PROVE  Conf = tags /\ Conf' = tags'
<1>1. cl[c].pc \notin {"gettags", "sweep"}
  BY DEF Taking, Acts, Begin, FindImage, ImageKnown, ImageUnknown, Resolve, ReadFound,
      ReadNothing, FetchImage, AddImage, AddImageFails, SetImage, WriteName, WriteFails,
      ApplyPatch, DeleteRecord, FindDropped, Done
<1>2. Entered(c)
  BY ActsFlow, NeverFails DEF LoneInv, FlowInv, AddImageFails
<1>3. cl'[c].pc \notin {"gettags", "sweep"}
  BY <1>2 DEF Entered, Taking
<1>4. tags \in [Name -> Record \union {Absent}] /\ tags' \in [Name -> Record \union {Absent}]
  BY DEF LoneInv, TypeInv, TypeOK
<1>5. Conf = Seen(tags, cl[c]) /\ Conf' = Seen(tags', cl'[c])
  BY ConfIs, ConfIsNext DEF LoneInv
<1>. QED  BY <1>1, <1>3, <1>4, <1>5, SeenPlain

(* The step of the table that changes only its records.                    *)
LEMMA PutMaps ==
  ASSUME LoneClient, NEW c \in Client, NEW n \in Name,
         cl[c].req.method \in {"POST", "PUT"}, n \in KeysOf(cl[c].req, smComp),
         \A f \in Field : cl[c].req[f] # None => images[cl[c].req[f]] # Absent,
         Conf' = [Conf EXCEPT ![n] = Asks(cl[c].req)],
         cl'[c].req = cl[c].req, UNCHANGED <<images, smComp>>
  PROVE  Table!Next
<1>1. Table!Put(n)
  BY LoneIs DEF Table!Put, Table!Keys, Table!Present, KeysOf, Asks, Conf,
    Table!AllNames, AllNames, Table!Alias, Alias, Table!Field, Field
<1>. QED  BY <1>1 DEF Table!Next, Table!Name, Table!Alias, Name, Alias

LEMMA PatchMaps ==
  ASSUME LoneClient, NEW c \in Client, NEW n \in Name,
         cl[c].req.method = "PATCH", n \in KeysOf(cl[c].req, smComp), Conf[n] # Absent,
         \A f \in Field : cl[c].req[f] # None => images[cl[c].req[f]] # Absent,
         Conf' = [Conf EXCEPT ![n] = Patched(Conf[n], cl[c].req, cl[c].req)],
         cl'[c].req = cl[c].req, UNCHANGED <<images, smComp>>
  PROVE  Table!Next
<1>1. Table!Patch(n)
  BY LoneIs DEF Table!Patch, Table!Keys, Table!Present, Table!Patched, Patched, KeysOf, Conf,
    Table!AllNames, AllNames, Table!Alias, Alias, Table!Field, Field
<1>. QED  BY <1>1 DEF Table!Next, Table!Name, Table!Alias, Name, Alias

LEMMA RemoveMaps ==
  ASSUME LoneClient, NEW c \in Client, NEW n \in Name,
         cl[c].req.method = "DELETE", n \in KeysOf(cl[c].req, smComp),
         Conf' = [Conf EXCEPT ![n] = Absent],
         cl'[c].req = cl[c].req, UNCHANGED <<images, smComp>>
  PROVE  Table!Next
<1>1. Table!Remove(n)
  BY LoneIs DEF Table!Remove, Table!Keys, KeysOf, Conf,
    Table!AllNames, AllNames, Table!Alias, Alias
<1>. QED  BY <1>1 DEF Table!Next, Table!Name, Table!Alias, Name, Alias

LEMMA AddMaps ==
  ASSUME LoneClient, NEW c \in Client, NEW i \in Image,
         cl[c].req.method \in Writing, i \in {cl[c].req.kernel, cl[c].req.initrd} \ {None},
         images[i] = Absent, images' = [images EXCEPT ![i] = None],
         cl'[c].req = cl[c].req, Conf' = Conf, UNCHANGED smComp
  PROVE  Table!Next
<1>1. Table!AddImage(i)
  BY LoneIs DEF Table!AddImage, Writing, Conf
<1>. QED  BY <1>1 DEF Table!Next, Table!Image, Image

LEMMA SetMaps ==
  ASSUME LoneClient, NEW c \in Client, NEW i \in Image,
         cl[c].req.method \in Writing, i \in {cl[c].req.kernel, cl[c].req.initrd} \ {None},
         Nameless(cl[c].req), images[i] # Absent,
         images' = [images EXCEPT ![i] = cl[c].req.params],
         cl'[c].req = cl[c].req, Conf' = Conf, UNCHANGED smComp
  PROVE  Table!Next
<1>1. Table!SetImage(i)
  BY LoneIs DEF Table!SetImage, Table!Targets, Targets, Nameless, Writing, Conf
<1>. QED  BY <1>1 DEF Table!Next, Table!Image, Image

LEMMA DropMaps ==
  ASSUME LoneClient, NEW c \in Client, NEW f \in Field,
         cl[c].req.method = "DELETE", cl[c].req[f] # None,
         images' = [images EXCEPT ![cl[c].req[f]] = Absent],
         Conf' = [n \in Name |-> IF Conf[n] # Absent /\ Conf[n][f] = cl[c].req[f]
                                 THEN [Conf[n] EXCEPT ![f] = None] ELSE Conf[n]],
         cl'[c].req = cl[c].req, UNCHANGED smComp
  PROVE  Table!Next
<1>1. Table!DropImage(f)
  BY LoneIs DEF Table!DropImage, Conf, Table!Name, Table!Alias, Name, Alias
<1>. QED  BY <1>1 DEF Table!Next, Table!Field, Field

LEMMA StaysMaps ==
  ASSUME LoneClient, NEW c \in Client,
         cl'[c].req = cl[c].req, Conf' = Conf, UNCHANGED <<images, smComp>>
  PROVE  UNCHANGED Table!vars
BY LoneIs DEF Table!vars, Conf

LEMMA BeginMaps ==
  ASSUME LoneClient, NEW c \in Client, cl'[c].req \in Requests, Conf' = Conf,
         UNCHANGED <<images, smComp>>
  PROVE  Table!Next
BY LoneIs DEF Table!Next, Table!Ask, Conf

LEMMA DiscoverMaps ==
  ASSUME LoneClient, NEW c \in Client, Discover
  PROVE  Table!Next
<1>1. Conf' = Conf
  BY DEF Discover, Conf, View, Ref
<1>2. Table!Discover
  BY <1>1, LoneIs DEF Discover, Table!Discover, Conf, Table!Alias, Alias
<1>. QED  BY <1>2 DEF Table!Next

(* The keys of a request's images are those images, and they are there.    *)
LEMMA KeysGiven ==
  ASSUME NoFailures, LoneInv, NEW c \in Client, KeysUpTo(cl[c], "none", faults),
         cl[c].req.method # "DELETE"
  PROVE  /\ cl[c].ids.kernel = cl[c].req.kernel /\ cl[c].ids.initrd = cl[c].req.initrd
         /\ \A f \in Field : cl[c].req[f] # None => images[cl[c].req[f]] # Absent
<1>1. faults = 0
  BY DEF NoFailures, LoneInv, TypeInv, TypeOK
<1>. QED  BY <1>1 DEF KeysUpTo, HasKeys, LoneInv, LoneRefs, KeysThere, RefsIn, Field

LEMMA WriteImplements ==
  ASSUME LoneClient, NoFailures, LoneInv, LoneInv', NEW c \in Client, WriteName(c)
  PROVE  Table!Next
<1> DEFINE m == cl[c]
           r == m.req
<1>1. /\ m \in State /\ m.pc = "write" /\ r.method \in {"POST", "PUT"}
      /\ KeysUpTo(m, "none", faults) /\ m.todo \subseteq Targets(r) /\ r \in Request
  BY OwnState DEF WriteName, LoneInv, FlowInv, Flow
<1>2. PICK n \in m.todo : tags' = [tags EXCEPT ![KeyOf(n)] = NewRecord(m)]
  BY DEF WriteName
<1>3. NewRecord(m) = Asks(r) /\ \A f \in Field : r[f] # None => images[r[f]] # Absent
  BY <1>1, KeysGiven DEF NewRecord, Asks
<1>4. KeyOf(n) \in KeysOf(r, smComp) /\ KeyOf(n) \in Name
  BY <1>1, <1>2, NamesTyped
  DEF KeyOf, Known, KeysOf, Targets, AllNames, LoneInv, TypeInv, TypeOK, Name
<1>5. cl'[c].req = r /\ UNCHANGED <<images, smComp>>
  BY ReqKept, <1>1 DEF LoneInv, Acts, Begin, WriteName, Done
<1>6. Conf = tags /\ Conf' = tags'
  BY <1>1, SeenPlainly
  DEF Acts, Taking, WriteName, DeleteImage, ReadReferrers, Sweep
<1>. QED  BY <1>1, <1>2, <1>3, <1>4, <1>5, <1>6, PutMaps

LEMMA PatchImplements ==
  ASSUME LoneClient, NoFailures, LoneInv, LoneInv', NEW c \in Client, NEW n \in Name,
         ApplyPatch(c, n)
  PROVE  Table!Next \/ UNCHANGED Table!vars
<1> DEFINE m == cl[c]
           r == m.req
           new == Patched(m.held[n], r, m.ids)
<1>1. /\ m.pc = "apply" /\ r.method = "PATCH" /\ AtNames(m, faults, smComp)
      /\ KeysUpTo(m, "none", faults)
  BY DEF ApplyPatch, LoneInv, FlowInv, Flow, AtNames
<1>2. m.held[n] = tags[n] /\ tags[n] # Absent /\ n \in KeysOf(r, smComp)
  BY <1>1 DEF ApplyPatch, LoneInv, HeldIsStored, AtNames
<1>3. new = Patched(tags[n], r, r) /\ \A f \in Field : r[f] # None => images[r[f]] # Absent
  BY <1>1, <1>2, KeysGiven DEF Patched
<1>4. cl'[c].req = r /\ UNCHANGED <<images, smComp>>
  BY ReqKept, <1>1 DEF LoneInv, Acts, Begin, ApplyPatch, Done
<1>5. Conf = tags /\ Conf' = tags'
  BY <1>1, SeenPlainly
  DEF Acts, Taking, ApplyPatch, DeleteImage, ReadReferrers, Sweep
<1>6. tags' = [tags EXCEPT ![n] = new] \/ tags' = tags
  BY DEF ApplyPatch
<1> HIDE DEF new
<1>7. CASE tags' = [tags EXCEPT ![n] = new]
  BY <1>1, <1>2, <1>3, <1>4, <1>5, <1>7, PatchMaps
<1>8. CASE tags' = tags
  BY <1>4, <1>5, <1>8, StaysMaps
<1>. QED  BY <1>6, <1>7, <1>8

LEMMA RemoveImplements ==
  ASSUME LoneClient, NoFailures, LoneInv, LoneInv', NEW c \in Client, DeleteRecord(c)
  PROVE  Table!Next
<1> DEFINE m == cl[c]
<1>1. /\ m \in State /\ m.pc = "delete" /\ m.req.method = "DELETE"
      /\ InChain(m, smComp) /\ m.chain # <<>>
  BY OwnState DEF DeleteRecord, LoneInv, FlowInv, Flow
<1>2. m.chain \in Seq(Name)
  BY <1>1 DEF State
<1>3. Head(m.chain) \in Name /\ Head(m.chain) \in KeysOf(m.req, smComp)
  <2>1. 1 \in DOMAIN m.chain /\ Head(m.chain) = m.chain[1]
    BY <1>1, <1>2
  <2>. QED  BY <1>1, <1>2, <2>1 DEF InChain
<1>4. tags' = [tags EXCEPT ![Head(m.chain)] = Absent]
  BY NeverFails DEF DeleteRecord, LoneInv
<1>5. cl'[c].req = m.req /\ UNCHANGED <<images, smComp>>
  BY ReqKept, <1>1 DEF LoneInv, Acts, Begin, DeleteRecord, Done
<1>6. Conf = tags /\ Conf' = tags'
  BY <1>1, SeenPlainly
  DEF Acts, Taking, DeleteRecord, DeleteImage, ReadReferrers, Sweep
<1>. QED  BY <1>1, <1>3, <1>4, <1>5, <1>6, RemoveMaps

LEMMA AddImplements ==
  ASSUME LoneClient, NoFailures, LoneInv, LoneInv', NEW c \in Client, AddImage(c)
  PROVE  Table!Next
<1> DEFINE m == cl[c]
<1>1. m \in State /\ m.pc = "add" /\ m.req.method \in Writing /\ m.fld \in Field
  BY OwnState DEF AddImage, LoneInv, FlowInv, Flow, State
<1>2. Asked(c) \in Image /\ Asked(c) \in {m.req.kernel, m.req.initrd} \ {None}
  BY <1>1, AskedTyped DEF LoneInv, Asked, Field
<1>3. images[Asked(c)] = Absent /\ images' = [images EXCEPT ![Asked(c)] = None]
  BY <1>1 DEF AddImage, LoneInv, LoneRefs, Missing, Asked
<1>4. cl'[c].req = m.req /\ UNCHANGED <<tags, smComp>>
  BY ReqKept, <1>1 DEF LoneInv, Acts, Begin, AddImage, Done
<1>5. Conf = tags /\ Conf' = tags'
  BY <1>1, SeenPlainly
  DEF Acts, Taking, AddImage, DeleteImage, ReadReferrers, Sweep
<1>. QED  BY <1>1, <1>2, <1>3, <1>4, <1>5, AddMaps

LEMMA SetImplements ==
  ASSUME LoneClient, NoFailures, LoneInv, LoneInv', NEW c \in Client, SetImage(c)
  PROVE  Table!Next
<1> DEFINE m == cl[c]
           i == IF m.ids.kernel # None THEN m.ids.kernel ELSE m.ids.initrd
<1>1. /\ m \in State /\ m.pc = "setimage" /\ m.req.method \in Writing /\ Nameless(m.req)
      /\ KeysUpTo(m, "none", faults) /\ m.ids # NoRefs
  BY OwnState DEF SetImage, LoneInv, FlowInv, Flow, Coherent
<1>2. /\ m.ids.kernel = m.req.kernel /\ m.ids.initrd = m.req.initrd
      /\ \A f \in Field : m.req[f] # None => images[m.req[f]] # Absent
  BY <1>1, KeysGiven DEF Writing
<1>3. i # None
  <2>1. m.ids.kernel # None \/ m.ids.initrd # None
    BY <1>1 DEF State, NoRefs
  <2>. QED  BY <2>1
<1>4. i \in Image /\ i \in {m.req.kernel, m.req.initrd} \ {None} /\ images[i] # Absent
  BY <1>1, <1>2, <1>3 DEF State, Image, Field
<1>5. images' = [images EXCEPT ![i] = m.req.params] /\ UNCHANGED <<tags, smComp>>
  BY NeverFails DEF SetImage, LoneInv
<1>6. cl'[c].req = m.req
  BY ReqKept, <1>1 DEF LoneInv, Acts, Begin, Done
<1>7. Conf = tags /\ Conf' = tags'
  BY <1>1, SeenPlainly
  DEF Acts, Taking, SetImage, DeleteImage, ReadReferrers, Sweep
<1> HIDE DEF i
<1>. QED  BY <1>1, <1>4, <1>5, <1>6, <1>7, SetMaps

LEMMA DropImplements ==
  ASSUME LoneClient, NoFailures, LoneInv, LoneInv', NEW c \in Client, DeleteImage(c)
  PROVE  Table!Next
<1> DEFINE m == cl[c]
<1>1. /\ m.pc = "delimage" /\ m.req.method = "DELETE"
      /\ images' = [images EXCEPT ![Asked(c)] = Absent] /\ tags' = tags
      /\ cl'[c].pc = "gettags" /\ cl'[c].req = m.req /\ cl'[c].fld = m.fld
  BY DeleteImageIs DEF LoneInv
<1>2. m.fld \in Field /\ m.req[m.fld] # None
  BY <1>1, OwnState, AskedTyped DEF LoneInv, State, Asked, DropPc
<1>3. tags \in [Name -> Record \union {Absent}]
  BY DEF LoneInv, TypeInv, TypeOK
<1>4. Conf = tags
  BY <1>1, <1>3, ConfIs, SeenPlain DEF LoneInv
<1>5. Conf' = Seen(tags, cl'[c])
  BY <1>1, ConfIsNext DEF LoneInv
<1>6. Seen(tags, cl'[c]) =
        [n \in Name |-> IF tags[n] # Absent /\ tags[n][m.fld] = m.req[m.fld]
                        THEN [tags[n] EXCEPT ![m.fld] = None] ELSE tags[n]]
  BY <1>1 DEF Seen, Gone
<1>7. smComp' = smComp
  BY DEF DeleteImage
<1>8. Conf' = [n \in Name |-> IF Conf[n] # Absent /\ Conf[n][m.fld] = m.req[m.fld]
                              THEN [Conf[n] EXCEPT ![m.fld] = None] ELSE Conf[n]]
  BY <1>4, <1>5, <1>6
<1> HIDE DEF m
<1>. QED  BY <1>1, <1>2, <1>7, <1>8, DropMaps, ZenonT(30) DEF Asked, m

(* The sweep takes out references that nobody sees any more.               *)
LEMMA SweepStays ==
  ASSUME LoneClient, NoFailures, LoneInv, LoneInv', NEW c \in Client,
         ReadReferrers(c) \/ \E n \in Name : Sweep(c, n)
  PROVE  UNCHANGED Table!vars
<1> DEFINE m == cl[c]
           e == cl'[c]
<1>1. m \in State /\ m.fld \in Field
  BY OwnState DEF LoneInv, State
<1>2. tags \in [Name -> Record \union {Absent}] /\ tags' \in [Name -> Record \union {Absent}]
  BY DEF LoneInv, TypeInv, TypeOK
<1>3. Conf = Seen(tags, m) /\ Conf' = Seen(tags', e)
  BY ConfIs, ConfIsNext DEF LoneInv
<1>4. e.req = m.req
  BY ReqKept DEF LoneInv, Acts, Begin, ReadReferrers, Sweep, Done
<1>5. UNCHANGED <<images, smComp>>
  BY DEF ReadReferrers, Sweep
<1>6. Entered(c)
  BY ActsFlow, NeverFails DEF LoneInv, FlowInv, AddImageFails, Acts
<1>7. e.pc # "gettags"
  BY <1>6 DEF Entered, DeleteImage, ReadReferrers, Sweep
<1>8. CASE ReadReferrers(c)
  <2>1. m.pc = "gettags" /\ tags' = tags
    BY <1>8, ReadReferrersIs DEF LoneInv
  <2>2. ASSUME NEW n \in Name
        PROVE  /\ Gone(tags', e, n) <=> Gone(tags, m, n)
               /\ Gone(tags, m, n) => e.fld = m.fld
    BY <1>4, <1>7, <1>8, <2>1, ReadReferrersIs DEF Gone, Asked, LoneInv
  <2>3. Seen(tags', e) = Seen(tags, m)
    BY <2>1, <2>2 DEF Seen
  <2>. QED  BY <1>3, <1>4, <1>5, <2>3, StaysMaps
<1>9. ASSUME NEW n \in Name, Sweep(c, n)
      PROVE  UNCHANGED Table!vars
  <2> DEFINE swept == [tags[n] EXCEPT ![m.fld] = None]
  <2>1. m.pc = "sweep" /\ m.held[n] # Absent /\ tags[n] \in Record
        /\ tags' = [tags EXCEPT ![n] = swept] /\ swept \in Record
    BY <1>9, SweepIs DEF LoneInv
  <2>0. \/ e.pc # "sweep" /\ \A x \in Name : x # n => m.held[x] = Absent
        \/ e.pc = "sweep" /\ e.fld = m.fld
    BY <1>9, SweepIs DEF LoneInv
  <2>2. \A x \in Name : m.held[x] # Absent <=> Gone(tags, m, x)
    BY <2>1 DEF LoneInv, LoneRefs, Referrers, Gone
  <2>3. swept[m.fld] = None /\ m.req[m.fld] # None
    BY <1>1, <2>1, AskedTyped DEF Record, Field, Asked, DropPc, LoneInv
  <2> HIDE DEF swept
  <2>4. ASSUME NEW x \in Name, x # n
        PROVE  /\ Gone(tags', e, x) <=> Gone(tags, m, x)
               /\ Gone(tags, m, x) => e.fld = m.fld
    <3>1. tags'[x] = tags[x]
      BY <1>2, <2>1, <2>4
    <3>2. (e.pc # "sweep" /\ m.held[x] = Absent) \/ (e.pc = "sweep" /\ e.fld = m.fld)
      BY <2>0, <2>4
    <3>3. CASE e.pc # "sweep" /\ m.held[x] = Absent
      BY <1>7, <2>2, <3>3 DEF Gone
    <3>4. CASE e.pc = "sweep" /\ e.fld = m.fld
      BY <1>4, <2>1, <3>1, <3>4 DEF Gone
    <3>. QED  BY <3>2, <3>3, <3>4
  <2>5. tags'[n] = swept /\ Gone(tags, m, n)
    BY <1>2, <2>1, <2>2
  <2>6. ~Gone(tags', e, n)
    BY <1>4, <1>7, <1>9, <2>3, <2>5, SweepIs DEF Gone, LoneInv
  <2>7. ASSUME NEW x \in Name
        PROVE  (IF Gone(tags', e, x) THEN [tags'[x] EXCEPT ![e.fld] = None] ELSE tags'[x])
                 = (IF Gone(tags, m, x) THEN [tags[x] EXCEPT ![m.fld] = None] ELSE tags[x])
    <3>1. CASE x = n
      BY <2>5, <2>6, <3>1 DEF swept
    <3>2. CASE x # n
      BY <1>2, <2>1, <2>4, <3>2
    <3>. QED  BY <3>1, <3>2
  <2>8. Seen(tags', e) = Seen(tags, m)
    BY <2>7 DEF Seen
  <2>. QED  BY <1>3, <1>4, <1>5, <2>8, StaysMaps
<1>. QED  BY <1>8, <1>9

(* Every step of the lone handler is one of the table's or invisible.      *)
LEMMA ActsImplement ==
  ASSUME LoneClient, NoFailures, LoneInv, LoneInv', NEW c \in Client, Acts(c)
  PROVE  Table!Next \/ UNCHANGED Table!vars
<1>1. CASE WriteName(c) \/ DeleteRecord(c) \/ AddImage(c) \/ SetImage(c) \/ DeleteImage(c)
  BY <1>1, WriteImplements, RemoveImplements, AddImplements, SetImplements, DropImplements
<1>2. CASE \E n \in Name : ApplyPatch(c, n)
  BY <1>2, PatchImplements
<1>3. CASE ReadReferrers(c) \/ \E n \in Name : Sweep(c, n)
  BY <1>3, SweepStays
<1>4. CASE Begin(c)
  <2>1. Conf = tags /\ Conf' = tags' /\ UNCHANGED <<tags, images, smComp>>
    BY <1>4, SeenPlainly
    DEF Begin, Taking, DeleteImage, ReadReferrers, Sweep, Done
  <2>2. PICK r \in Requests : Become(c, Start(r))
    BY <1>4 DEF Begin
  <2>3. cl'[c] = Start(r) /\ r \in Request
    BY <2>2, BecomeIs, RequestAssumption DEF LoneInv, RequestAssumption
  <2>4. cl'[c].req = r
    BY <2>3, StartFollows, BlankTyped DEF Follows
  <2>. QED  BY <2>1, <2>4, BeginMaps
<1>5. CASE ~Begin(c) /\ UNCHANGED <<tags, images, smComp>> /\ ~Taking(c)
  <2>1. Conf = tags /\ Conf' = tags'
    BY <1>5, SeenPlainly
  <2>2. cl'[c].req = cl[c].req
    BY <1>5, ReqKept DEF LoneInv
  <2>. QED  BY <1>5, <2>1, <2>2, StaysMaps
<1>6. ~AddImageFails(c) /\ ~WriteFails(c)
  BY NeverFails DEF LoneInv, AddImageFails, WriteFails
<1>7. CASE FindImage(c) \/ ImageKnown(c) \/ ImageUnknown(c) \/ Resolve(c) \/ ReadFound(c)
           \/ ReadNothing(c) \/ FetchImage(c) \/ FindDropped(c)
  <2>1. UNCHANGED <<tags, images, smComp>>
    BY <1>7 DEF FindImage, ImageKnown, ImageUnknown, Resolve, ReadFound, ReadNothing,
      FetchImage, FindDropped
  <2>2. ~Taking(c)
    BY <1>7 DEF Taking, FindImage, ImageKnown, ImageUnknown, Resolve, ReadFound, ReadNothing,
      FetchImage, FindDropped, DeleteImage, ReadReferrers, Sweep
  <2>. QED  BY <1>4, <1>5, <2>1, <2>2
<1>. QED  BY <1>1, <1>2, <1>3, <1>4, <1>6, <1>7 DEF Acts

LEMMA TableInit ==
  ASSUME LoneClient, NEW c \in Client, Init
  PROVE  Table!Init
<1>1. cl[c].req = NoRequest /\ NoRequest \in Request
  BY DEF Init, Blank, NoRequest, Request, Method
<1>2. \A n \in Name : View(tags[n]) = Absent
  BY DEF Init, View
<1>. QED
  BY <1>1, <1>2, LoneIs
  DEF Init, Table!Init, Table!Request, Request, Table!Method, Method, Table!Name, Name,
      Table!Image, Image, Table!Alias, Alias

(* The store of a lone client, whose accesses all succeed, is BootStore's  *)
(* table: each of its handlers' steps is one of the table's or one that no *)
(* lookup can tell, although Store, Update and Remove are many accesses.   *)
THEOREM TableImplemented ==
  ASSUME LoneClient, Client # {}, NoFailures
  PROVE  Spec => ImplementsBootStore
<1>1. Init => LoneInv
  BY TypeInit, FlowInit, ToldInit, LoneRefsInit DEF LoneInv
<1>2. LoneInv /\ [Next]_vars => LoneInv'
  BY TypeNext, FlowNext, LoneRefsNext DEF LoneInv
<1>3. Init => Table!Init
  BY TableInit
<1>4. LoneInv /\ LoneInv' /\ [Next]_vars => [Table!Next]_(Table!vars)
  <2> SUFFICES ASSUME LoneInv, LoneInv', [Next]_vars
               PROVE  Table!Next \/ UNCHANGED Table!vars
    OBVIOUS
  <2>1. PICK c \in Client : TRUE
    OBVIOUS
  <2>2. CASE UNCHANGED vars
    <3>1. Conf' = Conf
      BY <2>2 DEF vars, Conf, View, Ref
    <3>. QED  BY <2>2, <3>1, StaysMaps DEF vars
  <2>3. CASE Next
    BY <2>3, NextIsActs, ActsImplement, DiscoverMaps
  <2>. QED  BY <2>2, <2>3
<1>. QED  BY <1>1, <1>2, <1>3, <1>4, PTL DEF Spec, ImplementsBootStore, Table!Spec

=============================================================================
