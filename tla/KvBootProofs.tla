---------------------------- MODULE KvBootProofs ----------------------------
(***************************************************************************)
(* Theorems about KvBoot, for any clients, hosts, images and requests and  *)
(* any number of failures.                                                 *)
(***************************************************************************)
EXTENDS KvBoot, TLAPS

DropPc == {"drop", "delimage", "gettags", "sweep"}

(* What a handler knows at the steps that rely on it.                      *)
Coherent(m) ==
  /\ m.pc = "read" => m.chain # <<>>
  /\ m.pc \in {"find", "image", "add"} \union DropPc => m.req[m.fld] # None
  /\ m.pc \in DropPc => m.req.method = "DELETE"
  /\ m.pc = "setimage" => m.ids # NoRefs

Handler == {m \in State : Coherent(m)}

(* e is where m goes next, with no more image keys and copies than it has. *)
Follows(m, e) ==
  /\ e \in Handler
  /\ e.req = m.req
  /\ e.ids \in {m.ids, NoRefs}
  /\ \A n \in Name : e.held[n] \in {m.held[n], Absent}

LEMMA BlankTyped ==
  ASSUME NEW r \in Request
  PROVE  /\ Blank(r) \in Handler
         /\ Blank(r).req = r /\ Blank(r).ids = NoRefs /\ Blank(r).held = NoCopies
         /\ Blank(r).pc = "idle"
BY DEF Blank, Handler, State, Coherent, NoRefs, NoCopies, Field, Pc, Done, DropPc

LEMMA FieldTyped ==
  ASSUME NEW r \in Request, NEW f \in Field
  PROVE  r[f] \in Image \union {None}
BY DEF Request, Field, Image

LEMMA PcTyped ==
  ASSUME NEW m \in State, NEW p \in Pc
  PROVE  LET e == [m EXCEPT !.pc = p]
         IN  /\ e \in State /\ e.req = m.req /\ e.pc = p /\ e.fld = m.fld
             /\ e.ids = m.ids /\ e.held = m.held /\ e.chain = m.chain
BY DEF State

LEMMA HeldTyped ==
  ASSUME NEW m \in State, NEW h \in [Name -> Record \union {Absent}]
  PROVE  LET e == [m EXCEPT !.held = h]
         IN  /\ e \in State /\ e.req = m.req /\ e.pc = m.pc
             /\ e.ids = m.ids /\ e.held = h /\ e.last = m.last
BY DEF State

LEMMA FinishFollows ==
  ASSUME NEW m \in State, NEW b \in BOOLEAN
  PROVE  Follows(m, Finish(m, b)) /\ Finish(m, b).pc \in {"ok", "failed"}
<1>1. m.req \in Request /\ m.ids \in [kernel : Kernel \union {None}, initrd : Initrd \union {None}]
      /\ m.held \in [Name -> Record \union {Absent}]
  BY DEF State
<1>2. /\ NoRefs \in [kernel : Kernel \union {None}, initrd : Initrd \union {None}]
      /\ NoCopies \in [Name -> Record \union {Absent}]
      /\ \A n \in Name : NoCopies[n] = Absent
  BY DEF NoRefs, NoCopies
<1> DEFINE e == Finish(m, b)
           p == IF b THEN "failed" ELSE "ok"
           h == IF m.req.method = "GET" THEN m.held ELSE NoCopies
           i == IF m.req.method = "GET" THEN m.ids ELSE NoRefs
<1>a. e = [Blank(m.req) EXCEPT !.pc = p, !.held = h, !.ids = i]
  BY DEF Finish
<1>b. p \in Pc
  BY DEF Pc, Done
<1>c. h \in [Name -> Record \union {Absent}]
  BY <1>1, <1>2
<1>d. i \in [kernel : Kernel \union {None}, initrd : Initrd \union {None}]
  BY <1>1, <1>2
<1>e. "kernel" \in Field /\ {} \in SUBSET Name /\ <<>> \in Seq(Name)
  BY DEF Field
<1> HIDE DEF e, p, h, i
<1>f. e = [pc |-> p, req |-> m.req, fld |-> "kernel", todo |-> {}, chain |-> <<>>,
           held |-> h, ids |-> i, err |-> FALSE, last |-> FALSE]
  BY <1>a DEF Blank
<1>g. e \in State /\ e.req = m.req /\ e.pc = p /\ e.ids = i /\ e.held = h
  BY <1>1, <1>b, <1>c, <1>d, <1>e, <1>f DEF State
<1>3. /\ e \in State /\ e.req = m.req /\ e.pc = IF b THEN "failed" ELSE "ok"
      /\ e.ids = IF m.req.method = "GET" THEN m.ids ELSE NoRefs
      /\ e.held = IF m.req.method = "GET" THEN m.held ELSE NoCopies
  BY <1>g DEF p, h, i
<1>4. e \in Handler
  BY <1>3 DEF Handler, Coherent, DropPc
<1>5. \A n \in Name : e.held[n] \in {m.held[n], Absent}
  BY <1>2, <1>3
<1>. QED
  BY <1>3, <1>4, <1>5 DEF Follows, e

LEMMA ToSetImageFollows ==
  ASSUME NEW m \in State
  PROVE  Follows(m, ToSetImage(m))
<1>1. CASE m.ids = NoRefs
  BY <1>1, FinishFollows DEF ToSetImage
<1>2. CASE m.ids # NoRefs
  <2> DEFINE e == [m EXCEPT !.pc = "setimage"]
  <2>1. ToSetImage(m) = e
    BY <1>2 DEF ToSetImage
  <2>2. "setimage" \in Pc
    BY DEF Pc
  <2>3. e \in State /\ e.req = m.req /\ e.pc = "setimage" /\ e.ids = m.ids /\ e.held = m.held
    BY <2>2, PcTyped
  <2> HIDE DEF e
  <2>4. e \in Handler
    BY <1>2, <2>3 DEF Handler, Coherent, DropPc
  <2>. QED  BY <2>1, <2>3, <2>4 DEF Follows
<1>. QED  BY <1>1, <1>2

(* A handler turns to an image field of its request.                        *)
LEMMA AtFieldFollows ==
  ASSUME NEW m \in State, NEW p \in {"image", "drop"}, NEW f \in Field,
         m.req[f] # None, p = "drop" => m.req.method = "DELETE",
         NEW e, e = [m EXCEPT !.pc = p, !.fld = f]
  PROVE  Follows(m, e)
<1>1. p \in Pc
  BY DEF Pc
<1>2. /\ e \in State /\ e.req = m.req /\ e.pc = p /\ e.fld = f
      /\ e.ids = m.ids /\ e.held = m.held
  BY <1>1 DEF State
<1>3. e \in Handler
  BY <1>2 DEF Handler, Coherent, DropPc
<1>. QED  BY <1>2, <1>3 DEF Follows

LEMMA ToDropFollows ==
  ASSUME NEW m \in State, NEW f \in Field \union {"none"}, m.req.method = "DELETE"
  PROVE  Follows(m, ToDrop(m, f))
<1>1. CASE f = "kernel" /\ m.req.kernel # None
  <2>1. ToDrop(m, f) = [m EXCEPT !.pc = "drop", !.fld = "kernel"]
    BY <1>1 DEF ToDrop
  <2>. QED  BY <1>1, <2>1, AtFieldFollows DEF Field
<1>2. CASE ~(f = "kernel" /\ m.req.kernel # None) /\ f # "none" /\ m.req.initrd # None
  <2>1. ToDrop(m, f) = [m EXCEPT !.pc = "drop", !.fld = "initrd"]
    BY <1>2 DEF ToDrop
  <2>. QED  BY <1>2, <2>1, AtFieldFollows DEF Field
<1>3. CASE ~(f = "kernel" /\ m.req.kernel # None) /\ ~(f # "none" /\ m.req.initrd # None)
  <2>1. m.err \in BOOLEAN
    BY DEF State
  <2>. QED  BY <1>3, <2>1, FinishFollows DEF ToDrop
<1>. QED  BY <1>1, <1>2, <1>3

LEMMA NamesTyped ==
  ASSUME NEW r \in Request
  PROVE  Targets(r) \in SUBSET Name /\ AllNames(r) \in SUBSET Name
BY DEF Targets, AllNames, Request, Name, Alias

LEMMA ToImageFollows ==
  ASSUME NEW m \in State, NEW f \in Field \union {"none"}
  PROVE  Follows(m, ToImage(m, f))
<1> DEFINE names == IF m.req.method = "PATCH" THEN AllNames(m.req) ELSE Targets(m.req)
<1>1. CASE f = "kernel" /\ m.req.kernel # None
  <2>1. ToImage(m, f) = [m EXCEPT !.pc = "image", !.fld = "kernel"]
    BY <1>1 DEF ToImage
  <2>. QED  BY <1>1, <2>1, AtFieldFollows DEF Field
<1>2. CASE ~(f = "kernel" /\ m.req.kernel # None) /\ f # "none" /\ m.req.initrd # None
  <2>1. ToImage(m, f) = [m EXCEPT !.pc = "image", !.fld = "initrd"]
    BY <1>2 DEF ToImage
  <2>. QED  BY <1>2, <2>1, AtFieldFollows DEF Field
<1>3. CASE ~(f = "kernel" /\ m.req.kernel # None) /\ ~(f # "none" /\ m.req.initrd # None)
  <2>1. m.req \in Request
    BY DEF State
  <2>2. names \in SUBSET Name
    BY <2>1, NamesTyped
  <2>3. CASE names = {}
    BY <1>3, <2>3, ToSetImageFollows DEF ToImage
  <2>4. CASE names # {}
    <3>1. ToImage(m, f) = [m EXCEPT !.todo = names,
                                    !.pc = IF m.req.method = "PATCH" THEN "resolve" ELSE "write"]
      BY <1>3, <2>4 DEF ToImage
    <3>. QED
      BY <3>1, <2>2 DEF State, Follows, Handler, Coherent, Pc, Done, DropPc
  <2>. QED  BY <2>3, <2>4
<1>. QED  BY <1>1, <1>2, <1>3

LEMMA ChainSet ==
  ASSUME NEW m \in State, NEW s \in Seq(Name)
  PROVE  LET d == [m EXCEPT !.chain = s]
         IN  /\ d \in State /\ d.req = m.req /\ d.ids = m.ids /\ d.held = m.held
             /\ d.chain = s /\ d.pc = m.pc /\ d.todo = m.todo /\ d.fld = m.fld
BY DEF State

LEMMA NextNameFollows ==
  ASSUME NEW m \in State
  PROVE  Follows(m, NextName(m))
<1> DEFINE d == [m EXCEPT !.chain = <<>>]
<1>1. /\ d \in State /\ d.req = m.req /\ d.ids = m.ids /\ d.held = m.held
      /\ m.req.method \in Method
  <2>1. m.req.method \in Method
    BY DEF State, Request
  <2>2. \A s \in Seq(Name) :
          /\ [m EXCEPT !.chain = s] \in State
          /\ [m EXCEPT !.chain = s].req = m.req /\ [m EXCEPT !.chain = s].ids = m.ids
          /\ [m EXCEPT !.chain = s].held = m.held
    BY ChainSet
  <2>3. <<>> \in Seq(Name)
    OBVIOUS
  <2> HIDE DEF d
  <2>4. d \in State /\ d.req = m.req /\ d.ids = m.ids /\ d.held = m.held
    BY ONLY <2>2, <2>3, Zenon DEF d
  <2>. QED  BY <2>1, <2>4
<1> HIDE DEF d
<1>2. ASSUME NEW e, Follows(d, e)  PROVE Follows(m, e)
  BY <1>1, <1>2 DEF Follows
<1>3. CASE m.todo # {}
  <2>1. NextName(m) = [d EXCEPT !.pc = "resolve"]
    BY <1>3 DEF NextName, d
  <2>2. Follows(d, [d EXCEPT !.pc = "resolve"])
    BY <1>1 DEF State, Follows, Handler, Coherent, Pc, Done, DropPc
  <2>. QED  BY <2>1, <2>2, <1>2
<1>4. CASE m.todo = {} /\ m.req.method = "POST"
  BY <1>1, <1>2, <1>4, ToImageFollows DEF NextName, d, Field
<1>5. CASE m.todo = {} /\ m.req.method = "PATCH" /\ m.held = NoCopies
  BY <1>1, <1>2, <1>5, ToSetImageFollows DEF NextName, d
<1>6. CASE m.todo = {} /\ m.req.method = "PATCH" /\ m.held # NoCopies
  <2>1. NextName(m) = [d EXCEPT !.pc = "apply"]
    BY <1>6 DEF NextName, d
  <2>2. Follows(d, [d EXCEPT !.pc = "apply"])
    BY <1>1 DEF State, Follows, Handler, Coherent, Pc, Done, DropPc
  <2>. QED  BY <2>1, <2>2, <1>2
<1>7. CASE m.todo = {} /\ m.req.method = "DELETE"
  BY <1>1, <1>2, <1>7, ToDropFollows DEF NextName, d, Field
<1>8. CASE m.todo = {} /\ m.req.method \notin {"POST", "PATCH", "DELETE"}
  BY <1>1, <1>2, <1>8, FinishFollows DEF NextName, d
<1>. QED  BY <1>3, <1>4, <1>5, <1>6, <1>7, <1>8

LEMMA StartFollows ==
  ASSUME NEW r \in Request
  PROVE  Follows(Blank(r), Start(r))
<1> DEFINE m == Blank(r)
           given == {f \in Field : r[f] # None}
<1>1. m \in State /\ m.req = r /\ r.method \in Method
  BY BlankTyped DEF Handler, Request
<1>2. Targets(r) \in SUBSET Name /\ AllNames(r) \in SUBSET Name
  BY NamesTyped
<1>3. ASSUME NEW s \in SUBSET Name
      PROVE  Follows(m, NextName([m EXCEPT !.todo = s]))
  <2>1. [m EXCEPT !.todo = s] \in State
        /\ [m EXCEPT !.todo = s].req = m.req /\ [m EXCEPT !.todo = s].ids = m.ids
        /\ [m EXCEPT !.todo = s].held = m.held
    BY <1>1 DEF State
  <2>. QED  BY <2>1, NextNameFollows DEF Follows
<1> HIDE DEF m
<1>4. CASE r.method = "POST" /\ Targets(r) = {} /\ given # {}
  <2>1. Start(r) = [m EXCEPT !.pc = "find",
                             !.fld = IF "kernel" \in given THEN "kernel" ELSE "initrd"]
    BY <1>4 DEF Start, m
  <2>2. r[IF "kernel" \in given THEN "kernel" ELSE "initrd"] # None
    BY <1>4 DEF Field
  <2>. QED
    BY <1>1, <2>1, <2>2 DEF State, Follows, Handler, Coherent, Pc, Done, DropPc, Field, m
<1>5. CASE r.method = "POST" /\ Targets(r) = {} /\ given = {}
  <2>1. Start(r) = Finish(m, FALSE)
    BY <1>5 DEF Start, m
  <2>. QED  BY <1>1, <2>1, FinishFollows DEF m
<1>6. CASE r.method = "POST" /\ Targets(r) # {}
  <2>1. Start(r) = NextName([m EXCEPT !.todo = Targets(r)])
    BY <1>6 DEF Start, m
  <2>. QED  BY <1>2, <1>3, <2>1 DEF m
<1>7. CASE r.method \in {"PUT", "PATCH"}
  <2>1. Start(r) = ToImage(m, "kernel")
    BY <1>7 DEF Start, m
  <2>. QED  BY <1>1, <2>1, ToImageFollows DEF m, Field
<1>8. CASE r.method \notin {"POST", "PUT", "PATCH"}
  <2>1. Start(r) = NextName([m EXCEPT !.todo = AllNames(r)])
    BY <1>8 DEF Start, m
  <2>. QED  BY <1>2, <1>3, <2>1 DEF m
<1>. QED  BY <1>4, <1>5, <1>6, <1>7, <1>8

-----------------------------------------------------------------------------
(* The invariant that types the handlers.                                  *)

TypeInv == TypeOK /\ cl \in [Client -> Handler]

(* Handler c goes on from k, a state that differs from its own at most by  *)
(* a new request, by keys of images that are there, and by copies of what  *)
(* is stored.                                                              *)
Moves(c) ==
  \E k \in State, e \in Handler :
    /\ Become(c, e) /\ Follows(k, e)
    /\ k.req = cl[c].req \/ (Begin(c) /\ k.req \in Requests)
    /\ \A f \in Field : \/ k.ids[f] \in {cl[c].ids[f], None}
                        \/ k.ids[f] \in Image /\ images'[k.ids[f]] # Absent
    /\ \A n \in Name : k.held[n] \in {cl[c].held[n], tags[n], Absent}

LEMMA MovesFrom ==
  ASSUME NEW c \in Client, NEW k \in State, NEW e,
         Become(c, e), Follows(k, e),
         k.req = cl[c].req \/ (Begin(c) /\ k.req \in Requests),
         \A f \in Field : \/ k.ids[f] \in {cl[c].ids[f], None}
                          \/ k.ids[f] \in Image /\ images'[k.ids[f]] # Absent,
         \A n \in Name : k.held[n] \in {cl[c].held[n], tags[n], Absent}
  PROVE  Moves(c)
BY DEF Moves, Follows

(* The frequent case: the handler's own state, but for its place.          *)
LEMMA MovesLike ==
  ASSUME NEW c \in Client, NEW k \in State, NEW e,
         Become(c, e), Follows(k, e),
         k.req = cl[c].req, k.ids = cl[c].ids,
         \A n \in Name : k.held[n] \in {cl[c].held[n], Absent}
  PROVE  Moves(c)
BY MovesFrom

LEMMA FollowsLike ==
  ASSUME NEW k \in State, NEW m \in State, NEW e, Follows(m, e),
         m.req = k.req, m.ids = k.ids, \A n \in Name : m.held[n] \in {k.held[n], Absent}
  PROVE  Follows(k, e)
BY DEF Follows

LEMMA FollowsSelf ==
  ASSUME NEW m \in Handler
  PROVE  Follows(m, m)
BY DEF Follows, Handler

LEMMA OwnState ==
  ASSUME TypeInv, NEW c \in Client
  PROVE  cl[c] \in State /\ cl[c] \in Handler /\ Coherent(cl[c]) /\ cl[c].req \in Request
BY DEF TypeInv, Handler, State

(* The image an image step is about.                                       *)
LEMMA AskedTyped ==
  ASSUME TypeInv, NEW c \in Client,
         cl[c].pc \in {"find", "image", "add"} \union DropPc
  PROVE  Asked(c) \in Image /\ Asked(c) # None
<1>1. cl[c] \in State /\ Coherent(cl[c]) /\ cl[c].req \in Request
  BY OwnState
<1>2. cl[c].fld \in Field
  BY <1>1 DEF State
<1>3. Asked(c) # None
  BY <1>1 DEF Asked, Coherent
<1>. QED  BY <1>1, <1>2, <1>3, FieldTyped DEF Asked

LEMMA TriesTyped ==
  ASSUME TypeInv, NEW n \in Name, NEW method
  PROVE  Tries(method, n) \in Seq(Name)
<1>1. Known(n) => n \in Alias /\ smComp[n] \in Host
  BY DEF Known, TypeInv, TypeOK
<1>2. KeyOf(n) \in Name /\ <<KeyOf(n)>> \in Seq(Name)
  BY <1>1 DEF KeyOf, Name
<1>3. ASSUME NEW h \in Host  PROVE RoleTag(h) \in Seq(Name)
  <2>1. Role[h] # None => Role[h] \in Name
    BY NameAssumption DEF NameAssumption, Name
  <2>2. Role[h] # None => <<Role[h]>> \in Seq(Name)
    BY <2>1
  <2>3. <<>> \in Seq(Name)
    OBVIOUS
  <2>. QED  BY <2>2, <2>3, Zenon DEF RoleTag
<1>4. <<Default>> \in Seq(Name) /\ <<n>> \in Seq(Name) /\ <<n, Default>> \in Seq(Name)
      /\ <<>> \in Seq(Name)
  BY NameAssumption DEF NameAssumption, Name
<1>5. Known(n) => <<smComp[n], n>> \in Seq(Name)
  BY <1>1 DEF Name
<1>6. n \in Host => <<n>> \o RoleTag(n) \o <<Default>> \in Seq(Name)
  BY <1>3, <1>4
<1>7. Known(n) => <<smComp[n], n>> \o RoleTag(smComp[n]) \o <<Default>> \in Seq(Name)
  BY <1>1, <1>3, <1>4, <1>5
<1>. QED
  BY <1>2, <1>4, <1>5, <1>6, <1>7 DEF Tries

-----------------------------------------------------------------------------
(* Each step of a handler moves it.                                        *)

LEMMA BeginMoves ==
  ASSUME NEW c \in Client, Begin(c)
  PROVE  Moves(c)
<1>1. PICK r \in Requests : Become(c, Start(r))
  BY DEF Begin
<1>2. r \in Request
  BY RequestAssumption DEF RequestAssumption
<1> DEFINE k == Blank(r)
           e == Start(r)
<1>3. /\ k \in State /\ k.req = r /\ k.ids = NoRefs
      /\ \A n \in Name : k.held[n] = Absent
  BY <1>2, BlankTyped DEF Handler, NoCopies
<1>4. Follows(k, e)
  BY <1>2, StartFollows
<1>5. \A f \in Field : NoRefs[f] = None
  BY DEF NoRefs, Field
<1> HIDE DEF k, e
<1>. QED
  BY <1>1, <1>3, <1>4, <1>5, MovesFrom DEF e

LEMMA ResolveMoves ==
  ASSUME TypeInv, NEW c \in Client, Resolve(c)
  PROVE  Moves(c)
<1>1. PICK n \in cl[c].todo :
        LET chain == Tries(cl[c].req.method, n)
            m == [cl[c] EXCEPT !.todo = @ \ {n}, !.chain = chain, !.pc = "read"]
        IN  Become(c, IF chain = <<>> THEN NextName(m) ELSE m)
  BY DEF Resolve
<1> DEFINE chain == Tries(cl[c].req.method, n)
           m == [cl[c] EXCEPT !.todo = @ \ {n}, !.chain = chain, !.pc = "read"]
<1>2. cl[c] \in State
  BY OwnState
<1>3. n \in Name
  BY <1>2 DEF State
<1>4. chain \in Seq(Name)
  BY <1>3, TriesTyped
<1> HIDE DEF chain
<1>5. /\ m \in State /\ m.pc = "read" /\ m.chain = chain
      /\ m.req = cl[c].req /\ m.ids = cl[c].ids /\ m.held = cl[c].held
  BY <1>2, <1>4 DEF State, Pc
<1>6. Become(c, IF chain = <<>> THEN NextName(m) ELSE m)
  BY <1>1 DEF chain
<1> HIDE DEF m
<1>7. CASE chain = <<>>
  BY <1>5, <1>6, <1>7, NextNameFollows, MovesLike
<1>8. CASE chain # <<>>
  <2>1. m \in Handler
    BY <1>5, <1>8 DEF Handler, Coherent, DropPc
  <2>. QED  BY <1>5, <1>6, <1>8, <2>1, FollowsSelf, MovesLike
<1>. QED  BY <1>7, <1>8

LEMMA TailTyped ==
  ASSUME NEW s \in Seq(Name), Len(s) > 1
  PROVE  Tail(s) \in Seq(Name) /\ Tail(s) # <<>>
<1>1. s # <<>>
  OBVIOUS
<1>2. Tail(s) \in Seq(Name) /\ Len(Tail(s)) = Len(s) - 1
  BY <1>1
<1>3. Len(Tail(s)) # 0 /\ Len(<<>>) = 0
  BY <1>2
<1>. QED  BY <1>2, <1>3, Zenon

LEMMA HeadTyped ==
  ASSUME TypeInv, NEW c \in Client, cl[c].pc \in {"read", "delete"}, cl[c].chain # <<>>
  PROVE  Head(cl[c].chain) \in Name
<1>1. cl[c].chain \in Seq(Name)
  BY OwnState DEF State
<1>. QED  BY <1>1

LEMMA ReadFoundMoves ==
  ASSUME TypeInv, NEW c \in Client, ReadFound(c)
  PROVE  Moves(c)
<1> DEFINE m == cl[c]
           n == Head(m.chain)
           rec == IF m.held[n] # Absent THEN m.held[n] ELSE tags[n]
           copied == [m EXCEPT !.held[n] = rec]
<1>1. m \in State /\ Coherent(m) /\ m.pc = "read" /\ rec # Absent /\ m.req \in Request
  BY OwnState DEF ReadFound
<1>2. n \in Name
  BY <1>1, HeadTyped DEF Coherent
<1>3. rec \in Record \union {Absent} /\ rec \in {m.held[n], tags[n]}
  BY <1>1, <1>2 DEF State, TypeInv, TypeOK
<1>4. /\ copied \in State /\ copied.req = m.req /\ copied.ids = m.ids
      /\ \A x \in Name : copied.held[x] \in {m.held[x], tags[x]}
  <2> HIDE DEF m, n, rec
  <2>. QED  BY <1>1, <1>2, <1>3 DEF State
<1>5. Become(c, CASE m.req.method = "POST"   -> Finish(m, TRUE)
                  [] m.req.method = "PATCH"  -> NextName(copied)
                  [] m.req.method = "DELETE" -> [m EXCEPT !.pc = "delete"]
                  [] OTHER -> [copied EXCEPT !.pc = "fetch"])
  BY DEF ReadFound
<1>6. m.req.method \in Method
  BY <1>1 DEF Request
<1> HIDE DEF copied, rec, n
<1>7. CASE m.req.method = "POST"
  BY <1>1, <1>5, <1>7, FinishFollows, MovesLike
<1>8. CASE m.req.method = "PATCH"
  <2>1. Become(c, NextName(copied))
    BY <1>5, <1>8
  <2>. QED  BY <1>4, <2>1, NextNameFollows, MovesFrom
<1>9. CASE m.req.method = "DELETE"
  <2> DEFINE e == [m EXCEPT !.pc = "delete"]
  <2>1. Become(c, e)
    BY <1>5, <1>9
  <2>2. e \in State /\ e.req = m.req /\ e.ids = m.ids /\ e.held = m.held /\ e.pc = "delete"
    BY <1>1 DEF State, Pc
  <2> HIDE DEF e
  <2>3. e \in Handler
    BY <2>2 DEF Handler, Coherent, DropPc
  <2>. QED  BY <2>1, <2>2, <2>3, FollowsSelf, MovesLike
<1>10. CASE m.req.method \notin {"POST", "PATCH", "DELETE"}
  <2> DEFINE e == [copied EXCEPT !.pc = "fetch"]
  <2>1. Become(c, e)
    BY <1>5, <1>10
  <2>2. e \in State /\ e.req = m.req /\ e.ids = m.ids /\ e.held = copied.held /\ e.pc = "fetch"
    BY <1>4 DEF State, Pc
  <2> HIDE DEF e
  <2>3. e \in Handler
    BY <2>2 DEF Handler, Coherent, DropPc
  <2>. QED  BY <1>4, <2>1, <2>2, <2>3, FollowsSelf, MovesFrom
<1>. QED  BY <1>7, <1>8, <1>9, <1>10

LEMMA ReadNothingMoves ==
  ASSUME TypeInv, NEW c \in Client, ReadNothing(c)
  PROVE  Moves(c)
<1> DEFINE m == cl[c]
           fails == [m EXCEPT !.err = TRUE]
           t == Tail(m.chain)
           next == [m EXCEPT !.chain = t]
<1>1. m \in State /\ Coherent(m) /\ m.pc = "read" /\ m.chain \in Seq(Name)
  BY OwnState DEF ReadNothing, State
<1>2. Become(c, IF Len(m.chain) > 1 THEN [m EXCEPT !.chain = Tail(@)]
                ELSE CASE m.req.method = "PATCH"  -> Finish(m, TRUE)
                       [] m.req.method = "DELETE" -> NextName([m EXCEPT !.err = TRUE])
                       [] OTHER                   -> NextName(m))
  BY DEF ReadNothing
<1>3. fails \in State /\ fails.req = m.req /\ fails.ids = m.ids /\ fails.held = m.held
  BY <1>1 DEF State
<1>4. CASE Len(m.chain) > 1
  <2>1. t \in Seq(Name) /\ t # <<>>
    BY <1>1, <1>4, TailTyped
  <2>2. Become(c, next)
    BY <1>2, <1>4
  <2> HIDE DEF t
  <2>3. /\ next \in State /\ next.req = m.req /\ next.ids = m.ids /\ next.held = m.held
        /\ next.pc = "read" /\ next.chain = t
    BY <1>1, <2>1 DEF State
  <2> HIDE DEF next
  <2>4. next \in Handler
    BY <2>1, <2>3 DEF Handler, Coherent, DropPc
  <2>. QED  BY <2>2, <2>3, <2>4, FollowsSelf, MovesLike
<1>5. CASE ~(Len(m.chain) > 1)
  <2>1. Follows(m, Finish(m, TRUE)) /\ Follows(m, NextName(m)) /\ Follows(fails, NextName(fails))
    BY <1>1, <1>3, FinishFollows, NextNameFollows
  <2>2. \/ Become(c, Finish(m, TRUE)) \/ Become(c, NextName(m)) \/ Become(c, NextName(fails))
    BY <1>2, <1>5
  <2> HIDE DEF m, fails
  <2>. QED  BY <1>1, <1>3, <2>1, <2>2, MovesLike DEF m
<1>. QED  BY <1>4, <1>5

LEMMA FetchImageMoves ==
  ASSUME TypeInv, NEW c \in Client, FetchImage(c)
  PROVE  Moves(c)
<1> DEFINE m == cl[c]
           ref == {m.held[n][m.fld] : n \in {x \in Name : m.held[x] # Absent}} \ {None}
           next(d) == IF d.fld = "kernel" THEN [d EXCEPT !.fld = "initrd"] ELSE Finish(d, FALSE)
<1>1. m \in State /\ m.pc = "fetch" /\ m.fld \in Field
  BY OwnState DEF FetchImage, State
<1>2. ASSUME NEW d \in State, d.pc = "fetch"
      PROVE  Follows(d, next(d))
  <2>1. CASE d.fld = "kernel"
    <3> DEFINE e == [d EXCEPT !.fld = "initrd"]
    <3>1. e \in State /\ e.req = d.req /\ e.ids = d.ids /\ e.held = d.held /\ e.pc = "fetch"
      BY <1>2 DEF State, Field
    <3> HIDE DEF e
    <3>2. Follows(d, e)
      BY <3>1 DEF Follows, Handler, Coherent, DropPc
    <3>. QED  BY <2>1, <3>2 DEF e
  <2>2. CASE d.fld # "kernel"
    BY <2>2, FinishFollows
  <2>. QED  BY <2>1, <2>2
<1>3. \/ \E i \in ref : images[i] # Absent /\ images' = images
                        /\ Become(c, next([m EXCEPT !.ids[m.fld] = i]))
      \/ Become(c, next(m))
  BY DEF FetchImage
<1>4. CASE Become(c, next(m))
  <2> HIDE DEF next
  <2>. QED  BY <1>1, <1>2, <1>4, MovesLike
<1>5. ASSUME NEW i \in ref, images[i] # Absent, images' = images,
             Become(c, next([m EXCEPT !.ids[m.fld] = i]))
      PROVE  Moves(c)
  <2> DEFINE d == [m EXCEPT !.ids[m.fld] = i]
  <2>1. PICK n \in Name : m.held[n] # Absent /\ i = m.held[n][m.fld] /\ i # None
    BY <1>5
  <2>2. m.held[n] \in Record
    BY <1>1, <2>1 DEF State
  <2>3. /\ m.fld = "kernel" => i \in Kernel
        /\ m.fld = "initrd" => i \in Initrd
    BY <2>1, <2>2 DEF Record
  <2> HIDE DEF ref, m
  <2>4. /\ d \in State /\ d.pc = "fetch" /\ d.req = m.req /\ d.held = m.held
        /\ \A f \in Field : d.ids[f] = IF f = m.fld THEN i ELSE m.ids[f]
    BY <1>1, <2>3 DEF State, Field
  <2>5. i \in Image
    BY <1>1, <2>3 DEF Image, Field
  <2> HIDE DEF next, d
  <2>6. Become(c, next(d))
    BY <1>5 DEF d
  <2>7. Follows(d, next(d))
    BY <1>2, <2>4
  <2>8. \A f \in Field : \/ d.ids[f] \in {cl[c].ids[f], None}
                         \/ d.ids[f] \in Image /\ images'[d.ids[f]] # Absent
    BY <1>5, <2>4, <2>5 DEF m
  <2>. QED  BY <2>4, <2>6, <2>7, <2>8, MovesFrom DEF m
<1>. QED  BY <1>3, <1>4, <1>5

LEMMA FindImageMoves ==
  ASSUME TypeInv, NEW c \in Client, FindImage(c)
  PROVE  Moves(c)
<1>1. cl[c] \in State
  BY OwnState
<1>2. Become(c, Finish(cl[c], TRUE)) \/ Become(c, ToImage(cl[c], "kernel"))
  BY DEF FindImage
<1>3. Follows(cl[c], Finish(cl[c], TRUE)) /\ Follows(cl[c], ToImage(cl[c], "kernel"))
  BY <1>1, FinishFollows, ToImageFollows DEF Field
<1>. QED  BY <1>1, <1>2, <1>3, MovesLike

LEMMA AfterTyped ==
  ASSUME NEW f \in Field
  PROVE  FieldAfter(f) \in Field \union {"none"}
BY DEF FieldAfter, Field

(* imageStore has a key: the image is there, or will be after this step.   *)
LEMMA KeyMoves ==
  ASSUME TypeInv, NEW c \in Client, cl[c].pc \in {"image", "add"},
         images'[Asked(c)] # Absent,
         LET m == [cl[c] EXCEPT !.ids[cl[c].fld] = Asked(c)]
         IN  Become(c, ToImage(m, FieldAfter(m.fld)))
  PROVE  Moves(c)
<1> DEFINE m == cl[c]
           d == [m EXCEPT !.ids[m.fld] = Asked(c)]
<1>1. m \in State /\ m.fld \in Field /\ m.req \in Request
  BY OwnState DEF State
<1>2. Asked(c) \in Image /\ Asked(c) = m.req[m.fld]
  BY AskedTyped DEF Asked
<1>3. /\ m.fld = "kernel" => Asked(c) \in Kernel \union {None}
      /\ m.fld = "initrd" => Asked(c) \in Initrd \union {None}
  BY <1>1, <1>2 DEF Request
<1>4. Become(c, ToImage(d, FieldAfter(d.fld)))
  OBVIOUS
<1> HIDE DEF m
<1>5. /\ d \in State /\ d.req = m.req /\ d.held = m.held /\ d.fld = m.fld
      /\ \A f \in Field : d.ids[f] = IF f = m.fld THEN Asked(c) ELSE m.ids[f]
  BY <1>1, <1>3 DEF State, Field
<1> HIDE DEF d
<1>6. Follows(d, ToImage(d, FieldAfter(d.fld)))
  BY <1>1, <1>5, ToImageFollows, AfterTyped
<1>7. \A f \in Field : \/ d.ids[f] \in {cl[c].ids[f], None}
                       \/ d.ids[f] \in Image /\ images'[d.ids[f]] # Absent
  BY <1>2, <1>5 DEF m
<1>. QED  BY <1>4, <1>5, <1>6, <1>7, MovesFrom DEF m

LEMMA ImageKnownMoves ==
  ASSUME TypeInv, NEW c \in Client, ImageKnown(c)
  PROVE  Moves(c)
<1>1. images'[Asked(c)] # Absent
  BY DEF ImageKnown
<1>. QED  BY <1>1, KeyMoves DEF ImageKnown

LEMMA AddImageMoves ==
  ASSUME TypeInv, NEW c \in Client, AddImage(c)
  PROVE  Moves(c)
<1>1. Asked(c) \in Image
  BY AskedTyped DEF AddImage
<1>2. images'[Asked(c)] = None
  BY <1>1 DEF AddImage, TypeInv, TypeOK
<1>3. None # Absent
  BY ImageAssumption DEF ImageAssumption
<1>. QED  BY <1>2, <1>3, KeyMoves DEF AddImage

(* A step that only changes the handler's pc, where image is still asked.  *)
LEMMA GotoMoves ==
  ASSUME TypeInv, NEW c \in Client, NEW p \in {"add", "delimage", "gettags"},
         cl[c].pc \in {"image", "drop", "delimage"},
         p # "add" => cl[c].pc \in DropPc,
         Become(c, [cl[c] EXCEPT !.pc = p])
  PROVE  Moves(c)
<1> DEFINE m == cl[c]
           e == [m EXCEPT !.pc = p]
<1>1. m \in State /\ Coherent(m)
  BY OwnState
<1>2. Become(c, e)
  OBVIOUS
<1> HIDE DEF m
<1>3. /\ e \in State /\ e.req = m.req /\ e.ids = m.ids /\ e.held = m.held
      /\ e.pc = p /\ e.fld = m.fld
  BY <1>1 DEF State, Pc
<1> HIDE DEF e
<1>4. e \in Handler
  BY <1>1, <1>3 DEF Handler, Coherent, DropPc, m
<1>. QED  BY <1>2, <1>3, <1>4, FollowsSelf, MovesLike DEF m

LEMMA ImageUnknownMoves ==
  ASSUME TypeInv, NEW c \in Client, ImageUnknown(c)
  PROVE  Moves(c)
BY GotoMoves DEF ImageUnknown

LEMMA AddImageFailsMoves ==
  ASSUME TypeInv, NEW c \in Client, AddImageFails(c)
  PROVE  Moves(c)
<1>1. cl[c] \in State /\ cl[c].fld \in Field
  BY OwnState DEF State
<1>2. Become(c, Finish(cl[c], TRUE)) \/ Become(c, ToImage(cl[c], FieldAfter(cl[c].fld)))
  BY DEF AddImageFails
<1>3. Follows(cl[c], Finish(cl[c], TRUE)) /\ Follows(cl[c], ToImage(cl[c], FieldAfter(cl[c].fld)))
  BY <1>1, FinishFollows, ToImageFollows, AfterTyped
<1>. QED  BY <1>1, <1>2, <1>3, MovesLike

LEMMA SetImageMoves ==
  ASSUME TypeInv, NEW c \in Client, SetImage(c)
  PROVE  Moves(c)
<1>1. cl[c] \in State
  BY OwnState
<1>2. Become(c, Finish(cl[c], TRUE)) \/ Become(c, Finish(cl[c], FALSE))
  BY DEF SetImage
<1>3. Follows(cl[c], Finish(cl[c], TRUE)) /\ Follows(cl[c], Finish(cl[c], FALSE))
  BY <1>1, FinishFollows
<1>. QED  BY <1>1, <1>2, <1>3, MovesLike

LEMMA WriteNameMoves ==
  ASSUME TypeInv, NEW c \in Client, WriteName(c)
  PROVE  Moves(c)
<1>1. PICK n \in cl[c].todo :
        LET m == [cl[c] EXCEPT !.todo = @ \ {n}]
        IN  Become(c, IF m.todo = {} THEN Finish(m, FALSE) ELSE m)
  BY DEF WriteName
<1> DEFINE m == [cl[c] EXCEPT !.todo = @ \ {n}]
<1>2. cl[c] \in State /\ Coherent(cl[c]) /\ cl[c].pc = "write"
  BY OwnState DEF WriteName
<1>3. m \in State /\ m.req = cl[c].req /\ m.ids = cl[c].ids /\ m.held = cl[c].held
      /\ m.pc = "write"
  BY <1>2 DEF State
<1>4. Become(c, Finish(m, FALSE)) \/ Become(c, m)
  BY <1>1
<1> HIDE DEF m
<1>5. Follows(m, m) /\ Follows(m, Finish(m, FALSE))
  BY <1>3, FinishFollows DEF Follows, Handler, Coherent, DropPc
<1>. QED  BY <1>3, <1>4, <1>5, MovesLike

LEMMA WriteFailsMoves ==
  ASSUME TypeInv, NEW c \in Client, WriteFails(c)
  PROVE  Moves(c)
<1>1. cl[c] \in State /\ Become(c, Finish(cl[c], TRUE))
  BY OwnState DEF WriteFails
<1>. QED  BY <1>1, FinishFollows, MovesLike

LEMMA ApplyPatchMoves ==
  ASSUME TypeInv, NEW c \in Client, NEW n \in Name, ApplyPatch(c, n)
  PROVE  Moves(c)
<1>1. cl[c] \in State /\ cl[c].pc = "apply"
  BY OwnState DEF ApplyPatch
<1>2. ASSUME NEW k \in State, k.pc = "apply"
      PROVE  Follows(k, Applied(k, n))
  <2> DEFINE d == [k EXCEPT !.held[n] = Absent]
  <2>a. k.held \in [Name -> Record \union {Absent}]
    BY DEF State
  <2>b. [k.held EXCEPT ![n] = Absent] \in [Name -> Record \union {Absent}]
    BY <2>a
  <2>c. d = [k EXCEPT !.held = [k.held EXCEPT ![n] = Absent]]
    OBVIOUS
  <2>d. /\ d \in State /\ d.req = k.req /\ d.ids = k.ids /\ d.pc = "apply"
        /\ d.held = [k.held EXCEPT ![n] = Absent]
    BY <1>2, <2>b, <2>c, HeldTyped
  <2>1. /\ d \in State /\ d.req = k.req /\ d.ids = k.ids /\ d.pc = "apply"
        /\ \A x \in Name : d.held[x] \in {k.held[x], Absent}
    BY <2>a, <2>d
  <2>2. Applied(k, n) = IF d.held = NoCopies THEN Finish(d, d.last) ELSE d
    BY DEF Applied
  <2> HIDE DEF d
  <2>e. d.last \in BOOLEAN /\ d \in Handler
    BY <2>1 DEF State, Handler, Coherent, DropPc
  <2>3. Follows(d, Finish(d, d.last)) /\ Follows(d, d)
    BY <2>1, <2>e, FinishFollows, FollowsSelf
  <2>. QED  BY <2>1, <2>2, <2>3, FollowsLike
<1>3. \A b \in BOOLEAN :
        /\ [cl[c] EXCEPT !.last = b] \in State
        /\ [cl[c] EXCEPT !.last = b].req = cl[c].req
        /\ [cl[c] EXCEPT !.last = b].ids = cl[c].ids
        /\ [cl[c] EXCEPT !.last = b].held = cl[c].held
        /\ [cl[c] EXCEPT !.last = b].pc = "apply"
  BY <1>1 DEF State
<1>4. \/ Become(c, Applied([cl[c] EXCEPT !.last = FALSE], n))
      \/ Become(c, Applied(cl[c], n))
      \/ Become(c, Applied([cl[c] EXCEPT !.last = TRUE], n))
  BY DEF ApplyPatch
<1>5. CASE Become(c, Applied(cl[c], n))
  BY <1>1, <1>2, <1>5, MovesLike
<1>6. ASSUME NEW b \in BOOLEAN, Become(c, Applied([cl[c] EXCEPT !.last = b], n))
      PROVE  Moves(c)
  <2> DEFINE k == [cl[c] EXCEPT !.last = b]
  <2>1. k \in State /\ k.req = cl[c].req /\ k.ids = cl[c].ids /\ k.held = cl[c].held
        /\ k.pc = "apply" /\ Become(c, Applied(k, n))
    BY <1>3, <1>6
  <2> HIDE DEF k
  <2>. QED  BY <1>2, <2>1, MovesLike
<1>. QED  BY <1>4, <1>5, <1>6

LEMMA DeleteRecordMoves ==
  ASSUME TypeInv, NEW c \in Client, DeleteRecord(c)
  PROVE  Moves(c)
<1> DEFINE fails == [cl[c] EXCEPT !.err = TRUE]
<1>1. cl[c] \in State
  BY OwnState
<1>2. fails \in State /\ fails.req = cl[c].req /\ fails.ids = cl[c].ids /\ fails.held = cl[c].held
  BY <1>1 DEF State
<1>3. Become(c, NextName(cl[c])) \/ Become(c, NextName(fails))
  BY DEF DeleteRecord
<1> HIDE DEF fails
<1>4. Follows(cl[c], NextName(cl[c])) /\ Follows(fails, NextName(fails))
  BY <1>1, <1>2, NextNameFollows
<1>. QED  BY <1>1, <1>2, <1>3, <1>4, MovesLike

LEMMA DroppedFollows ==
  ASSUME NEW m \in State, NEW b \in BOOLEAN, m.req.method = "DELETE"
  PROVE  Follows(m, Dropped(m, b))
<1> DEFINE d == [m EXCEPT !.err = @ \/ b, !.last = FALSE, !.held = NoCopies]
<1>1. NoCopies \in [Name -> Record \union {Absent}] /\ \A n \in Name : NoCopies[n] = Absent
  BY DEF NoCopies
<1>2. m.err \in BOOLEAN /\ m.fld \in Field
  BY DEF State
<1>3. (m.err \/ b) \in BOOLEAN
  BY <1>2
<1>4. \A x, y \in BOOLEAN, h \in [Name -> Record \union {Absent}] :
        LET k == [m EXCEPT !.err = x, !.last = y, !.held = h]
        IN  k \in State /\ k.req = m.req /\ k.ids = m.ids /\ k.held = h
  BY DEF State
<1>5. d \in State /\ d.req = m.req /\ d.ids = m.ids /\ d.held = NoCopies
  BY <1>1, <1>3, <1>4
<1>6. Dropped(m, b) = ToDrop(d, FieldAfter(m.fld))
  BY DEF Dropped
<1> HIDE DEF d
<1>7. Follows(d, Dropped(m, b))
  BY <1>2, <1>5, <1>6, AfterTyped, ToDropFollows
<1>. QED  BY <1>1, <1>5, <1>7, FollowsLike

LEMMA DropIsDelete ==
  ASSUME TypeInv, NEW c \in Client, cl[c].pc \in DropPc
  PROVE  cl[c] \in State /\ cl[c].req.method = "DELETE"
BY OwnState DEF Coherent

LEMMA FindDroppedMoves ==
  ASSUME TypeInv, NEW c \in Client, FindDropped(c)
  PROVE  Moves(c)
<1>1. cl[c].pc = "drop" /\ cl[c] \in State /\ cl[c].req.method = "DELETE"
  BY DropIsDelete DEF FindDropped, DropPc
<1>2. Become(c, [cl[c] EXCEPT !.pc = "delimage"]) \/ Become(c, Dropped(cl[c], FALSE))
  BY DEF FindDropped
<1>3. CASE Become(c, [cl[c] EXCEPT !.pc = "delimage"])
  BY <1>1, <1>3, GotoMoves DEF DropPc
<1>4. CASE Become(c, Dropped(cl[c], FALSE))
  BY <1>1, <1>4, DroppedFollows, MovesLike
<1>. QED  BY <1>2, <1>3, <1>4

LEMMA DeleteImageMoves ==
  ASSUME TypeInv, NEW c \in Client, DeleteImage(c)
  PROVE  Moves(c)
<1>1. cl[c].pc = "delimage" /\ cl[c] \in State /\ cl[c].req.method = "DELETE"
  BY DropIsDelete DEF DeleteImage, DropPc
<1>2. Become(c, [cl[c] EXCEPT !.pc = "gettags"]) \/ Become(c, Dropped(cl[c], TRUE))
  BY DEF DeleteImage
<1>3. CASE Become(c, [cl[c] EXCEPT !.pc = "gettags"])
  BY <1>1, <1>3, GotoMoves DEF DropPc
<1>4. CASE Become(c, Dropped(cl[c], TRUE))
  BY <1>1, <1>4, DroppedFollows, MovesLike
<1>. QED  BY <1>2, <1>3, <1>4

LEMMA ReadReferrersMoves ==
  ASSUME TypeInv, NEW c \in Client, ReadReferrers(c)
  PROVE  Moves(c)
<1> DEFINE m == cl[c]
           refers(n) == tags[n] # Absent /\ tags[n][m.fld] = Asked(c)
           copies == [n \in Name |-> IF refers(n) THEN tags[n] ELSE Absent]
           e == [m EXCEPT !.pc = "sweep", !.held = copies]
<1>1. m.pc = "gettags" /\ m \in State /\ m.req.method = "DELETE" /\ Coherent(m)
  BY DropIsDelete, OwnState DEF ReadReferrers, DropPc
<1>2. copies \in [Name -> Record \union {Absent}]
      /\ \A n \in Name : copies[n] \in {tags[n], Absent}
  <2> HIDE DEF refers
  <2>. QED  BY DEF TypeInv, TypeOK
<1>3. \/ Become(c, Dropped(m, FALSE)) \/ Become(c, Dropped(m, TRUE)) \/ Become(c, e)
  BY DEF ReadReferrers
<1>4. CASE Become(c, Dropped(m, FALSE)) \/ Become(c, Dropped(m, TRUE))
  BY <1>1, <1>4, DroppedFollows, MovesLike
<1>5. CASE Become(c, e)
  <2> HIDE DEF m, copies
  <2>1. /\ e \in State /\ e.req = m.req /\ e.ids = m.ids /\ e.held = copies
        /\ e.pc = "sweep" /\ e.fld = m.fld
    BY <1>1, <1>2 DEF State, Pc
  <2> HIDE DEF e
  <2>2. Follows(e, e)
    BY <1>1, <2>1 DEF Follows, Handler, Coherent, DropPc
  <2>3. \A n \in Name : e.held[n] \in {cl[c].held[n], tags[n], Absent}
    BY <1>2, <2>1
  <2>. QED  BY <1>5, <2>1, <2>2, <2>3, MovesFrom DEF m
<1>. QED  BY <1>3, <1>4, <1>5

LEMMA SweepMoves ==
  ASSUME TypeInv, NEW c \in Client, NEW n \in Name, Sweep(c, n)
  PROVE  Moves(c)
<1> DEFINE m == cl[c]
           d(failed) == [m EXCEPT !.held[n] = Absent, !.last = failed]
           swept(failed) == IF d(failed).held = NoCopies THEN Dropped(d(failed), failed) ELSE d(failed)
<1>1. m.pc = "sweep" /\ m \in State /\ m.req.method = "DELETE" /\ Coherent(m)
  BY DropIsDelete, OwnState DEF Sweep, DropPc
<1>2. Become(c, swept(FALSE)) \/ Become(c, swept(TRUE))
  BY DEF Sweep
<1> HIDE DEF m
<1>3. ASSUME NEW b \in BOOLEAN, Become(c, swept(b))
      PROVE  Moves(c)
  <2> DEFINE k == d(b)
  <2>1. /\ k \in State /\ k.req = m.req /\ k.ids = m.ids /\ k.pc = "sweep" /\ k.fld = m.fld
        /\ \A x \in Name : k.held[x] \in {m.held[x], Absent}
    BY <1>1 DEF State
  <2> HIDE DEF k
  <2>2. Become(c, IF k.held = NoCopies THEN Dropped(k, b) ELSE k)
    BY <1>3 DEF k
  <2>3. Follows(k, k)
    BY <1>1, <2>1 DEF Follows, Handler, Coherent, DropPc
  <2>4. Follows(k, Dropped(k, b))
    BY <1>1, <2>1, DroppedFollows
  <2>. QED  BY <2>1, <2>2, <2>3, <2>4, MovesLike DEF m
<1>. QED  BY <1>2, <1>3

(* Every step of the system is a step of HSM or moves one handler.         *)
Acts(c) ==
  \/ Begin(c) \/ FindImage(c) \/ ImageKnown(c) \/ ImageUnknown(c)
  \/ Resolve(c) \/ ReadFound(c) \/ ReadNothing(c) \/ FetchImage(c)
  \/ AddImage(c) \/ AddImageFails(c) \/ SetImage(c)
  \/ WriteName(c) \/ WriteFails(c) \/ (\E n \in Name : ApplyPatch(c, n))
  \/ DeleteRecord(c) \/ FindDropped(c) \/ DeleteImage(c) \/ ReadReferrers(c)
  \/ (\E n \in Name : Sweep(c, n))

LEMMA NextIsActs ==
  ASSUME Next
  PROVE  Discover \/ \E c \in Client : Acts(c)
BY DEF Next, ImageStore, Step, Acts

LEMMA ActsMove ==
  ASSUME TypeInv, NEW c \in Client, Acts(c)
  PROVE  Moves(c)
BY BeginMoves, FindImageMoves, ImageKnownMoves, ImageUnknownMoves, ResolveMoves,
   ReadFoundMoves, ReadNothingMoves, FetchImageMoves, AddImageMoves,
   AddImageFailsMoves, SetImageMoves, WriteNameMoves, WriteFailsMoves,
   ApplyPatchMoves, DeleteRecordMoves, FindDroppedMoves, DeleteImageMoves,
   ReadReferrersMoves, SweepMoves DEF Acts

LEMMA MoveTyped ==
  ASSUME TypeInv, NEW c \in Client, Moves(c)
  PROVE  cl' \in [Client -> Handler]
<1>1. PICK e \in Handler : cl' = [cl EXCEPT ![c] = e]
  BY DEF Moves, Become
<1>. QED  BY <1>1 DEF TypeInv

(* The types of what is shared.                                            *)
SharedTyped ==
  /\ tags \in [Name -> Record \union {Absent}]
  /\ images \in [Image -> Params \union {None, Absent}]
  /\ kvMutex \in Client \union {Free}
  /\ faults \in 0 .. MaxFaults

LEMMA FaultTyped ==
  ASSUME TypeInv, Fault \/ UNCHANGED faults
  PROVE  faults' \in 0 .. MaxFaults
BY FaultAssumption DEF FaultAssumption, Fault, TypeInv, TypeOK

LEMMA SharedNext ==
  ASSUME TypeInv, NEW c \in Client, Acts(c)
  PROVE  SharedTyped'
<1>1. faults' \in 0 .. MaxFaults
  <2>1. Fault \/ UNCHANGED faults
    BY DEF Acts, Begin, FindImage, ImageKnown, ImageUnknown, Resolve, ReadFound, ReadNothing,
           FetchImage, AddImage, AddImageFails, SetImage, WriteName, WriteFails, ApplyPatch,
           DeleteRecord, FindDropped, DeleteImage, ReadReferrers, Sweep, ReadsAbsent
  <2>. QED  BY <2>1, FaultTyped
<1>2. kvMutex' \in Client \union {Free}
  <2>1. kvMutex' \in {kvMutex, c, Free}
    BY DEF Acts, Begin, FindImage, ImageKnown, ImageUnknown, Resolve, ReadFound, ReadNothing,
           FetchImage, AddImage, AddImageFails, SetImage, WriteName, WriteFails, ApplyPatch,
           DeleteRecord, FindDropped, DeleteImage, ReadReferrers, Sweep
  <2>. QED  BY <2>1 DEF TypeInv, TypeOK
<1>3. images' \in [Image -> Params \union {None, Absent}]
  <2>1. CASE AddImage(c)
    BY <2>1 DEF AddImage, TypeInv, TypeOK
  <2>2. CASE SetImage(c)
    <3>1. cl[c].req.params \in Params \union {None}
      BY OwnState DEF Request
    <3>. QED  BY <2>2, <3>1 DEF SetImage, TypeInv, TypeOK
  <2>3. CASE DeleteImage(c)
    BY <2>3 DEF DeleteImage, TypeInv, TypeOK
  <2>4. CASE UNCHANGED images
    BY <2>4 DEF TypeInv, TypeOK
  <2>. QED
    BY <2>1, <2>2, <2>3, <2>4
    DEF Acts, Begin, FindImage, ImageKnown, ImageUnknown, Resolve, ReadFound, ReadNothing,
        FetchImage, AddImageFails, WriteName, WriteFails, ApplyPatch,
        DeleteRecord, FindDropped, ReadReferrers, Sweep
<1>4. tags' \in [Name -> Record \union {Absent}]
  <2>1. CASE WriteName(c)
    <3>1. NewRecord(cl[c]) \in Record
      BY OwnState DEF NewRecord, Record, State, Request
    <3>2. PICK n \in cl[c].todo : tags' = [tags EXCEPT ![KeyOf(n)] = NewRecord(cl[c])]
      BY <2>1 DEF WriteName
    <3>. QED  BY <3>1, <3>2 DEF TypeInv, TypeOK
  <2>2. ASSUME NEW n \in Name, ApplyPatch(c, n)
        PROVE  tags' \in [Name -> Record \union {Absent}]
    <3> DEFINE new == Patched(cl[c].held[n], cl[c].req, cl[c].ids)
    <3>1. cl[c].held[n] \in Record
      BY <2>2, OwnState DEF ApplyPatch, State
    <3>2. new \in Record
      BY <3>1, OwnState DEF Patched, Record, State, Request
    <3>3. tags' = [tags EXCEPT ![n] = new] \/ tags' = tags
      BY <2>2 DEF ApplyPatch
    <3> HIDE DEF new
    <3>. QED  BY <3>2, <3>3 DEF TypeInv, TypeOK
  <2>3. CASE DeleteRecord(c)
    BY <2>3 DEF DeleteRecord, TypeInv, TypeOK
  <2>4. ASSUME NEW n \in Name, Sweep(c, n)
        PROVE  tags' \in [Name -> Record \union {Absent}]
    <3> DEFINE new == [cl[c].held[n] EXCEPT ![cl[c].fld] = None]
    <3>1. cl[c].held[n] \in Record
      BY <2>4, OwnState DEF Sweep, State
    <3>2. new \in Record
      BY <3>1 DEF Record
    <3>3. tags' = [tags EXCEPT ![n] = new] \/ tags' = tags
      BY <2>4 DEF Sweep
    <3> HIDE DEF new
    <3>. QED  BY <3>2, <3>3 DEF TypeInv, TypeOK
  <2>5. CASE UNCHANGED tags
    BY <2>5 DEF TypeInv, TypeOK
  <2>. QED
    BY <2>1, <2>2, <2>3, <2>4, <2>5
    DEF Acts, Begin, FindImage, ImageKnown, ImageUnknown, Resolve, ReadFound, ReadNothing,
        FetchImage, AddImage, AddImageFails, SetImage, WriteFails,
        FindDropped, DeleteImage, ReadReferrers
<1>. QED  BY <1>1, <1>2, <1>3, <1>4 DEF SharedTyped

LEMMA SmCompKept ==
  ASSUME NEW c \in Client, Acts(c)
  PROVE  smComp' = smComp
BY DEF Acts, Begin, FindImage, ImageKnown, ImageUnknown, Resolve, ReadFound, ReadNothing,
       FetchImage, AddImage, AddImageFails, SetImage, WriteName, WriteFails, ApplyPatch,
       DeleteRecord, FindDropped, DeleteImage, ReadReferrers, Sweep

LEMMA TypeInit == Init => TypeInv
<1> SUFFICES ASSUME Init PROVE TypeInv
  OBVIOUS
<1>1. NoRequest \in Request
  BY DEF NoRequest, Request, Method
<1>2. Blank(NoRequest) \in Handler /\ Blank(NoRequest) \in State
  BY <1>1, BlankTyped DEF Handler
<1>3. cl \in [Client -> Handler] /\ cl \in [Client -> State]
  <2> HIDE DEF Handler, State
  <2>. QED  BY <1>2 DEF Init
<1>. QED
  BY <1>3, FaultAssumption DEF FaultAssumption, Init, TypeInv, TypeOK

LEMMA TypeNext == TypeInv /\ [Next]_vars => TypeInv'
<1> SUFFICES ASSUME TypeInv, [Next]_vars PROVE TypeInv'
  OBVIOUS
<1>1. CASE UNCHANGED vars
  BY <1>1 DEF vars, TypeInv, TypeOK
<1>2. CASE Discover
  BY <1>2 DEF Discover, TypeInv, TypeOK
<1>3. ASSUME NEW c \in Client, Acts(c)  PROVE TypeInv'
  <2>1. SharedTyped' /\ smComp' = smComp
    BY <1>3, SharedNext, SmCompKept
  <2>2. cl' \in [Client -> Handler]
    BY <1>3, ActsMove, MoveTyped
  <2>3. cl' \in [Client -> State]
    BY <2>2 DEF Handler
  <2>. QED
    BY <2>1, <2>2, <2>3 DEF TypeInv, TypeOK, SharedTyped
<1>. QED  BY <1>1, <1>2, <1>3, NextIsActs

(* Every behaviour keeps every handler's state and the store well-typed.   *)
THEOREM TypeCorrect == Spec => []TypeOK
<1>1. TypeInv => TypeOK
  BY DEF TypeInv
<1>. QED  BY <1>1, TypeInit, TypeNext, PTL DEF Spec

-----------------------------------------------------------------------------
(* References.                                                             *)

RefsIn(rec) == \A f \in Field : rec[f] # None => images[rec[f]] # Absent

Knows(m) ==
  /\ RefsIn(m.ids)
  /\ \A n \in Name : m.held[n] # Absent => RefsIn(m.held[n])

(* RefsExist alone is not inductive: a handler writes the keys and copies  *)
(* that it took from the store some steps ago.                             *)
RefsInv ==
  /\ RefsExist
  /\ \A c \in Client : Knows(cl[c]) /\ cl[c].req \in Requests \union {NoRequest}

NoImageDelete ==
  \A r \in Requests : r.method = "DELETE" => r.kernel = None /\ r.initrd = None

LEMMA NothingDropped ==
  ASSUME NoImageDelete, TypeInv, RefsInv, NEW c \in Client
  PROVE  cl[c].pc \notin DropPc
<1>1. cl[c].req.method = "DELETE" => \A f \in Field : cl[c].req[f] = None
  BY DEF NoImageDelete, RefsInv, NoRequest, Field
<1>2. Coherent(cl[c]) /\ cl[c].fld \in Field
  BY OwnState DEF State
<1>. QED  BY <1>1, <1>2 DEF Coherent

(* Without deletions, an image that is there stays.                        *)
LEMMA ImagesStay ==
  ASSUME NoImageDelete, TypeInv, RefsInv, NEW c \in Client, Acts(c), NEW i \in Image,
         images[i] # Absent
  PROVE  images'[i] # Absent
<1>1. ~DeleteImage(c)
  BY NothingDropped DEF DeleteImage, DropPc
<1>2. None # Absent /\ cl[c].req.params # Absent
  BY OwnState, ImageAssumption DEF ImageAssumption, Request
<1>3. CASE AddImage(c)
  BY <1>2, <1>3 DEF AddImage, TypeInv, TypeOK
<1>4. CASE SetImage(c)
  BY <1>2, <1>4 DEF SetImage, TypeInv, TypeOK
<1>5. CASE UNCHANGED images
  BY <1>5
<1>. QED
  BY <1>1, <1>3, <1>4, <1>5
  DEF Acts, Begin, FindImage, ImageKnown, ImageUnknown, Resolve, ReadFound, ReadNothing,
      FetchImage, AddImageFails, WriteName, WriteFails, ApplyPatch,
      DeleteRecord, FindDropped, ReadReferrers, Sweep

LEMMA RecordRefs ==
  ASSUME NEW r \in Record, NEW f \in Field
  PROVE  r[f] \in Image \union {None}
BY DEF Record, Field, Image

LEMMA IdsRefs ==
  ASSUME NEW m \in State, NEW f \in Field
  PROVE  m.ids[f] \in Image \union {None}
BY DEF State, Field, Image

LEMMA NoRefsIn == \A f \in Field : NoRefs[f] = None
BY DEF NoRefs, Field

(* What refers to images that are there goes on doing so.                  *)
LEMMA RefsStay ==
  ASSUME NoImageDelete, TypeInv, RefsInv, NEW c \in Client, Acts(c),
         NEW r \in Record, RefsIn(r)
  PROVE  RefsIn(r)'
BY ImagesStay, RecordRefs DEF RefsIn

LEMMA KnowsMoved ==
  ASSUME NoImageDelete, TypeInv, RefsInv, NEW c \in Client, Acts(c)
  PROVE  Knows(cl[c])' /\ cl'[c].req \in Requests \union {NoRequest}
<1>1. PICK k \in State, e \in Handler :
        /\ Become(c, e) /\ Follows(k, e)
        /\ k.req = cl[c].req \/ (Begin(c) /\ k.req \in Requests)
        /\ \A f \in Field : \/ k.ids[f] \in {cl[c].ids[f], None}
                            \/ k.ids[f] \in Image /\ images'[k.ids[f]] # Absent
        /\ \A n \in Name : k.held[n] \in {cl[c].held[n], tags[n], Absent}
  BY ActsMove DEF Moves
<1>2. cl'[c] = e
  BY <1>1 DEF Become, TypeInv
<1>3. e.req \in Requests \union {NoRequest}
  BY <1>1 DEF Follows, RefsInv
<1>4. cl[c] \in State
  BY OwnState
<1>5. ASSUME NEW f \in Field, e.ids[f] # None
      PROVE  images'[e.ids[f]] # Absent
  <2>1. e.ids = k.ids
    BY <1>1, <1>5, NoRefsIn DEF Follows
  <2>2. CASE k.ids[f] = cl[c].ids[f]
    <3>1. cl[c].ids[f] \in Image
      BY <1>4, <1>5, <2>1, <2>2, IdsRefs
    <3>2. images[cl[c].ids[f]] # Absent
      BY <1>5, <2>1, <2>2 DEF RefsInv, Knows, RefsIn
    <3>. QED  BY <2>1, <2>2, <3>1, <3>2, ImagesStay
  <2>3. CASE k.ids[f] # cl[c].ids[f]
    BY <1>1, <1>5, <2>1, <2>3
  <2>. QED  BY <2>2, <2>3
<1>6. ASSUME NEW n \in Name, e.held[n] # Absent
      PROVE  RefsIn(e.held[n])'
  <2>1. e.held[n] \in {cl[c].held[n], tags[n]}
    BY <1>1, <1>6 DEF Follows
  <2>2. CASE e.held[n] = cl[c].held[n]
    <3>1. cl[c].held[n] \in Record
      BY <1>4, <1>6, <2>2 DEF State
    <3>2. RefsIn(cl[c].held[n])
      BY <1>6, <2>2 DEF RefsInv, Knows
    <3>3. RefsIn(cl[c].held[n])' <=> \A f \in Field :
            cl'[c].held[n][f] # None => images'[cl'[c].held[n][f]] # Absent
      BY DEF RefsIn
    <3>4. ASSUME NEW r \in Record, r = cl[c].held[n]
          PROVE  \A f \in Field : r[f] # None => images'[r[f]] # Absent
      BY <3>2, <3>4, RecordRefs, ImagesStay DEF RefsIn
    <3>5. \A f \in Field : e.held[n][f] # None => images'[e.held[n][f]] # Absent
      BY <2>2, <3>1, <3>4
    <3>. QED  BY <1>2, <3>5 DEF RefsIn
  <2>3. CASE e.held[n] = tags[n]
    <3>1. tags[n] \in Record
      BY <1>6, <2>3 DEF TypeInv, TypeOK
    <3>2. \A f \in Field : tags[n][f] # None => images[tags[n][f]] # Absent
      BY <1>6, <2>3 DEF RefsInv, RefsExist
    <3>3. \A f \in Field : tags[n][f] # None => images'[tags[n][f]] # Absent
      BY <3>1, <3>2, RecordRefs, ImagesStay
    <3>. QED  BY <2>3, <3>3 DEF RefsIn
  <2>. QED  BY <2>1, <2>2, <2>3
<1>7. Knows(e)'
  BY <1>5, <1>6 DEF Knows, RefsIn
<1>. QED  BY <1>2, <1>3, <1>7

LEMMA KnowsOthers ==
  ASSUME NoImageDelete, TypeInv, RefsInv, NEW c \in Client, Acts(c),
         NEW d \in Client, d # c
  PROVE  Knows(cl[d])' /\ cl'[d].req \in Requests \union {NoRequest}
<1>1. cl'[d] = cl[d]
  BY ActsMove DEF Moves, Become, TypeInv
<1>2. Knows(cl[d]) /\ cl[d].req \in Requests \union {NoRequest} /\ cl[d] \in State
  BY OwnState DEF RefsInv
<1>3. \A f \in Field : cl[d].ids[f] # None => images'[cl[d].ids[f]] # Absent
  BY <1>2, IdsRefs, ImagesStay DEF Knows, RefsIn
<1>4. ASSUME NEW n \in Name, NEW f \in Field, cl[d].held[n] # Absent, cl[d].held[n][f] # None
      PROVE  images'[cl[d].held[n][f]] # Absent
  <2>1. cl[d].held[n] \in Record
    BY <1>2, <1>4 DEF State
  <2>2. images[cl[d].held[n][f]] # Absent
    BY <1>2, <1>4 DEF Knows, RefsIn
  <2>. QED  BY <1>4, <2>1, <2>2, RecordRefs, ImagesStay
<1>. QED  BY <1>1, <1>2, <1>3, <1>4 DEF Knows, RefsIn

LEMMA RefsExistNext ==
  ASSUME NoImageDelete, TypeInv, RefsInv, NEW c \in Client, Acts(c)
  PROVE  RefsExist'
<1>1. cl[c] \in State /\ Knows(cl[c])
  BY OwnState DEF RefsInv
<1>2. SUFFICES ASSUME NEW x \in Name, NEW f \in Field, tags'[x] # Absent, tags'[x][f] # None
               PROVE  images'[tags'[x][f]] # Absent
  BY DEF RefsExist
<1>3. CASE tags'[x] = tags[x]
  <2>1. tags[x] \in Record
    BY <1>2, <1>3 DEF TypeInv, TypeOK
  <2>2. images[tags[x][f]] # Absent
    BY <1>2, <1>3 DEF RefsInv, RefsExist
  <2>. QED  BY <1>2, <1>3, <2>1, <2>2, RecordRefs, ImagesStay
<1>4. ASSUME WriteName(c), tags'[x] # tags[x]
      PROVE  images'[tags'[x][f]] # Absent
  <2>1. tags'[x] = NewRecord(cl[c])
    BY <1>4 DEF WriteName, TypeInv, TypeOK
  <2>2. tags'[x][f] = cl[c].ids[f]
    BY <2>1 DEF NewRecord, Field
  <2>3. images[cl[c].ids[f]] # Absent
    BY <1>1, <1>2, <2>2 DEF Knows, RefsIn
  <2>. QED  BY <1>1, <1>2, <2>2, <2>3, IdsRefs, ImagesStay
<1>5. ASSUME NEW n \in Name, ApplyPatch(c, n), tags'[x] # tags[x]
      PROVE  images'[tags'[x][f]] # Absent
  <2> DEFINE old == cl[c].held[n]
  <2>1. old \in Record /\ old # Absent
    BY <1>1, <1>5 DEF ApplyPatch, State
  <2>2. tags'[x] = Patched(old, cl[c].req, cl[c].ids)
    BY <1>5 DEF ApplyPatch, TypeInv, TypeOK
  <2>3. tags'[x][f] \in {old[f], cl[c].ids[f]}
    BY <2>2 DEF Patched, Field
  <2>4. old[f] # None => old[f] \in Image /\ images[old[f]] # Absent
    BY <1>1, <2>1, RecordRefs DEF Knows, RefsIn
  <2>5. cl[c].ids[f] # None => cl[c].ids[f] \in Image /\ images[cl[c].ids[f]] # Absent
    BY <1>1, IdsRefs DEF Knows, RefsIn
  <2> HIDE DEF old
  <2>. QED  BY <1>2, <2>3, <2>4, <2>5, ImagesStay
<1>6. CASE DeleteRecord(c)
  BY <1>2, <1>3, <1>6 DEF DeleteRecord, TypeInv, TypeOK
<1>7. \A n \in Name : ~Sweep(c, n)
  BY NothingDropped DEF Sweep, DropPc
<1>. QED
  BY <1>3, <1>4, <1>5, <1>6, <1>7
  DEF Acts, Begin, FindImage, ImageKnown, ImageUnknown, Resolve, ReadFound, ReadNothing,
      FetchImage, AddImage, AddImageFails, SetImage, WriteFails,
      FindDropped, DeleteImage, ReadReferrers

LEMMA RefsInit == Init => RefsInv
<1> SUFFICES ASSUME Init PROVE RefsInv
  OBVIOUS
<1>1. /\ \A n \in Name : tags[n] = Absent
      /\ \A c \in Client : cl[c] = Blank(NoRequest)
  BY DEF Init
<1>2. NoRequest \in Request
  BY DEF NoRequest, Request, Method
<1>3. /\ Blank(NoRequest).ids = NoRefs /\ Blank(NoRequest).req = NoRequest
      /\ \A n \in Name : Blank(NoRequest).held[n] = Absent
  BY <1>2, BlankTyped DEF NoCopies
<1>. QED
  BY <1>1, <1>3, NoRefsIn DEF RefsInv, RefsExist, Knows, RefsIn

LEMMA RefsNext == NoImageDelete /\ TypeInv /\ RefsInv /\ [Next]_vars => RefsInv'
<1> SUFFICES ASSUME NoImageDelete, TypeInv, RefsInv, [Next]_vars PROVE RefsInv'
  OBVIOUS
<1>1. CASE UNCHANGED <<tags, images, cl>>
  BY <1>1 DEF RefsInv, RefsExist, Knows, RefsIn
<1>2. ASSUME NEW c \in Client, Acts(c)  PROVE RefsInv'
  <2>1. RefsExist'
    BY <1>2, RefsExistNext
  <2>2. \A d \in Client : Knows(cl[d])' /\ cl'[d].req \in Requests \union {NoRequest}
    BY <1>2, KnowsMoved, KnowsOthers
  <2>. QED  BY <2>1, <2>2 DEF RefsInv
<1>. QED  BY <1>1, <1>2, NextIsActs DEF vars, Discover

(* If no request deletes an image, a record never names an image that is   *)
(* not there, whatever fails and however the handlers of Store, Update and *)
(* Remove interleave.                                                      *)
THEOREM ReferencesExist ==
  ASSUME NoImageDelete
  PROVE  Spec => []RefsExist
<1>1. Init => TypeInv /\ RefsInv
  BY TypeInit, RefsInit
<1>2. TypeInv /\ RefsInv /\ [Next]_vars => (TypeInv /\ RefsInv)'
  BY TypeNext, RefsNext
<1>3. RefsInv => RefsExist
  BY DEF RefsInv
<1>. QED  BY <1>1, <1>2, <1>3, PTL DEF Spec

=============================================================================
