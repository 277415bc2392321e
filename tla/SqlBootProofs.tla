---------------------------- MODULE SqlBootProofs ----------------------------
(***************************************************************************)
(* Safety of SqlBoot for any names, images, requests, ids and bounds, that *)
(* a lone client's tables implement NodeTable, and that it gets what it is *)
(* told it got.                                                            *)
(***************************************************************************)
EXTENDS SqlBoot, TLAPS

-----------------------------------------------------------------------------
(* Requests and the ids made for them.                                     *)
LEMMA FreshIs ==
  ASSUME NEW set, NEW ids, Enough(set, ids)
  PROVE  /\ Fresh(set, ids) \in [set -> ids]
         /\ \A x, y \in set : Fresh(set, ids)[x] = Fresh(set, ids)[y] => x = y
<1>1. Fresh(set, ids) \in Injection(set, ids)
  BY Zenon DEF Enough, Fresh
<1>2. QED
  BY <1>1 DEF Injection, IsInjective

LEMMA NoRequestTyped == NoRequest \in Request
BY DEF NoRequest, Request, Method

LEMMA RequestTyped ==
  ASSUME NEW r \in Request
  PROVE  /\ AllNames(r) \subseteq Name /\ Targets(r) \subseteq AllNames(r)
         /\ Asked(r) \in Record /\ Asked(r) # Absent
<1>1. AllNames(r) \subseteq Name /\ Targets(r) \subseteq AllNames(r)
  BY DEF Request, AllNames, Targets, Name, Alias
<1>2. Asked(r) \in Record
  BY DEF Request, Asked, Record
<1>3. QED
  BY <1>1, <1>2, ImageAssumption

LEMMA PatchedTyped ==
  ASSUME NEW rec \in Record, NEW r \in Request
  PROVE  Patched(rec, r, r) \in Record /\ Patched(rec, r, r) # Absent
<1>1. Patched(rec, r, r) \in Record
  BY DEF Patched, Record, Request
<1>2. QED
  BY <1>1, ImageAssumption

LEMMA BlankTyped ==
  ASSUME NEW r \in Request
  PROVE  /\ Blank(r) \in State /\ NewNodes(Blank(r)) = {}
         /\ \A pc \in Done : [Blank(r) EXCEPT !.pc = pc] \in State
<1>1. Blank(r) \in State
  <2>1. [n \in NodeId |-> None] \in [NodeId -> Name \union {None}]
    OBVIOUS
  <2>2. [g \in GroupId |-> {}] \in [GroupId -> SUBSET NodeId]
    OBVIOUS
  <2>3. [g \in GroupId |-> Absent] \in [GroupId -> GroupId \union {Absent}]
    OBVIOUS
  <2>4. [g \in GroupId |-> Absent] \in [GroupId -> Record \union {Absent}]
    OBVIOUS
  <2>5. FALSE \in BOOLEAN /\ {} \in SUBSET Name /\ {} \in SUBSET NodeId /\ {} \in SUBSET GroupId
    OBVIOUS
  <2>6. QED
    BY <2>1, <2>2, <2>3, <2>4, <2>5, Zenon DEF Blank, State, Done
<1>2. NewNodes(Blank(r)) = {}
  BY DEF NewNodes, Blank
<1>3. QED
  BY <1>1, <1>2 DEF State

-----------------------------------------------------------------------------
(* Types.  A handler that plans an update has the config of each group     *)
(* that it read nodes of, and one that adds nodes inserts those it has     *)
(* names for.                                                              *)
Updating == {"exist", "old", "groups", "members", "reuse", "purge"}

Phased(m) ==
  /\ m.pc = "reuse" => \A g \in GroupId : m.plan[g] # {} => m.cfg[g] # Absent
  /\ m.pc \in Updating => NewNodes(m) = {}
  /\ m.pc \in {"config", "group"} => NewNodes(m) = {} \/ m.held \subseteq NewNodes(m)
  /\ m.pc = "node" => m.held \subseteq NewNodes(m)

TypeInv == TypeOK /\ \A c \in Client : Phased(cl[c])

(* Places of which this says nothing.                                      *)
Free == Done \union {"check", "list", "find", "similar", "link", "point", "delnodes", "unlink",
                     "count", "dropgroups", "dropconfigs", "delconfigs", "delgroups",
                     "dellinks", "delmembers"}

LEMMA FreePhased == ASSUME NEW m, m.pc \in Free PROVE Phased(m)
BY DEF Free, Done, Phased, Updating

TablesTyped ==
  /\ node \in [NodeId -> Name \union {Absent}]
  /\ assign \in [NodeId -> GroupId \union {Absent}]
  /\ group \subseteq GroupId
  /\ config \in [GroupId -> Record \union {Absent}]

LEMMA BecomeTyped ==
  ASSUME TypeInv, NEW c \in Client, NEW m \in State, Become(c, m), Phased(m),
         TablesTyped', faults' \in 0 .. MaxFaults
  PROVE  TypeInv'
<1>1. cl' \in [Client -> State]
  BY DEF TypeInv, TypeOK, Become
<1>2. \A d \in Client : cl'[d] = IF d = c THEN m ELSE cl[d]
  BY DEF TypeInv, TypeOK, Become
<1>3. \A d \in Client : Phased(cl'[d])
  BY <1>2, Zenon DEF TypeInv
<1>4. QED
  BY <1>1, <1>3, Zenon DEF TypeInv, TypeOK, TablesTyped, Phased

LEMMA SameTables ==
  ASSUME TypeInv, UNCHANGED <<tables, faults>>
  PROVE  TablesTyped' /\ faults' \in 0 .. MaxFaults
BY DEF TypeInv, TypeOK, TablesTyped, tables

LEMMA FinishTyped ==
  ASSUME NEW m, m.req \in Request, NEW pc \in Done
  PROVE  Finish(m, pc) \in State /\ Phased(Finish(m, pc)) /\ Finish(m, pc).pc = pc
<1>1. Finish(m, pc) \in State
  BY BlankTyped DEF Finish
<1>2. Finish(m, pc).pc = pc
  BY DEF Finish, Blank
<1>3. QED
  BY <1>1, <1>2, FreePhased DEF Free

LEMMA StartTyped ==
  ASSUME NEW r \in Request
  PROVE  Start(r) \in State /\ Phased(Start(r))
<1> DEFINE m == Blank(r)
<1>1. m \in State /\ m.req = r
  BY BlankTyped DEF Blank
<1>2. \A pc \in Done : Finish(m, pc) \in State /\ Phased(Finish(m, pc))
  BY <1>1, FinishTyped
<1>3. AllNames(r) \in SUBSET Name /\ Targets(r) \in SUBSET Name
  BY RequestTyped
<1> HIDE DEF m
<1>4. ASSUME NEW e \in State, e.new = m.new,
             e.pc \in {"find", "exist", "check", "delnodes", "delconfigs"}
      PROVE  Phased(e)
  <2>1. NewNodes(e) = {}
    BY <1>1, <1>4, BlankTyped DEF NewNodes, m
  <2>2. QED
    BY <1>4, <2>1 DEF Phased, Updating
<1>5. ASSUME NEW pc \in {"find", "exist", "check", "delnodes", "delconfigs"}, NEW x \in SUBSET Name
      PROVE  /\ [m EXCEPT !.pc = pc] \in State /\ Phased([m EXCEPT !.pc = pc])
             /\ [m EXCEPT !.pc = pc, !.add = x] \in State /\ Phased([m EXCEPT !.pc = pc, !.add = x])
             /\ [m EXCEPT !.pc = pc, !.upd = x] \in State /\ Phased([m EXCEPT !.pc = pc, !.upd = x])
  <2>1. LET e == [m EXCEPT !.pc = pc] IN e \in State /\ e.pc = pc /\ e.new = m.new
    BY <1>1 DEF State
  <2>2. LET e == [m EXCEPT !.pc = pc, !.add = x] IN e \in State /\ e.pc = pc /\ e.new = m.new
    BY <1>1 DEF State
  <2>3. LET e == [m EXCEPT !.pc = pc, !.upd = x] IN e \in State /\ e.pc = pc /\ e.new = m.new
    BY <1>1 DEF State
  <2>4. QED
    BY <1>4, <2>1, <2>2, <2>3
<1>6. "ok" \in Done /\ "failed" \in Done
  BY DEF Done
<1>7. QED
  BY <1>2, <1>3, <1>5, <1>6 DEF Start, m

LEMMA BeginTyped == ASSUME TypeInv, NEW c \in Client, Begin(c) PROVE TypeInv'
<1>1. PICK r \in May[c] : Become(c, Start(r))
  BY DEF Begin
<1>2. r \in Request
  BY SqlAssumption, RequestAssumption
<1>3. QED
  BY <1>1, <1>2, StartTyped, SameTables, BecomeTyped DEF Begin

LEMMA FailTyped == ASSUME TypeInv, NEW c \in Client, StatementFails(c) PROVE TypeInv'
<1>1. cl[c].req \in Request /\ "failed" \in Done
  BY DEF TypeInv, TypeOK, State, Done
<1>2. TablesTyped' /\ faults' \in 0 .. MaxFaults
  BY SqlAssumption DEF StatementFails, TypeInv, TypeOK, TablesTyped, tables
<1>3. QED
  BY <1>1, <1>2, FinishTyped, BecomeTyped DEF StatementFails

(* The handler that steps has a state of its type.                         *)
LEMMA OwnState ==
  ASSUME TypeInv, NEW c \in Client
  PROVE  /\ cl[c] \in State /\ cl[c].req \in Request
         /\ \A pc \in Done : Finish(cl[c], pc) \in State /\ Phased(Finish(cl[c], pc))
         /\ "ok" \in Done /\ "failed" \in Done
<1>1. cl[c] \in State /\ cl[c].req \in Request
  BY DEF TypeInv, TypeOK, State
<1>2. QED
  BY <1>1, FinishTyped DEF Done

LEMMA AfterAddTyped ==
  ASSUME NEW m \in State
  PROVE  AfterAdd(m) \in State /\ Phased(AfterAdd(m))
<1>1. m.req \in Request /\ m.upd \subseteq Name
  BY DEF State
<1>2. Blank(m.req) \in State
  BY <1>1, BlankTyped
<1>3. [Blank(m.req) EXCEPT !.pc = "exist", !.upd = m.upd] \in State
  BY <1>1, <1>2 DEF State
<1>4. Phased([Blank(m.req) EXCEPT !.pc = "exist", !.upd = m.upd])
  <2>1. NewNodes([Blank(m.req) EXCEPT !.pc = "exist", !.upd = m.upd]) = {}
    BY <1>1, BlankTyped DEF NewNodes, Blank
  <2>2. [Blank(m.req) EXCEPT !.pc = "exist", !.upd = m.upd].pc = "exist"
    BY DEF Blank
  <2>3. QED
    BY <2>1, <2>2 DEF Phased, Updating
<1>5. QED
  BY <1>1, <1>3, <1>4, FinishTyped DEF AfterAdd, Done

LEMMA SetTyped ==
  ASSUME TypeInv, NEW c \in Client, CheckSet(c) \/ ListSet(c)
  PROVE  TypeInv'
<1> DEFINE m == cl[c]
<1>1. m \in State /\ AllNames(m.req) \subseteq Name
  BY OwnState, RequestTyped
<1>2. CASE CheckSet(c)
  <2>1. Missing(AllNames(m.req)) \subseteq Name
    BY <1>1 DEF Missing
  <2> DEFINE e == [m EXCEPT !.pc = "list", !.add = Missing(AllNames(m.req))]
  <2>2. e \in State /\ e.pc \in Free
    BY <1>1, <2>1 DEF State, Free
  <2>3. Become(c, e) /\ UNCHANGED <<tables, faults>>
    BY <1>2 DEF CheckSet
  <2>4. QED
    BY <2>2, <2>3, SameTables, FreePhased, BecomeTyped
<1>3. CASE ListSet(c)
  <2> DEFINE found == Rows(AllNames(m.req))
             upd == {node[n] : n \in found} \ {ZeroNid}
             some == found # {}
             e == [m EXCEPT !.upd = upd, !.some = some]
             f == IF e.add # {} THEN [e EXCEPT !.pc = "find"] ELSE AfterAdd(e)
  <2>1. upd \subseteq Name /\ some \in BOOLEAN
    BY DEF Rows, TypeInv, TypeOK
  <2>2. e \in State
    <3> HIDE DEF upd, some
    <3>1. QED
      BY <1>1, <2>1 DEF State
  <2>3. Become(c, f) /\ UNCHANGED <<tables, faults>>
    BY <1>3 DEF ListSet
  <2> HIDE DEF e
  <2>4. [e EXCEPT !.pc = "find"] \in State /\ [e EXCEPT !.pc = "find"].pc \in Free
    BY <2>2 DEF State, Free
  <2>5. f \in State /\ Phased(f)
    BY <2>2, <2>4, FreePhased, AfterAddTyped
  <2>6. QED
    BY <2>3, <2>5, SameTables, BecomeTyped
<1>4. QED
  BY <1>2, <1>3

(* The nodes that FindNodes makes ids for are new, and each has a name     *)
(* that no row has.                                                        *)
NewOf(names, ids) ==
  [n \in NodeId |-> IF \E x \in names : ids[x] = n
                    THEN CHOOSE x \in names : ids[x] = n ELSE None]

LEMMA NewTyped ==
  ASSUME NEW names \in SUBSET Name, NEW ids
  PROVE  /\ NewOf(names, ids) \in [NodeId -> Name \union {None}]
         /\ \A n \in NodeId : NewOf(names, ids)[n] # None =>
              NewOf(names, ids)[n] \in names /\ ids[NewOf(names, ids)[n]] = n
<1> DEFINE new == NewOf(names, ids)
<1>1. \A n \in NodeId : new[n] = IF \E x \in names : ids[x] = n
                                 THEN CHOOSE x \in names : ids[x] = n ELSE None
  BY DEF NewOf
<1>2. ASSUME NEW n \in NodeId
      PROVE  new[n] = None \/ (new[n] \in names /\ ids[new[n]] = n)
  <2>1. CASE \E x \in names : ids[x] = n
    <3>1. new[n] = CHOOSE x \in names : ids[x] = n
      BY <1>1, <2>1
    <3> HIDE DEF new
    <3>2. QED
      BY <2>1, <3>1, Zenon
  <2>2. CASE ~\E x \in names : ids[x] = n
    BY <1>1, <2>2
  <2>3. QED
    BY <2>1, <2>2
<1>3. \A n \in NodeId : new[n] \in Name \union {None}
  BY <1>2
<1>4. new = [n \in NodeId |-> new[n]]
  BY DEF NewOf
<1>5. QED
  BY <1>2, <1>3, <1>4

LEMMA FindIs ==
  ASSUME NEW c \in Client, FindNodes(c)
  PROVE  LET m == cl[c]
             part == AddPart(m.add)
             names == Missing(part)
             ids == Fresh(names, NodeId \ UsedNodes)
         IN  /\ m.pc = "find" /\ UNCHANGED <<tables, faults>>
             /\ \/ Become(c, AfterAdd(m))
                \/ Become(c, Finish(m, "failed"))
                \/ /\ Enough(names, NodeId \ UsedNodes)
                   /\ Become(c, [m EXCEPT !.pc = "similar", !.new = NewOf(names, ids)])
BY DEF FindNodes, NewOf

LEMMA MissingNames ==
  ASSUME NEW names \in SUBSET Name
  PROVE  Missing(AddPart(names)) \in SUBSET Name
BY DEF Missing, AddPart

LEMMA FindTyped == ASSUME TypeInv, NEW c \in Client, FindNodes(c) PROVE TypeInv'
<1> DEFINE m == cl[c]
           names == Missing(AddPart(m.add))
           new == NewOf(names, Fresh(names, NodeId \ UsedNodes))
           e == [m EXCEPT !.pc = "similar", !.new = new]
<1>1. m \in State /\ m.add \in SUBSET Name
  BY OwnState DEF State
<1>2. names \in SUBSET Name
  BY <1>1, MissingNames
<1> HIDE DEF names
<1>3. new \in [NodeId -> Name \union {None}]
  BY <1>2, NewTyped
<1> HIDE DEF new
<1>4. e \in State /\ e.pc \in Free
  BY <1>1, <1>3 DEF State, Free
<1> HIDE DEF e
<1>5. PICK f \in {AfterAdd(m), Finish(m, "failed"), e} : Become(c, f)
  BY FindIs DEF e, new, names
<1>6. f \in State /\ Phased(f)
  BY <1>1, <1>4, FreePhased, AfterAddTyped, OwnState
<1>7. QED
  BY <1>5, <1>6, SameTables, BecomeTyped, FindIs

PlanFor(m, g) == [m EXCEPT !.plan[g] = NewNodes(m), !.held = NewNodes(m)]

LEMMA SimilarIs ==
  ASSUME TypeInv, NEW c \in Client, FindSimilar(c)
  PROVE  LET m == cl[c] IN
         /\ m.pc = "similar" /\ UNCHANGED <<tables, faults>>
         /\ \/ Become(c, Finish(m, "failed"))
            \/ \E g \in Similar(Asked(m.req)) : Become(c, [PlanFor(m, g) EXCEPT !.pc = "node"])
            \/ \E g \in GroupId \ UsedGroups :
                 Become(c, [PlanFor(m, g) EXCEPT !.pc = "config", !.todo = {g},
                                                 !.cfg[g] = Asked(m.req)])
<1> DEFINE m == cl[c]
           free == GroupId \ UsedGroups
<1>1. CASE free # {}
  <2>1. (CHOOSE h \in free : TRUE) \in free
    BY <1>1, Zenon
  <2>2. QED
    BY <2>1, Zenon DEF FindSimilar, PlanFor
<1>2. CASE free = {}
  BY <1>2 DEF FindSimilar, PlanFor
<1>3. QED
  BY <1>1, <1>2

LEMMA PlanForTyped ==
  ASSUME NEW m \in State, NEW g \in GroupId
  PROVE  LET e == PlanFor(m, g) IN
         /\ e \in State /\ e.req = m.req /\ e.new = m.new
         /\ \A h \in GroupId : e.plan[h] = IF h = g THEN NewNodes(m) ELSE m.plan[h]
         /\ e.held = NewNodes(m) /\ e.cfg = m.cfg
<1>1. NewNodes(m) \in SUBSET NodeId
  BY DEF NewNodes
<1>2. [m.plan EXCEPT ![g] = NewNodes(m)] \in [GroupId -> SUBSET NodeId]
  BY <1>1 DEF State
<1>3. QED
  BY <1>1, <1>2 DEF PlanFor, State

LEMMA FindSimilarTyped == ASSUME TypeInv, NEW c \in Client, FindSimilar(c) PROVE TypeInv'
<1> DEFINE m == cl[c]
<1>1. m \in State /\ m.req \in Request /\ TablesTyped' /\ faults' \in 0 .. MaxFaults
  BY OwnState, SimilarIs, SameTables
<1>2. CASE Become(c, Finish(m, "failed"))
  BY <1>1, <1>2, OwnState, BecomeTyped
<1>3. ASSUME NEW g \in Similar(Asked(m.req)), Become(c, [PlanFor(m, g) EXCEPT !.pc = "node"])
      PROVE  TypeInv'
  <2>1. g \in GroupId
    BY DEF Similar, TypeInv, TypeOK
  <2>2. PlanFor(m, g) \in State
    BY <1>1, <2>1, PlanForTyped
  <2> DEFINE f == PlanFor(m, g)
             e == [f EXCEPT !.pc = "node"]
  <2>3. f.new = m.new /\ f.held = NewNodes(m)
    BY <1>1, <2>1, PlanForTyped
  <2>4. Become(c, e)
    BY <1>3
  <2> HIDE DEF f
  <2>5. e \in State /\ e.pc = "node" /\ e.new = m.new /\ e.held = NewNodes(m)
    BY <2>2, <2>3 DEF State, f
  <2>6. NewNodes(e) = NewNodes(m)
    BY <2>5 DEF NewNodes
  <2>7. Phased(e)
    BY <2>5, <2>6 DEF Phased, Updating
  <2>8. QED
    BY <1>1, <2>4, <2>5, <2>7, BecomeTyped
<1>4. ASSUME NEW g \in GroupId \ UsedGroups,
             Become(c, [PlanFor(m, g) EXCEPT !.pc = "config", !.todo = {g},
                                             !.cfg[g] = Asked(m.req)])
      PROVE  TypeInv'
  <2> DEFINE f == PlanFor(m, g)
             e == [f EXCEPT !.pc = "config", !.todo = {g}, !.cfg[g] = Asked(m.req)]
  <2>1. f \in State /\ Asked(m.req) \in Record
    BY <1>1, PlanForTyped, RequestTyped
  <2>2. [f.cfg EXCEPT ![g] = Asked(m.req)] \in [GroupId -> Record \union {Absent}]
    BY <2>1 DEF State
  <2>3. Become(c, e)
    BY <1>4
  <2>4. f.new = m.new /\ f.held = NewNodes(m)
    BY <1>1, PlanForTyped
  <2> HIDE DEF f
  <2>5. e \in State /\ e.pc = "config" /\ e.new = m.new /\ e.held = NewNodes(m)
    BY <2>1, <2>2, <2>4 DEF State
  <2>6. NewNodes(e) = NewNodes(m)
    BY <2>5 DEF NewNodes
  <2>7. Phased(e)
    BY <2>5, <2>6 DEF Phased, Updating
  <2>8. QED
    BY <1>1, <2>3, <2>5, <2>7, BecomeTyped
<1>5. QED
  BY <1>2, <1>3, <1>4, SimilarIs

LEMMA ToPointTyped ==
  ASSUME NEW m \in State
  PROVE  ToPoint(m) \in State /\ Phased(ToPoint(m))
<1> DEFINE groups == {g \in GroupId : m.plan[g] # {}}
           e == [m EXCEPT !.pc = "point", !.todo = groups]
<1>1. groups \in SUBSET GroupId /\ m.req \in Request
  BY DEF State
<1>2. e \in State /\ e.pc \in Free
  <2> HIDE DEF groups
  <2>1. QED
    BY <1>1 DEF State, Free
<1>3. QED
  BY <1>1, <1>2, FreePhased, FinishTyped DEF ToPoint, Done

LEMMA InsertTyped ==
  ASSUME TypeInv, NEW c \in Client,
         (\E g \in GroupId : InsertConfig(c, g) \/ InsertGroup(c, g))
           \/ (\E n \in NodeId : InsertNode(c, n) \/ InsertLink(c, n))
  PROVE  TypeInv'
<1> USE DEF TypeInv, TypeOK, TablesTyped, tables
<1>1. cl[c] \in State /\ Phased(cl[c])
  OBVIOUS
<1>2. ASSUME NEW g \in GroupId, InsertConfig(c, g) PROVE TypeInv'
  <2> DEFINE m == [cl[c] EXCEPT !.todo = @ \ {g}]
             f == [m EXCEPT !.pc = "group", !.todo = Made(m)]
  <2>1. /\ m \in State /\ m.pc = "config" /\ m.cfg[g] \in Record \union {Absent}
        /\ m.new = cl[c].new /\ m.held = cl[c].held
    BY <1>1, <1>2 DEF InsertConfig, State
  <2>2. Become(c, IF m.todo # {} THEN m ELSE f)
    BY <1>2, Zenon DEF InsertConfig
  <2>3. TablesTyped' /\ faults' \in 0 .. MaxFaults
    BY <1>2, <2>1 DEF InsertConfig
  <2>4. NewNodes(m) = {} \/ m.held \subseteq NewNodes(m)
    <3>1. NewNodes(m) = NewNodes(cl[c])
      BY <2>1 DEF NewNodes
    <3>2. NewNodes(cl[c]) = {} \/ cl[c].held \subseteq NewNodes(cl[c])
      BY <1>1, <1>2 DEF InsertConfig, Phased
    <3>3. QED
      BY <2>1, <3>1, <3>2
  <2> HIDE DEF m
  <2>5. f \in State /\ f.pc = "group" /\ f.held = m.held /\ f.new = m.new
    BY <2>1 DEF Made, State
  <2>6. NewNodes(f) = NewNodes(m)
    BY <2>5 DEF NewNodes
  <2>7. Phased(m) /\ Phased(f)
    BY <2>1, <2>4, <2>5, <2>6 DEF Phased, Updating
  <2>8. QED
    BY <2>1, <2>2, <2>3, <2>5, <2>7, BecomeTyped
<1>3. ASSUME NEW g \in GroupId, InsertGroup(c, g) PROVE TypeInv'
  <2> DEFINE m == [cl[c] EXCEPT !.todo = @ \ {g}]
             f == [m EXCEPT !.pc = "node"]
  <2>1. m \in State /\ m.pc = "group" /\ m.new = cl[c].new /\ m.held = cl[c].held
    BY <1>1, <1>3 DEF InsertGroup, State
  <2>2. Become(c, IF m.todo # {} THEN m ELSE IF NewNodes(m) # {} THEN f ELSE ToPoint(m))
    BY <1>3, Zenon DEF InsertGroup
  <2>3. TablesTyped' /\ faults' \in 0 .. MaxFaults
    BY <1>3 DEF InsertGroup
  <2>4. NewNodes(m) = {} \/ m.held \subseteq NewNodes(m)
    <3>1. NewNodes(m) = NewNodes(cl[c])
      BY <2>1 DEF NewNodes
    <3>2. NewNodes(cl[c]) = {} \/ cl[c].held \subseteq NewNodes(cl[c])
      BY <1>1, <1>3 DEF InsertGroup, Phased
    <3>3. QED
      BY <2>1, <3>1, <3>2
  <2> HIDE DEF m
  <2>5. f \in State /\ f.pc = "node" /\ f.held = m.held /\ f.new = m.new
    BY <2>1 DEF State
  <2>6. NewNodes(f) = NewNodes(m)
    BY <2>5 DEF NewNodes
  <2>7. Phased(m) /\ (NewNodes(m) # {} => Phased(f))
    BY <2>1, <2>4, <2>5, <2>6 DEF Phased, Updating
  <2>8. QED
    BY <2>1, <2>2, <2>3, <2>5, <2>7, ToPointTyped, BecomeTyped
<1>4. ASSUME NEW n \in NodeId, InsertNode(c, n) PROVE TypeInv'
  <2> DEFINE m == [cl[c] EXCEPT !.held = @ \ {n}]
             f == [m EXCEPT !.pc = "link", !.held = NewNodes(m)]
  <2>1. m \in State /\ m.pc = "node" /\ m.new = cl[c].new /\ m.held = cl[c].held \ {n}
    BY <1>1, <1>4 DEF InsertNode, State
  <2>2. Become(c, IF m.held # {} THEN m ELSE f) /\ node' = [node EXCEPT ![n] = cl[c].new[n]]
    BY <1>4, <2>1, Zenon DEF InsertNode
  <2>3. NewNodes(m) = NewNodes(cl[c]) /\ cl[c].held \subseteq NewNodes(cl[c]) /\ n \in cl[c].held
    BY <1>1, <1>4, <2>1 DEF InsertNode, Phased, NewNodes
  <2>4. cl[c].new[n] \in Name
    BY <1>1, <2>3 DEF NewNodes, State
  <2>5. TablesTyped' /\ faults' \in 0 .. MaxFaults
    BY <1>4, <2>2, <2>4 DEF InsertNode
  <2> HIDE DEF m
  <2>6. f \in State /\ f.pc \in Free
    BY <2>1 DEF State, Free, NewNodes
  <2>7. Phased(m)
    BY <2>1, <2>3 DEF Phased, Updating
  <2>8. QED
    BY <2>1, <2>2, <2>5, <2>6, <2>7, FreePhased, BecomeTyped
<1>5. ASSUME NEW n \in NodeId, InsertLink(c, n) PROVE TypeInv'
  <2> DEFINE m == [cl[c] EXCEPT !.held = @ \ {n}]
  <2>1. m \in State /\ m.pc \in Free
    BY <1>1, <1>5 DEF InsertLink, State, Free
  <2>2. Become(c, IF m.held # {} THEN m ELSE AfterAdd(m))
    BY <1>5, Zenon DEF InsertLink
  <2>3. TablesTyped' /\ faults' \in 0 .. MaxFaults
    BY <1>5 DEF InsertLink
  <2> HIDE DEF m
  <2>4. QED
    BY <2>1, <2>2, <2>3, FreePhased, AfterAddTyped, BecomeTyped
<1>6. QED
  BY <1>2, <1>3, <1>4, <1>5

(* A step of Update adds no nodes.                                         *)
LEMMA UpdatePhased ==
  ASSUME TypeInv, NEW c \in Client, cl[c].pc \in Updating, NEW e,
         e.pc \in (Updating \ {"reuse"}) \union {"config"}, e.new = cl[c].new
  PROVE  Phased(e)
<1>1. NewNodes(cl[c]) = {}
  BY DEF TypeInv, Phased
<1>2. NewNodes(e) = {}
  BY <1>1 DEF NewNodes
<1>3. QED
  BY <1>2 DEF Phased, Updating

LEMMA ReadTyped ==
  ASSUME TypeInv, NEW c \in Client, CheckUpdate(c) \/ ReadOld(c) \/ ReadGroups(c)
  PROVE  TypeInv'
<1> DEFINE m == cl[c]
<1>1. m \in State /\ m.pc \in Updating /\ TablesTyped' /\ faults' \in 0 .. MaxFaults
  BY OwnState, SameTables DEF CheckUpdate, ReadOld, ReadGroups, Updating
<1>2. CASE CheckUpdate(c)
  <2> DEFINE e == [m EXCEPT !.pc = "old"]
  <2>1. e \in State /\ e.pc = "old" /\ e.new = m.new
    BY <1>1 DEF State
  <2>2. Phased(e)
    BY <1>1, <2>1, UpdatePhased DEF Updating
  <2>3. Become(c, e) \/ Become(c, Finish(m, "failed"))
    BY <1>2 DEF CheckUpdate
  <2>4. QED
    BY <1>1, <2>1, <2>2, <2>3, OwnState, BecomeTyped
<1>3. CASE ReadOld(c)
  <2> DEFINE old == {n \in Rows(m.upd) : Joined(n)}
             e == [m EXCEPT !.pc = "groups", !.held = old]
  <2>1. old \in SUBSET NodeId
    BY DEF Rows
  <2>2. Become(c, e) \/ Become(c, Finish(m, "failed"))
    BY <1>3, Zenon DEF ReadOld
  <2> HIDE DEF old
  <2>3. e \in State /\ e.pc = "groups" /\ e.new = m.new
    BY <1>1, <2>1 DEF State
  <2>4. Phased(e)
    BY <1>1, <2>3, UpdatePhased DEF Updating
  <2>5. QED
    BY <1>1, <2>2, <2>3, <2>4, OwnState, BecomeTyped
<1>4. CASE ReadGroups(c)
  <2> DEFINE todo == {assign[n] : n \in m.held} \intersect group
             e == [m EXCEPT !.pc = "members", !.todo = todo]
  <2>1. todo \in SUBSET GroupId
    BY DEF TypeInv, TypeOK
  <2>2. Become(c, e)
    BY <1>4, Zenon DEF ReadGroups
  <2> HIDE DEF todo
  <2>3. e \in State /\ e.pc = "members" /\ e.new = m.new
    BY <1>1, <2>1 DEF State
  <2>4. Phased(e)
    BY <1>1, <2>3, UpdatePhased DEF Updating
  <2>5. QED
    BY <1>1, <2>2, <2>3, <2>4, BecomeTyped
<1>5. QED
  BY <1>2, <1>3, <1>4

LEMMA ReadMembersTyped == ASSUME TypeInv, NEW c \in Client, ReadMembers(c) PROVE TypeInv'
<1> DEFINE m == cl[c]
           joined == {g \in m.todo \intersect group : config[g] # Absent /\ Members(g) # {}}
           plan == [g \in GroupId |-> IF g \in joined THEN Members(g) ELSE {}]
           cfg == [g \in GroupId |-> IF g \in joined THEN config[g] ELSE Absent]
           e == [m EXCEPT !.pc = "reuse", !.todo = {}, !.plan = plan, !.cfg = cfg]
<1>1. m \in State /\ m.pc \in Updating /\ TablesTyped' /\ faults' \in 0 .. MaxFaults
  BY OwnState, SameTables DEF ReadMembers, Updating
<1>2. Become(c, e)
  BY Zenon DEF ReadMembers
<1>3. plan \in [GroupId -> SUBSET NodeId] /\ cfg \in [GroupId -> Record \union {Absent}]
  BY DEF TypeInv, TypeOK, Members
<1>4. \A g \in GroupId : plan[g] # {} => cfg[g] # Absent
  OBVIOUS
<1>5. NewNodes(m) = {}
  BY <1>1 DEF TypeInv, Phased
<1> HIDE DEF plan, cfg
<1>6. /\ e \in State /\ e.pc = "reuse" /\ e.new = m.new /\ e.plan = plan /\ e.cfg = cfg
  BY <1>1, <1>3 DEF State
<1>7. NewNodes(e) = {}
  BY <1>5, <1>6 DEF NewNodes
<1>8. Phased(e)
  BY <1>4, <1>6, <1>7 DEF Phased
<1>9. QED
  BY <1>1, <1>2, <1>6, <1>8, BecomeTyped

(* What Update is to do, as PlanUpdate finds it: the groups whose nodes it *)
(* changes, the config each of them is to have, those of them for which    *)
(* there is no group yet, and the groups that are there for the others.    *)
Old(m) == {g \in GroupId : m.plan[g] \intersect m.held # {}}
Due(m, g) == Patched(m.cfg[g], m.req, m.req)
Unmet(m) == {g \in Old(m) : Similar(Due(m, g)) = {}}
MadeFor(m) == Fresh(Unmet(m), GroupId \ UsedGroups)
Planned(m, same) ==
  [m EXCEPT !.pc = "purge", !.drop = Unneeded(m),
            !.plan = [g \in GroupId |-> m.plan[g] \intersect m.held],
            !.to = [g \in GroupId |-> IF g \in Old(m)
                                      THEN IF g \in Unmet(m) THEN MadeFor(m)[g] ELSE same[Due(m, g)]
                                      ELSE Absent],
            !.cfg = [h \in GroupId |-> IF \E g \in Unmet(m) : MadeFor(m)[g] = h
                                       THEN Due(m, CHOOSE g \in Unmet(m) : MadeFor(m)[g] = h)
                                       ELSE Absent]]

LEMMA PlanIs ==
  ASSUME NEW c \in Client, PlanUpdate(c)
  PROVE  LET m == cl[c] IN
         /\ m.pc = "reuse" /\ Enough(Unmet(m), GroupId \ UsedGroups) /\ UNCHANGED <<tables, faults>>
         /\ \E same : /\ \A g \in Old(m) \ Unmet(m) : same[Due(m, g)] \in Similar(Due(m, g))
                      /\ Become(c, Planned(m, same))
<1>1. PICK same \in [{Due(cl[c], g) : g \in Old(cl[c]) \ Unmet(cl[c])} -> group] :
        /\ \A r \in {Due(cl[c], g) : g \in Old(cl[c]) \ Unmet(cl[c])} : same[r] \in Similar(r)
        /\ Become(c, Planned(cl[c], same))
  BY Zenon DEF PlanUpdate, Planned, Old, Due, Unmet, MadeFor
<1>2. QED
  BY <1>1, Zenon DEF PlanUpdate, Old, Due, Unmet

(* The new group of each old one is there or has an id that nobody uses,   *)
(* and each id that is used has the config it was made for.                *)
LEMMA PlannedFields ==
  ASSUME NEW m \in State, Phased(m), m.pc = "reuse", Enough(Unmet(m), GroupId \ UsedGroups),
         group \subseteq GroupId,
         NEW same, \A g \in Old(m) \ Unmet(m) : same[Due(m, g)] \in Similar(Due(m, g))
  PROVE  LET e == Planned(m, same) IN
         /\ e \in State /\ e.pc = "purge" /\ e.req = m.req /\ e.new = m.new /\ e.some = m.some
         /\ e.upd = m.upd /\ e.drop = Unneeded(m) /\ e.held = m.held
         /\ \A g \in GroupId : e.plan[g] = m.plan[g] \intersect m.held
         /\ \A g \in GroupId : e.plan[g] # {} =>
              /\ Due(m, g) # Absent
              /\ \/ e.to[g] \in Similar(Due(m, g))
                 \/ e.to[g] \in GroupId \ UsedGroups /\ e.cfg[e.to[g]] = Due(m, g)
         /\ \A h \in GroupId : e.cfg[h] # Absent => h \notin UsedGroups
<1> DEFINE made == MadeFor(m)
           unmet == Unmet(m)
           to == [g \in GroupId |-> IF g \in Old(m)
                                    THEN IF g \in Unmet(m) THEN MadeFor(m)[g] ELSE same[Due(m, g)]
                                    ELSE Absent]
           plan == [g \in GroupId |-> m.plan[g] \intersect m.held]
           cfg == [h \in GroupId |-> IF \E g \in Unmet(m) : MadeFor(m)[g] = h
                                     THEN Due(m, CHOOSE g \in Unmet(m) : MadeFor(m)[g] = h)
                                     ELSE Absent]
           e == Planned(m, same)
<1>1. made \in [unmet -> GroupId \ UsedGroups]
  BY FreshIs DEF MadeFor
<1>2. unmet \subseteq Old(m) /\ Old(m) \subseteq GroupId
  BY DEF Unmet, Old
<1>3. \A g \in Old(m) : Due(m, g) \in Record /\ Due(m, g) # Absent
  <2> SUFFICES ASSUME NEW g \in Old(m) PROVE Due(m, g) \in Record /\ Due(m, g) # Absent
    OBVIOUS
  <2>1. m.cfg[g] # Absent /\ m.cfg[g] \in Record \union {Absent} /\ m.req \in Request
    BY DEF Old, Phased, State
  <2>2. QED
    BY <2>1, PatchedTyped DEF Due
<1>4. to \in [GroupId -> GroupId \union {Absent}]
  BY <1>1, <1>2 DEF Similar
<1>5. ASSUME NEW h \in GroupId
      PROVE  /\ cfg[h] \in Record \union {Absent}
             /\ \A g \in unmet : made[g] = h => cfg[h] = Due(m, g)
             /\ cfg[h] # Absent => \E g \in unmet : made[g] = h
  <2>1. CASE \E g \in unmet : made[g] = h
    <3>1. (CHOOSE g \in unmet : made[g] = h) \in unmet
      BY <2>1, Zenon
    <3>2. cfg[h] = Due(m, CHOOSE g \in unmet : made[g] = h)
      BY <2>1
    <3>3. cfg[h] \in Record /\ cfg[h] # Absent
      BY <1>2, <1>3, <3>1, <3>2, Zenon
    <3>4. made[CHOOSE g \in unmet : made[g] = h] = h
      BY <2>1, Zenon
    <3>5. \A g, k \in unmet : made[g] = made[k] => g = k
      BY FreshIs DEF MadeFor
    <3>6. \A g \in unmet : made[g] = h => g = CHOOSE k \in unmet : made[k] = h
      BY <3>1, <3>4, <3>5, Zenon
    <3>7. QED
      BY <2>1, <3>2, <3>3, <3>6
  <2>2. CASE ~\E g \in unmet : made[g] = h
    BY <2>2
  <2>3. QED
    BY <2>1, <2>2
<1>6. cfg \in [GroupId -> Record \union {Absent}] /\ plan \in [GroupId -> SUBSET NodeId]
  BY <1>5 DEF State
<1>7. e = [m EXCEPT !.pc = "purge", !.drop = Unneeded(m), !.plan = plan, !.to = to, !.cfg = cfg]
  BY Zenon DEF Planned
<1>8. \A g \in GroupId : to[g] = IF g \in Old(m) THEN IF g \in unmet THEN made[g] ELSE same[Due(m, g)]
                                 ELSE Absent
  OBVIOUS
<1>9. \A g \in GroupId : plan[g] = m.plan[g] \intersect m.held
  OBVIOUS
<1> HIDE DEF made, unmet, to, plan, cfg, e
<1>10. /\ e \in State /\ e.pc = "purge" /\ e.req = m.req /\ e.new = m.new /\ e.some = m.some
       /\ e.upd = m.upd /\ e.drop = Unneeded(m) /\ e.held = m.held
       /\ e.plan = plan /\ e.to = to /\ e.cfg = cfg
  <2>1. Unneeded(m) \in SUBSET GroupId
    BY DEF Unneeded
  <2>2. QED
    BY <1>4, <1>6, <1>7, <2>1 DEF State
<1>11. ASSUME NEW g \in GroupId, plan[g] # {}
       PROVE  /\ Due(m, g) # Absent
              /\ \/ to[g] \in Similar(Due(m, g))
                 \/ to[g] \in GroupId \ UsedGroups /\ cfg[to[g]] = Due(m, g)
  <2>1. g \in Old(m)
    BY <1>9, <1>11 DEF Old
  <2>2. CASE g \in unmet
    <3>1. to[g] = made[g] /\ made[g] \in GroupId \ UsedGroups
      BY <1>1, <1>8, <2>1, <2>2
    <3>2. cfg[made[g]] = Due(m, g)
      BY <1>5, <2>2, <3>1
    <3>3. QED
      BY <1>3, <2>1, <3>1, <3>2
  <2>3. CASE g \notin unmet
    BY <1>3, <1>8, <2>1, <2>3 DEF unmet
  <2>4. QED
    BY <2>2, <2>3
<1>12. ASSUME NEW h \in GroupId, cfg[h] # Absent PROVE h \notin UsedGroups
  BY <1>1, <1>5, <1>12
<1>13. QED
  BY <1>9, <1>10, <1>11, <1>12 DEF e

LEMMA PlanTyped == ASSUME TypeInv, NEW c \in Client, PlanUpdate(c) PROVE TypeInv'
<1> DEFINE m == cl[c]
<1>1. /\ m \in State /\ m.pc = "reuse" /\ m.pc \in Updating /\ Phased(m)
      /\ Enough(Unmet(m), GroupId \ UsedGroups)
      /\ group \subseteq GroupId /\ TablesTyped' /\ faults' \in 0 .. MaxFaults
  BY OwnState, PlanIs, SameTables DEF TypeInv, TypeOK, Updating
<1>2. PICK same : /\ \A g \in Old(m) \ Unmet(m) : same[Due(m, g)] \in Similar(Due(m, g))
                  /\ Become(c, Planned(m, same))
  BY PlanIs
<1>3. /\ Planned(m, same) \in State /\ Planned(m, same).pc = "purge"
      /\ Planned(m, same).new = m.new
  BY <1>1, <1>2, PlannedFields
<1>4. Phased(Planned(m, same))
  BY <1>1, <1>3, UpdatePhased DEF Updating
<1>5. QED
  BY <1>1, <1>2, <1>3, <1>4, BecomeTyped

LEMMA PurgeTyped ==
  ASSUME TypeInv, NEW c \in Client, Purge(c)
  PROVE  TypeInv'
<1> DEFINE m == [cl[c] EXCEPT !.drop = {}]
           e == [m EXCEPT !.pc = "config", !.todo = Made(m)]
<1>1. cl[c] \in State /\ cl[c].pc = "purge"
  BY OwnState DEF Purge
<1>2. m \in State /\ m.new = cl[c].new
  BY <1>1 DEF State
<1>3. Become(c, IF Made(m) # {} THEN e ELSE ToPoint(m))
  BY Zenon DEF Purge
<1>4. TablesTyped' /\ faults' \in 0 .. MaxFaults
  BY DEF Purge, TypeInv, TypeOK, TablesTyped
<1> HIDE DEF m
<1>5. e \in State /\ e.pc = "config" /\ e.new = cl[c].new
  BY <1>2 DEF State, Made
<1>6. Phased(e)
  BY <1>1, <1>5, UpdatePhased DEF Updating
<1>7. QED
  BY <1>2, <1>3, <1>4, <1>5, <1>6, ToPointTyped, BecomeTyped

LEMMA PointTyped ==
  ASSUME TypeInv, NEW c \in Client, NEW g \in GroupId, Point(c, g)
  PROVE  TypeInv'
<1> DEFINE m == [cl[c] EXCEPT !.todo = @ \ {g}]
<1>1. cl[c] \in State /\ cl[c].pc = "point"
  BY OwnState DEF Point
<1>2. m \in State /\ m.pc \in Free /\ m.req \in Request /\ m.to[g] \in GroupId \union {Absent}
  BY <1>1 DEF State, Free
<1>3. Become(c, IF m.todo # {} THEN m ELSE Finish(m, "ok"))
  BY Zenon DEF Point
<1>4. TablesTyped' /\ faults' \in 0 .. MaxFaults
  BY <1>2 DEF Point, TypeInv, TypeOK, TablesTyped
<1> HIDE DEF m
<1>5. QED
  BY <1>2, <1>3, <1>4, FinishTyped, FreePhased, BecomeTyped DEF Done

(* The steps of Delete.                                                    *)
LEMMA DeleteNodesTyped ==
  ASSUME TypeInv, NEW c \in Client,
         DeleteNodes(c) \/ DeleteLinks(c) \/ DropGroups(c) \/ DropConfigs(c)
  PROVE  TypeInv'
<1> USE DEF TypeInv, TypeOK, TablesTyped
<1> DEFINE m == cl[c]
<1>1. m \in State
  OBVIOUS
<1>2. CASE DeleteNodes(c)
  <2> DEFINE gone == Rows(m.upd)
             e == [m EXCEPT !.pc = "unlink", !.held = gone]
  <2>1. gone \in SUBSET NodeId
    BY DEF Rows
  <2>2. Become(c, e) \/ Become(c, Finish(m, "failed"))
    BY <1>2, Zenon DEF DeleteNodes
  <2>3. TablesTyped' /\ faults' \in 0 .. MaxFaults
    BY <1>2 DEF DeleteNodes
  <2> HIDE DEF gone
  <2>4. e \in State /\ e.pc \in Free
    BY <1>1, <2>1 DEF State, Free
  <2>5. QED
    BY <2>2, <2>3, <2>4, OwnState, FreePhased, BecomeTyped
<1>3. CASE DeleteLinks(c)
  <2> DEFINE groups == {assign[n] : n \in m.held} \ {Absent}
             e == [m EXCEPT !.pc = "count", !.todo = groups]
  <2>1. groups \in SUBSET GroupId
    <3>1. m.held \subseteq NodeId
      BY <1>1 DEF State
    <3>2. QED
      BY <3>1
  <2>2. Become(c, e) \/ Become(c, Finish(m, "ok"))
    BY <1>3, Zenon DEF DeleteLinks
  <2>3. TablesTyped' /\ faults' \in 0 .. MaxFaults
    BY <1>3 DEF DeleteLinks
  <2> HIDE DEF groups
  <2>4. e \in State /\ e.pc \in Free
    BY <1>1, <2>1 DEF State, Free
  <2>5. QED
    BY <2>2, <2>3, <2>4, OwnState, FreePhased, BecomeTyped
<1>4. CASE DropGroups(c)
  <2> DEFINE gone == m.drop \intersect group
             e == [m EXCEPT !.pc = "dropconfigs", !.drop = gone]
  <2>1. gone \in SUBSET GroupId
    OBVIOUS
  <2>2. Become(c, e) \/ Become(c, Finish(m, "failed"))
    BY <1>4, Zenon DEF DropGroups
  <2>3. TablesTyped' /\ faults' \in 0 .. MaxFaults
    BY <1>4 DEF DropGroups
  <2> HIDE DEF gone
  <2>4. e \in State /\ e.pc \in Free
    BY <1>1, <2>1 DEF State, Free
  <2>5. QED
    BY <2>2, <2>3, <2>4, OwnState, FreePhased, BecomeTyped
<1>5. CASE DropConfigs(c)
  <2>1. TablesTyped' /\ faults' \in 0 .. MaxFaults
    BY <1>5 DEF DropConfigs
  <2>2. QED
    BY <1>5, <2>1, OwnState, BecomeTyped DEF DropConfigs
<1>6. QED
  BY <1>2, <1>3, <1>4, <1>5

LEMMA CountTyped ==
  ASSUME TypeInv, NEW c \in Client, NEW g \in GroupId, CountMembers(c, g)
  PROVE  TypeInv'
<1> DEFINE drop == IF Members(g) = {} THEN cl[c].drop \union {g} ELSE cl[c].drop
           m == [cl[c] EXCEPT !.todo = @ \ {g}, !.drop = drop]
           e == [m EXCEPT !.pc = "dropgroups"]
<1>1. cl[c] \in State /\ cl[c].pc = "count" /\ TablesTyped' /\ faults' \in 0 .. MaxFaults
  BY OwnState, SameTables DEF CountMembers
<1>2. drop \in SUBSET GroupId
  BY <1>1 DEF State
<1>3. Become(c, m) \/ Become(c, Finish(m, "ok")) \/ Become(c, e)
  BY Zenon DEF CountMembers
<1> HIDE DEF drop
<1>4. m \in State /\ m.pc \in Free /\ m.req \in Request
  BY <1>1, <1>2 DEF State, Free
<1> HIDE DEF m
<1>5. e \in State /\ e.pc \in Free
  BY <1>4 DEF State, Free
<1>6. QED
  BY <1>1, <1>3, <1>4, <1>5, FinishTyped, FreePhased, BecomeTyped DEF Done

LEMMA DeleteConfigsTyped ==
  ASSUME TypeInv, NEW c \in Client,
         DeleteConfigs(c) \/ DeleteGroups(c) \/ DeleteGroupLinks(c) \/ DeleteMembers(c)
  PROVE  TypeInv'
<1> USE DEF TypeInv, TypeOK, TablesTyped
<1> DEFINE m == cl[c]
<1>1. m \in State
  OBVIOUS
<1>2. CASE DeleteConfigs(c)
  <2> DEFINE gone == {g \in GroupId : config[g] # Absent /\ HasItems(config[g], m.req)}
             e == [m EXCEPT !.pc = "delgroups", !.drop = gone]
  <2>1. gone \in SUBSET GroupId
    OBVIOUS
  <2>2. Become(c, e)
    BY <1>2, Zenon DEF DeleteConfigs
  <2>3. TablesTyped' /\ faults' \in 0 .. MaxFaults
    BY <1>2 DEF DeleteConfigs
  <2> HIDE DEF gone
  <2>4. e \in State /\ e.pc \in Free
    BY <1>1, <2>1 DEF State, Free
  <2>5. QED
    BY <2>2, <2>3, <2>4, FreePhased, BecomeTyped
<1>3. CASE DeleteGroups(c)
  <2> DEFINE e == [m EXCEPT !.pc = "dellinks", !.drop = @ \intersect group]
  <2>1. Become(c, e) /\ TablesTyped' /\ faults' \in 0 .. MaxFaults
    BY <1>3 DEF DeleteGroups
  <2>2. e \in State /\ e.pc \in Free
    BY <1>1 DEF State, Free
  <2>3. QED
    BY <2>1, <2>2, FreePhased, BecomeTyped
<1>4. CASE DeleteGroupLinks(c)
  <2> DEFINE gone == {n \in NodeId : assign[n] \in m.drop}
             e == [m EXCEPT !.pc = "delmembers", !.drop = {}, !.held = gone]
  <2>1. gone \in SUBSET NodeId
    OBVIOUS
  <2>2. Become(c, e)
    BY <1>4, Zenon DEF DeleteGroupLinks
  <2>3. TablesTyped' /\ faults' \in 0 .. MaxFaults
    BY <1>4 DEF DeleteGroupLinks
  <2> HIDE DEF gone
  <2>4. e \in State /\ e.pc \in Free
    BY <1>1, <2>1 DEF State, Free
  <2>5. QED
    BY <2>2, <2>3, <2>4, FreePhased, BecomeTyped
<1>5. CASE DeleteMembers(c)
  <2>1. TablesTyped' /\ faults' \in 0 .. MaxFaults
    BY <1>5 DEF DeleteMembers
  <2>2. QED
    BY <1>5, <2>1, OwnState, BecomeTyped DEF DeleteMembers
<1>6. QED
  BY <1>2, <1>3, <1>4, <1>5

LEMMA InitTyped == Init => TypeInv
<1> SUFFICES ASSUME Init PROVE TypeInv
  OBVIOUS
<1>1. Blank(NoRequest) \in State /\ Blank(NoRequest).pc = "idle"
  BY NoRequestTyped, BlankTyped DEF Blank
<1>2. Phased(Blank(NoRequest))
  BY <1>1, FreePhased DEF Free, Done
<1>3. \A c \in Client : cl[c] = Blank(NoRequest)
  BY DEF Init
<1>4. cl \in [Client -> State] /\ \A c \in Client : Phased(cl[c])
  BY <1>1, <1>2, <1>3, Zenon DEF Init
<1>5. QED
  BY <1>4, SqlAssumption DEF Init, TypeInv, TypeOK

LEMMA StepTyped == TypeInv /\ [Next]_vars => TypeInv'
<1> SUFFICES ASSUME TypeInv, [Next]_vars PROVE TypeInv'
  OBVIOUS
<1>1. CASE UNCHANGED vars
  BY <1>1 DEF vars, tables, TypeInv, TypeOK, Phased, NewNodes
<1>2. ASSUME NEW c \in Client, Begin(c) \/ StatementFails(c) \/ CheckSet(c) \/ ListSet(c)
      PROVE  TypeInv'
  BY <1>2, BeginTyped, FailTyped, SetTyped
<1>3. ASSUME NEW c \in Client, AddStep(c) PROVE TypeInv'
  BY <1>3, FindTyped, FindSimilarTyped, InsertTyped DEF AddStep
<1>4. ASSUME NEW c \in Client, UpdateStep(c) PROVE TypeInv'
  BY <1>4, ReadTyped, ReadMembersTyped, PlanTyped, PurgeTyped, PointTyped DEF UpdateStep
<1>5. ASSUME NEW c \in Client, DeleteStep(c) PROVE TypeInv'
  BY <1>5, DeleteNodesTyped, CountTyped, DeleteConfigsTyped DEF DeleteStep
<1>6. QED
  BY <1>1, <1>2, <1>3, <1>4, <1>5 DEF Next

(* TypeOK: the handlers write rows of the right kind: no node without a    *)
(* name, no group or config but for an id that was made, and no config     *)
(* patched out of one that was not read.                                   *)
THEOREM TypeCorrect == Spec => []TypeOK
<1>1. TypeInv => TypeOK
  BY DEF TypeInv
<1>2. QED
  BY <1>1, InitTyped, StepTyped, PTL DEF Spec

-----------------------------------------------------------------------------
(* What each step makes of the handler's state.                            *)
LEMMA OthersStay ==
  ASSUME TypeInv, NEW c \in Client, NEW m, Become(c, m)
  PROVE  cl'[c] = m /\ \A d \in Client : d # c => cl'[d] = cl[d]
BY DEF TypeInv, TypeOK, Become

LEMMA FinishIs ==
  ASSUME NEW m, NEW pc \in Done
  PROVE  LET e == Finish(m, pc) IN e.pc = pc /\ NewNodes(e) = {}
BY DEF Finish, Blank, NewNodes

(* Nothing is planned, made or dropped yet.                                *)
Bare(m) ==
  /\ NewNodes(m) = {} /\ ~m.some /\ m.drop = {}
  /\ \A g \in GroupId : m.plan[g] = {} /\ m.cfg[g] = Absent

LEMMA StartIs ==
  ASSUME NEW r \in Request
  PROVE  LET e == Start(r) IN
         \/ e.pc \in Done /\ NewNodes(e) = {}
         \/ /\ e.req = r /\ Bare(e)
            /\ \/ e.pc = "find" /\ r.method = "POST"
               \/ e.pc = "check" /\ r.method = "PUT" /\ ~Empty(r)
               \/ e.pc = "exist" /\ r.method = "PATCH"
               \/ e.pc = "delnodes" /\ r.method = "DELETE" /\ Targets(r) # {}
               \/ e.pc = "delconfigs" /\ r.method = "DELETE" /\ Targets(r) = {}
<1> DEFINE m == Blank(r)
           L(e, pc) == /\ e.pc = pc /\ e.req = r /\ e.new = m.new /\ e.some = m.some
                       /\ e.drop = m.drop /\ e.plan = m.plan /\ e.cfg = m.cfg
<1>1. m \in State /\ m.req = r
  BY BlankTyped DEF Blank
<1>2. Bare(m)
  BY BlankTyped DEF Bare, Blank
<1> HIDE DEF m
<1>3. ASSUME NEW pc \in {"find", "exist", "check", "delnodes", "delconfigs"}
      PROVE  /\ L([m EXCEPT !.pc = pc], pc) /\ L([m EXCEPT !.pc = pc, !.add = AllNames(r)], pc)
             /\ L([m EXCEPT !.pc = pc, !.upd = AllNames(r)], pc)
             /\ L([m EXCEPT !.pc = pc, !.upd = Targets(r)], pc)
  BY <1>1 DEF State
<1>4. ASSUME NEW e, NEW pc, L(e, pc) PROVE Bare(e)
  BY <1>2, <1>4 DEF Bare, NewNodes
<1> HIDE DEF L
<1>5. "ok" \in Done /\ "failed" \in Done
  BY DEF Done
<1>6. \A pc \in Done : Finish(m, pc).pc \in Done /\ NewNodes(Finish(m, pc)) = {}
  BY FinishIs
<1>7. PICK e : e = Start(r)
  OBVIOUS
<1>8. \/ \E pc \in Done : e = Finish(m, pc)
      \/ L(e, "find") /\ r.method = "POST"
      \/ L(e, "check") /\ r.method = "PUT" /\ ~Empty(r)
      \/ L(e, "exist") /\ r.method = "PATCH"
      \/ L(e, "delnodes") /\ r.method = "DELETE" /\ Targets(r) # {}
      \/ L(e, "delconfigs") /\ r.method = "DELETE" /\ Targets(r) = {}
  BY <1>3, <1>5, <1>7 DEF Start, m
<1>9. QED
  BY <1>4, <1>6, <1>7, <1>8 DEF L

LEMMA AfterAddIs ==
  ASSUME NEW m \in State
  PROVE  LET e == AfterAdd(m) IN
         \/ e.pc \in Done /\ NewNodes(e) = {}
         \/ e.pc = "exist" /\ e.req = m.req /\ m.some /\ Bare(e)
<1>1. CASE m.some
  <2> DEFINE e == [Blank(m.req) EXCEPT !.pc = "exist", !.upd = m.upd]
  <2>1. AfterAdd(m) = e
    BY <1>1 DEF AfterAdd
  <2>2. e.pc = "exist" /\ e.req = m.req /\ Bare(e)
    BY DEF Blank, Bare, NewNodes
  <2>3. QED
    BY <1>1, <2>1, <2>2
<1>2. CASE ~m.some
  BY <1>2, FinishIs DEF AfterAdd, Done
<1>3. QED
  BY <1>1, <1>2

LEMMA ToPointIs ==
  ASSUME NEW m \in State
  PROVE  LET e == ToPoint(m) IN
         \/ e.pc \in Done /\ NewNodes(e) = {}
         \/ /\ e.pc = "point" /\ e.req = m.req /\ e.new = m.new
            /\ e.plan = m.plan /\ e.to = m.to /\ \E g \in GroupId : m.plan[g] # {}
<1> DEFINE groups == {g \in GroupId : m.plan[g] # {}}
           e == [m EXCEPT !.pc = "point", !.todo = groups]
<1>1. ToPoint(m) = Finish(m, "ok") \/ (ToPoint(m) = e /\ \E g \in GroupId : m.plan[g] # {})
  BY DEF ToPoint
<1> HIDE DEF groups
<1>2. e.pc = "point" /\ e.req = m.req /\ e.new = m.new /\ e.plan = m.plan /\ e.to = m.to
  BY DEF State
<1>3. QED
  BY <1>1, <1>2, FinishIs DEF Done

-----------------------------------------------------------------------------
(* NoDuplicateNodes, when at most one client sends POSTs and PUTs, which   *)
(* are what adds nodes: the names of the nodes that it is yet to insert    *)
(* differ, and no row has any of them.                                     *)
IsAdder(c) == \E r \in May[c] : r.method \in {"POST", "PUT"}
LoneAdder == \A c, d \in Client : IsAdder(c) /\ IsAdder(d) => c = d

Waiting(m) ==
  {n \in NewNodes(m) : m.pc \in {"similar", "config", "group"} \/ (m.pc = "node" /\ n \in m.held)}

NamesInv ==
  /\ NoDuplicateNodes
  /\ \A c \in Client :
       /\ cl[c].pc \in {"check", "list", "find"} \/ NewNodes(cl[c]) # {} => IsAdder(c)
       /\ \A n, k \in NewNodes(cl[c]) : cl[c].new[n] = cl[c].new[k] => n = k
       /\ \A n \in Waiting(cl[c]), k \in NodeId : node[k] # cl[c].new[n]

LEMMA WaitingNamed ==
  ASSUME TypeInv, NEW c \in Client
  PROVE  /\ Waiting(cl[c]) \subseteq NewNodes(cl[c]) /\ NewNodes(cl[c]) \subseteq NodeId
         /\ \A n \in NewNodes(cl[c]) : cl[c].new[n] \in Name /\ cl[c].new[n] # Absent
<1>1. cl[c] \in State
  BY OwnState
<1>2. QED
  BY <1>1, SqlAssumption DEF Waiting, NewNodes, State

(* A step that inserts no row, and makes up no names.                      *)
LEMMA NamesKept ==
  ASSUME TypeInv, NamesInv, NEW c \in Client, NEW m, Become(c, m),
         \A n \in NodeId : node'[n] \in {node[n], Absent},
         m.pc \in {"check", "list", "find"} => IsAdder(c),
         NewNodes(m) = {} \/ (m.new = cl[c].new /\ Waiting(m) \subseteq Waiting(cl[c]))
  PROVE  NamesInv'
<1>1. NoDuplicateNodes'
  BY DEF NamesInv, NoDuplicateNodes
<1>2. cl'[c] = m /\ \A d \in Client : d # c => cl'[d] = cl[d]
  BY OthersStay
<1>3. ASSUME NEW d \in Client, NEW e, e \in {cl[d], m}, e = m => d = c,
             NEW n \in Waiting(e), NEW k \in NodeId
      PROVE  node'[k] # e.new[n]
  <2>1. e.new = cl[d].new /\ n \in Waiting(cl[d])
    BY <1>3 DEF Waiting
  <2>2. node[k] # cl[d].new[n] /\ cl[d].new[n] # Absent
    BY <2>1, WaitingNamed DEF NamesInv
  <2>3. QED
    BY <2>1, <2>2
<1>4. m.new = cl[c].new => NewNodes(m) = NewNodes(cl[c])
  BY DEF NewNodes
<1>5. ASSUME NEW d \in Client
      PROVE  /\ cl'[d].pc \in {"check", "list", "find"} \/ NewNodes(cl'[d]) # {} => IsAdder(d)
             /\ \A n, k \in NewNodes(cl'[d]) : cl'[d].new[n] = cl'[d].new[k] => n = k
             /\ \A n \in Waiting(cl'[d]), k \in NodeId : node'[k] # cl'[d].new[n]
  <2>1. CASE d = c
    <3>1. cl'[d] = m
      BY <1>2, <2>1
    <3>2. NewNodes(m) # {} => IsAdder(c)
      BY <1>4 DEF NamesInv
    <3>3. \A n, k \in NewNodes(m) : m.new[n] = m.new[k] => n = k
      BY <1>4 DEF NamesInv
    <3>4. \A n \in Waiting(m), k \in NodeId : node'[k] # m.new[n]
      BY <1>3
    <3>5. QED
      BY <2>1, <3>1, <3>2, <3>3, <3>4
  <2>2. CASE d # c
    <3>1. cl'[d] = cl[d]
      BY <1>2, <2>2
    <3>2. \A n \in Waiting(cl[d]), k \in NodeId : node'[k] # cl[d].new[n]
      BY WaitingNamed DEF NamesInv
    <3>3. QED
      BY <3>1, <3>2 DEF NamesInv
  <2>3. QED
    BY <2>1, <2>2
<1>6. QED
  BY <1>1, <1>5 DEF NamesInv, NewNodes, Waiting

LEMMA QuietNames ==
  ASSUME TypeInv, NamesInv, NEW c \in Client, NEW m, Become(c, m),
         \A n \in NodeId : node'[n] \in {node[n], Absent},
         m.pc \notin {"check", "list", "find", "similar", "config", "group", "node"},
         NewNodes(m) = {} \/ m.new = cl[c].new
  PROVE  NamesInv'
<1>1. Waiting(m) = {}
  BY DEF Waiting
<1>2. QED
  BY <1>1, NamesKept

(* A step of the client that adds nodes: the others have none to add.      *)
LEMMA AdderNames ==
  ASSUME TypeInv, NamesInv, LoneAdder, NEW c \in Client, IsAdder(c), NEW m, Become(c, m),
         NoDuplicateNodes',
         \A n, k \in NewNodes(m) : m.new[n] = m.new[k] => n = k,
         \A n \in Waiting(m), k \in NodeId : node'[k] # m.new[n]
  PROVE  NamesInv'
<1>1. cl'[c] = m /\ \A d \in Client : d # c => cl'[d] = cl[d]
  BY OthersStay
<1>2. ASSUME NEW d \in Client, d # c
      PROVE  NewNodes(cl'[d]) = {} /\ cl'[d].pc \notin {"check", "list", "find"}
  <2>1. ~IsAdder(d)
    BY <1>2 DEF LoneAdder
  <2>2. QED
    BY <1>1, <1>2, <2>1 DEF NamesInv
<1>3. ASSUME NEW d \in Client
      PROVE  /\ cl'[d].pc \in {"check", "list", "find"} \/ NewNodes(cl'[d]) # {} => IsAdder(d)
             /\ \A n, k \in NewNodes(cl'[d]) : cl'[d].new[n] = cl'[d].new[k] => n = k
             /\ \A n \in Waiting(cl'[d]), k \in NodeId : node'[k] # cl'[d].new[n]
  <2>1. CASE d = c
    BY <1>1, <2>1
  <2>2. CASE d # c
    BY <1>2, <2>2 DEF Waiting
  <2>3. QED
    BY <2>1, <2>2
<1>4. QED
  BY <1>3 DEF NamesInv, NewNodes, Waiting

LEMMA DoneNames ==
  ASSUME TypeInv, NamesInv, NEW c \in Client, NEW m, Become(c, m),
         \A n \in NodeId : node'[n] \in {node[n], Absent},
         m.pc \in Done /\ NewNodes(m) = {}
  PROVE  NamesInv'
BY QuietNames DEF Done

LEMMA FinishNames ==
  ASSUME TypeInv, NamesInv, NEW c \in Client, NEW m, NEW pc \in Done, Become(c, Finish(m, pc)),
         \A n \in NodeId : node'[n] \in {node[n], Absent}
  PROVE  NamesInv'
BY FinishIs, DoneNames

LEMMA AfterAddNames ==
  ASSUME TypeInv, NamesInv, NEW c \in Client, NEW m \in State, Become(c, AfterAdd(m)),
         \A n \in NodeId : node'[n] \in {node[n], Absent}
  PROVE  NamesInv'
<1>1. CASE AfterAdd(m).pc \in Done /\ NewNodes(AfterAdd(m)) = {}
  BY <1>1, DoneNames
<1>2. CASE AfterAdd(m).pc = "exist" /\ Bare(AfterAdd(m))
  BY <1>2, QuietNames DEF Bare
<1>3. QED
  BY <1>1, <1>2, AfterAddIs

LEMMA ToPointNames ==
  ASSUME TypeInv, NamesInv, NEW c \in Client, NEW m \in State, Become(c, ToPoint(m)),
         m.new = cl[c].new, \A n \in NodeId : node'[n] \in {node[n], Absent}
  PROVE  NamesInv'
<1>1. CASE ToPoint(m).pc \in Done /\ NewNodes(ToPoint(m)) = {}
  BY <1>1, DoneNames
<1>2. CASE ToPoint(m).pc = "point" /\ ToPoint(m).new = m.new
  BY <1>2, QuietNames
<1>3. QED
  BY <1>1, <1>2, ToPointIs

LEMMA SameNodes ==
  ASSUME UNCHANGED node PROVE \A n \in NodeId : node'[n] \in {node[n], Absent}
OBVIOUS

LEMMA SetNames ==
  ASSUME TypeInv, NamesInv, NEW c \in Client,
         Begin(c) \/ StatementFails(c) \/ CheckSet(c) \/ ListSet(c)
  PROVE  NamesInv'
<1> DEFINE m == cl[c]
<1>1. m \in State /\ \A n \in NodeId : node'[n] \in {node[n], Absent}
  BY OwnState, SameNodes DEF Begin, StatementFails, CheckSet, ListSet, tables
<1>2. CASE Begin(c)
  <2>1. PICK r \in May[c] : Become(c, Start(r))
    BY <1>2 DEF Begin
  <2>2. r \in Request
    BY SqlAssumption, RequestAssumption
  <2>3. NewNodes(Start(r)) = {} /\ (Start(r).pc \in {"check", "list", "find"} => IsAdder(c))
    BY <2>2, StartIs DEF Bare, Done, IsAdder
  <2>4. QED
    BY <1>1, <2>1, <2>3, NamesKept
<1>3. CASE StatementFails(c)
  BY <1>1, <1>3, FinishNames DEF StatementFails, Done
<1>4. CASE CheckSet(c)
  <2> DEFINE e == [m EXCEPT !.pc = "list", !.add = Missing(AllNames(m.req))]
  <2>1. Become(c, e) /\ m.pc = "check"
    BY <1>4 DEF CheckSet
  <2>2. e.pc = "list" /\ e.new = m.new
    BY <1>1 DEF State
  <2>3. IsAdder(c)
    BY <2>1 DEF NamesInv
  <2>4. Waiting(e) = {}
    BY <2>2 DEF Waiting
  <2>5. QED
    BY <1>1, <2>1, <2>2, <2>3, <2>4, NamesKept
<1>5. CASE ListSet(c)
  <2> DEFINE found == Rows(AllNames(m.req))
             upd == {node[n] : n \in found} \ {ZeroNid}
             some == found # {}
             e == [m EXCEPT !.upd = upd, !.some = some]
             f == [e EXCEPT !.pc = "find"]
  <2>1. Become(c, f) \/ Become(c, AfterAdd(e))
    BY <1>5 DEF ListSet
  <2>2. upd \subseteq Name /\ some \in BOOLEAN
    BY DEF Rows, TypeInv, TypeOK
  <2> HIDE DEF upd, some
  <2>3. e \in State /\ e.new = m.new
    BY <1>1, <2>2 DEF State
  <2> HIDE DEF e
  <2>4. f.pc = "find" /\ f.new = m.new
    BY <2>3 DEF State
  <2>5. Waiting(f) = {} /\ IsAdder(c)
    BY <1>5, <2>4 DEF Waiting, NamesInv, ListSet
  <2>6. QED
    BY <1>1, <2>1, <2>3, <2>4, <2>5, NamesKept, AfterAddNames
<1>6. QED
  BY <1>2, <1>3, <1>4, <1>5

(* The nodes to add get names that no row has: CheckNodeExistence found    *)
(* none, and nobody else adds any.                                         *)
LEMMA FindNames ==
  ASSUME TypeInv, NamesInv, LoneAdder, NEW c \in Client, FindNodes(c)
  PROVE  NamesInv'
<1> DEFINE m == cl[c]
           names == Missing(AddPart(m.add))
           ids == Fresh(names, NodeId \ UsedNodes)
           new == NewOf(names, ids)
           e == [m EXCEPT !.pc = "similar", !.new = new]
<1>1. /\ m \in State /\ m.add \in SUBSET Name /\ m.pc = "find" /\ UNCHANGED node
      /\ \A n \in NodeId : node'[n] \in {node[n], Absent}
  BY OwnState, FindIs DEF State, tables
<1>2. names \in SUBSET Name /\ \A x \in names : Rows({x}) = {}
  BY <1>1, MissingNames DEF Missing
<1>3. \A x \in names, k \in NodeId : node[k] # x
  BY <1>2, SqlAssumption DEF Rows, RowMatch
<1>4. Become(c, AfterAdd(m)) \/ Become(c, Finish(m, "failed")) \/ Become(c, e)
  BY FindIs
<1> HIDE DEF names, ids
<1>5. \A n \in NodeId : new[n] # None => new[n] \in names /\ ids[new[n]] = n
  BY <1>2, NewTyped
<1> HIDE DEF new
<1>6. e.pc = "similar" /\ e.new = new
  BY <1>1 DEF State
<1> HIDE DEF e
<1>7. ASSUME Become(c, e) PROVE NamesInv'
  <2>1. \A n \in NewNodes(e) : n \in NodeId /\ e.new[n] \in names /\ ids[e.new[n]] = n
    BY <1>5, <1>6 DEF NewNodes
  <2>2. \A n, k \in NewNodes(e) : e.new[n] = e.new[k] => n = k
    BY <2>1
  <2>3. \A n \in Waiting(e), k \in NodeId : node'[k] # e.new[n]
    BY <1>1, <1>3, <2>1 DEF Waiting
  <2>4. IsAdder(c) /\ NoDuplicateNodes'
    BY <1>1 DEF NamesInv, NoDuplicateNodes
  <2>5. QED
    BY <1>7, <2>2, <2>3, <2>4, AdderNames
<1>8. QED
  BY <1>1, <1>4, <1>7, AfterAddNames, FinishNames DEF Done

LEMMA SimilarNames ==
  ASSUME TypeInv, NamesInv, NEW c \in Client, FindSimilar(c)
  PROVE  NamesInv'
<1> DEFINE m == cl[c]
<1>1. /\ m \in State /\ m.pc = "similar"
      /\ \A n \in NodeId : node'[n] \in {node[n], Absent}
  BY OwnState, SimilarIs, SameNodes DEF tables
<1>2. ASSUME NEW e, Become(c, e), e.pc \in {"config", "node"}, e.new = m.new PROVE NamesInv'
  <2>1. Waiting(e) \subseteq Waiting(m)
    BY <1>1, <1>2 DEF Waiting, NewNodes
  <2>2. QED
    BY <1>1, <1>2, <2>1, NamesKept
<1>3. ASSUME NEW g \in GroupId
      PROVE  LET e == [PlanFor(m, g) EXCEPT !.pc = "node"]
                 f == [PlanFor(m, g) EXCEPT !.pc = "config", !.todo = {g}, !.cfg[g] = Asked(m.req)]
             IN  e.pc = "node" /\ e.new = m.new /\ f.pc = "config" /\ f.new = m.new
  <2>1. PlanFor(m, g) \in State /\ PlanFor(m, g).new = m.new
    BY <1>1, PlanForTyped
  <2>2. QED
    BY <2>1 DEF State
<1>4. Similar(Asked(m.req)) \subseteq GroupId
  BY DEF Similar, TypeInv, TypeOK
<1>5. QED
  BY <1>1, <1>2, <1>3, <1>4, SimilarIs, FinishNames DEF Done

LEMMA InsertNames ==
  ASSUME TypeInv, NamesInv, LoneAdder, NEW c \in Client,
         (\E g \in GroupId : InsertConfig(c, g) \/ InsertGroup(c, g))
           \/ (\E n \in NodeId : InsertNode(c, n) \/ InsertLink(c, n))
  PROVE  NamesInv'
<1>1. cl[c] \in State /\ Phased(cl[c])
  BY OwnState DEF TypeInv
<1>2. ASSUME NEW g \in GroupId, InsertConfig(c, g) PROVE NamesInv'
  <2> DEFINE m == [cl[c] EXCEPT !.todo = @ \ {g}]
             f == [m EXCEPT !.pc = "group", !.todo = Made(m)]
  <2>1. m.pc = "config" /\ m.new = cl[c].new /\ f.pc = "group" /\ f.new = cl[c].new
    BY <1>1, <1>2 DEF InsertConfig, State
  <2>2. Become(c, m) \/ Become(c, f)
    BY <1>2, Zenon DEF InsertConfig
  <2>3. cl[c].pc = "config" /\ \A n \in NodeId : node'[n] \in {node[n], Absent}
    BY <1>2 DEF InsertConfig
  <2> HIDE DEF m, f
  <2>4. Waiting(m) \subseteq Waiting(cl[c]) /\ Waiting(f) \subseteq Waiting(cl[c])
    BY <2>1, <2>3 DEF Waiting, NewNodes
  <2>5. QED
    BY <2>1, <2>2, <2>3, <2>4, NamesKept
<1>3. ASSUME NEW g \in GroupId, InsertGroup(c, g) PROVE NamesInv'
  <2> DEFINE m == [cl[c] EXCEPT !.todo = @ \ {g}]
             f == [m EXCEPT !.pc = "node"]
  <2>1. m \in State /\ m.pc = "group" /\ m.new = cl[c].new /\ f.pc = "node" /\ f.new = cl[c].new
    BY <1>1, <1>3 DEF InsertGroup, State
  <2>2. Become(c, m) \/ Become(c, f) \/ Become(c, ToPoint(m))
    BY <1>3, Zenon DEF InsertGroup
  <2>3. cl[c].pc = "group" /\ \A n \in NodeId : node'[n] \in {node[n], Absent}
    BY <1>3 DEF InsertGroup
  <2> HIDE DEF m, f
  <2>4. Waiting(m) \subseteq Waiting(cl[c]) /\ Waiting(f) \subseteq Waiting(cl[c])
    BY <2>1, <2>3 DEF Waiting, NewNodes
  <2>5. QED
    BY <2>1, <2>2, <2>3, <2>4, NamesKept, ToPointNames
<1>4. ASSUME NEW n \in NodeId, InsertNode(c, n) PROVE NamesInv'
  <2> DEFINE m == [cl[c] EXCEPT !.held = @ \ {n}]
             f == [m EXCEPT !.pc = "link", !.held = NewNodes(m)]
  <2>1. /\ m.pc = "node" /\ m.new = cl[c].new /\ m.held = cl[c].held \ {n}
        /\ f.pc = "link" /\ f.new = cl[c].new
    BY <1>1, <1>4 DEF InsertNode, State
  <2>2. cl[c].pc = "node" /\ n \in cl[c].held /\ (Become(c, m) \/ Become(c, f))
    BY <1>4, Zenon DEF InsertNode
  <2>3. n \in NewNodes(cl[c]) /\ n \in Waiting(cl[c])
    BY <1>1, <2>2 DEF Phased, Waiting
  <2> HIDE DEF f
  <2>4. \A k \in NodeId : node'[k] = IF k = n THEN cl[c].new[n] ELSE node[k]
    <3>1. node' = [node EXCEPT ![n] = m.new[n]]
      BY <1>4, Zenon DEF InsertNode
    <3> HIDE DEF m
    <3>2. QED
      BY <2>1, <3>1 DEF TypeInv, TypeOK
  <2> HIDE DEF m
  <2>5. \A k \in NodeId : node[k] # cl[c].new[n]
    BY <2>3 DEF NamesInv
  <2>6. NoDuplicateNodes'
    BY <2>4, <2>5 DEF NamesInv, NoDuplicateNodes
  <2>7. ASSUME NEW e \in {m, f}, Become(c, e) PROVE NamesInv'
    <3>1. e.new = cl[c].new /\ NewNodes(e) = NewNodes(cl[c])
      BY <2>1 DEF NewNodes
    <3>2. \A i, k \in NewNodes(e) : e.new[i] = e.new[k] => i = k
      BY <3>1 DEF NamesInv
    <3>3. Waiting(e) \subseteq Waiting(cl[c]) \ {n}
      BY <2>1, <2>2, <3>1 DEF Waiting
    <3>4. ASSUME NEW i \in Waiting(e), NEW k \in NodeId PROVE node'[k] # e.new[i]
      <4>1. i \in Waiting(cl[c]) /\ i # n /\ i \in NewNodes(cl[c])
        BY <3>3 DEF Waiting
      <4>2. node[k] # cl[c].new[i] /\ cl[c].new[n] # cl[c].new[i]
        BY <2>3, <4>1 DEF NamesInv
      <4>3. QED
        BY <2>4, <3>1, <4>2
    <3>5. IsAdder(c)
      BY <2>3 DEF NamesInv
    <3>6. QED
      BY <2>6, <2>7, <3>2, <3>4, <3>5, AdderNames
  <2>8. QED
    BY <2>2, <2>7
<1>5. ASSUME NEW n \in NodeId, InsertLink(c, n) PROVE NamesInv'
  <2> DEFINE m == [cl[c] EXCEPT !.held = @ \ {n}]
  <2>1. m \in State /\ m.pc = "link" /\ m.new = cl[c].new
    BY <1>1, <1>5 DEF InsertLink, State
  <2>2. Become(c, m) \/ Become(c, AfterAdd(m))
    BY <1>5, Zenon DEF InsertLink
  <2>3. \A k \in NodeId : node'[k] \in {node[k], Absent}
    BY <1>5 DEF InsertLink
  <2> HIDE DEF m
  <2>4. QED
    BY <2>1, <2>2, <2>3, QuietNames, AfterAddNames
<1>6. QED
  BY <1>2, <1>3, <1>4, <1>5

LEMMA UpdateNames ==
  ASSUME TypeInv, NamesInv, NEW c \in Client, UpdateStep(c)
  PROVE  NamesInv'
<1> DEFINE m == cl[c]
<1>1. /\ m \in State /\ Phased(m) /\ UNCHANGED node
      /\ \A n \in NodeId : node'[n] \in {node[n], Absent}
  <2>1. UNCHANGED node
    BY DEF UpdateStep, CheckUpdate, ReadOld, ReadGroups, ReadMembers, PlanUpdate, Purge, Point, tables
  <2>2. QED
    BY <2>1, OwnState, SameNodes DEF TypeInv
<1>2. CASE CheckUpdate(c)
  <2> DEFINE e == [m EXCEPT !.pc = "old"]
  <2>1. e.pc = "old" /\ e.new = m.new /\ (Become(c, e) \/ Become(c, Finish(m, "failed")))
    BY <1>1, <1>2 DEF CheckUpdate, State
  <2>2. QED
    BY <1>1, <2>1, QuietNames, FinishNames DEF Done
<1>3. CASE ReadOld(c)
  <2> DEFINE old == {n \in Rows(m.upd) : Joined(n)}
             e == [m EXCEPT !.pc = "groups", !.held = old]
  <2>1. Become(c, e) \/ Become(c, Finish(m, "failed"))
    BY <1>3, Zenon DEF ReadOld
  <2> HIDE DEF old
  <2>2. e.pc = "groups" /\ e.new = m.new
    BY <1>1 DEF State
  <2>3. QED
    BY <1>1, <2>1, <2>2, QuietNames, FinishNames DEF Done
<1>4. CASE ReadGroups(c)
  <2> DEFINE todo == {assign[n] : n \in m.held} \intersect group
             e == [m EXCEPT !.pc = "members", !.todo = todo]
  <2>1. Become(c, e)
    BY <1>4, Zenon DEF ReadGroups
  <2> HIDE DEF todo
  <2>2. e.pc = "members" /\ e.new = m.new
    BY <1>1 DEF State
  <2>3. QED
    BY <1>1, <2>1, <2>2, QuietNames
<1>5. CASE ReadMembers(c)
  <2> DEFINE joined == {g \in m.todo \intersect group : config[g] # Absent /\ Members(g) # {}}
             plan == [g \in GroupId |-> IF g \in joined THEN Members(g) ELSE {}]
             cfg == [g \in GroupId |-> IF g \in joined THEN config[g] ELSE Absent]
             e == [m EXCEPT !.pc = "reuse", !.todo = {}, !.plan = plan, !.cfg = cfg]
  <2>1. Become(c, e)
    BY <1>5, Zenon DEF ReadMembers
  <2> HIDE DEF plan, cfg
  <2>2. e.pc = "reuse" /\ e.new = m.new
    BY <1>1 DEF State
  <2>3. QED
    BY <1>1, <2>1, <2>2, QuietNames
<1>6. CASE PlanUpdate(c)
  <2>1. /\ m.pc = "reuse" /\ Enough(Unmet(m), GroupId \ UsedGroups) /\ group \subseteq GroupId
    BY <1>6, PlanIs DEF TypeInv, TypeOK
  <2>2. PICK same : /\ \A g \in Old(m) \ Unmet(m) : same[Due(m, g)] \in Similar(Due(m, g))
                    /\ Become(c, Planned(m, same))
    BY <1>6, PlanIs
  <2>3. Planned(m, same).pc = "purge" /\ Planned(m, same).new = m.new
    BY <1>1, <2>1, <2>2, PlannedFields
  <2>4. QED
    BY <1>1, <2>2, <2>3, QuietNames
<1>7. CASE Purge(c)
  <2> DEFINE f == [m EXCEPT !.drop = {}]
             e == [f EXCEPT !.pc = "config", !.todo = Made(f)]
  <2>1. Become(c, e) \/ Become(c, ToPoint(f))
    BY <1>7, Zenon DEF Purge
  <2>2. f \in State /\ f.new = m.new /\ e.pc = "config" /\ e.new = m.new
    BY <1>1 DEF State, Made
  <2>3. NewNodes(m) = {}
    BY <1>1, <1>7 DEF Phased, Updating, Purge
  <2>4. NewNodes(e) = {} /\ e.pc = "config"
    BY <2>2, <2>3 DEF NewNodes
  <2> HIDE DEF f, e
  <2>5. QED
    BY <1>1, <2>1, <2>2, <2>4, NamesKept, ToPointNames
<1>8. ASSUME NEW g \in GroupId, Point(c, g) PROVE NamesInv'
  <2> DEFINE e == [m EXCEPT !.todo = @ \ {g}]
  <2>1. Become(c, e) \/ Become(c, Finish(e, "ok"))
    BY <1>8, Zenon DEF Point
  <2>2. e.pc = "point" /\ e.new = m.new
    BY <1>1, <1>8 DEF Point, State
  <2> HIDE DEF e
  <2>3. QED
    BY <1>1, <2>1, <2>2, QuietNames, FinishNames DEF Done
<1>9. QED
  BY <1>2, <1>3, <1>4, <1>5, <1>6, <1>7, <1>8 DEF UpdateStep

LEMMA DeleteNames ==
  ASSUME TypeInv, NamesInv, NEW c \in Client, DeleteStep(c)
  PROVE  NamesInv'
<1> DEFINE m == cl[c]
<1>1. m \in State /\ \A n \in NodeId : node'[n] \in {node[n], Absent}
  <2>1. CASE DeleteNodes(c) \/ DeleteMembers(c)
    BY <2>1, OwnState DEF DeleteNodes, DeleteMembers
  <2>2. CASE UNCHANGED node
    BY <2>2, OwnState, SameNodes
  <2>3. QED
    BY <2>1, <2>2 DEF DeleteStep, DeleteLinks, DropGroups, DropConfigs, CountMembers,
                      DeleteConfigs, DeleteGroups, DeleteGroupLinks, tables
<1> DEFINE D(e) == e.pc \notin {"check", "list", "find", "similar", "config", "group", "node"}
<1>2. ASSUME NEW e, e.new = m.new, D(e), Become(c, e) PROVE NamesInv'
  BY <1>1, <1>2, QuietNames
<1>3. ASSUME NEW e, NEW pc \in Done, Become(c, Finish(e, pc)) PROVE NamesInv'
  BY <1>1, <1>3, FinishNames
<1>4. ASSUME NEW held, NEW todo, NEW drop,
             NEW pc \in {"unlink", "count", "dropgroups", "dropconfigs", "delgroups", "dellinks",
                         "delmembers"}
      PROVE  \A e \in {[m EXCEPT !.pc = pc, !.held = held], [m EXCEPT !.pc = pc, !.todo = todo],
                       [m EXCEPT !.pc = pc, !.drop = drop],
                       [m EXCEPT !.pc = pc, !.drop = drop, !.held = held]} :
               e.new = m.new /\ D(e)
  BY <1>1 DEF State
<1> HIDE DEF D
<1>5. "ok" \in Done /\ "failed" \in Done
  BY DEF Done
<1>6. CASE DeleteNodes(c)
  <2>1. \/ Become(c, Finish(m, "failed"))
        \/ Become(c, [m EXCEPT !.pc = "unlink", !.held = Rows(m.upd)])
    BY <1>6, Zenon DEF DeleteNodes
  <2>2. QED
    BY <1>2, <1>3, <1>4, <1>5, <2>1
<1>7. CASE DeleteLinks(c)
  <2>1. \/ Become(c, Finish(m, "ok"))
        \/ Become(c, [m EXCEPT !.pc = "count", !.todo = {assign[n] : n \in m.held} \ {Absent}])
    BY <1>7, Zenon DEF DeleteLinks
  <2>2. QED
    BY <1>2, <1>3, <1>4, <1>5, <2>1
<1>8. CASE DropGroups(c)
  <2>1. \/ Become(c, Finish(m, "failed"))
        \/ Become(c, [m EXCEPT !.pc = "dropconfigs", !.drop = m.drop \intersect group])
    BY <1>8, Zenon DEF DropGroups
  <2>2. QED
    BY <1>2, <1>3, <1>4, <1>5, <2>1
<1>9. CASE DeleteConfigs(c)
  <2>1. \E drop : Become(c, [m EXCEPT !.pc = "delgroups", !.drop = drop])
    BY <1>9, Zenon DEF DeleteConfigs
  <2>2. QED
    BY <1>2, <1>4, <2>1
<1>10. CASE DeleteGroups(c)
  <2>1. \E drop : Become(c, [m EXCEPT !.pc = "dellinks", !.drop = drop])
    BY <1>10, Zenon DEF DeleteGroups
  <2>2. QED
    BY <1>2, <1>4, <2>1
<1>11. CASE DeleteGroupLinks(c)
  <2>1. \E held : Become(c, [m EXCEPT !.pc = "delmembers", !.drop = {}, !.held = held])
    BY <1>11, Zenon DEF DeleteGroupLinks
  <2>2. QED
    BY <1>2, <1>4, <2>1
<1>12. CASE DropConfigs(c) \/ DeleteMembers(c)
  BY <1>3, <1>5, <1>12 DEF DropConfigs, DeleteMembers
<1>13. ASSUME NEW g \in GroupId, CountMembers(c, g) PROVE NamesInv'
  <2> DEFINE drop == IF Members(g) = {} THEN m.drop \union {g} ELSE m.drop
             e == [m EXCEPT !.todo = @ \ {g}, !.drop = drop]
             f == [e EXCEPT !.pc = "dropgroups"]
  <2>1. Become(c, e) \/ Become(c, Finish(e, "ok")) \/ Become(c, f)
    BY <1>13, Zenon DEF CountMembers
  <2> HIDE DEF drop
  <2>2. e.new = m.new /\ f.new = m.new /\ e.pc = "count" /\ f.pc = "dropgroups"
    BY <1>1, <1>13 DEF CountMembers, State
  <2>3. D(e) /\ D(f)
    BY <2>2 DEF D
  <2> HIDE DEF e, f
  <2>4. QED
    BY <1>2, <1>3, <1>5, <2>1, <2>2, <2>3
<1>14. QED
  BY <1>6, <1>7, <1>8, <1>9, <1>10, <1>11, <1>12, <1>13 DEF DeleteStep

LEMMA InitNames == Init => NamesInv
<1> SUFFICES ASSUME Init PROVE NamesInv
  OBVIOUS
<1>1. \A c \in Client : NewNodes(cl[c]) = {} /\ cl[c].pc = "idle"
  BY NoRequestTyped, BlankTyped DEF Init, Blank
<1>2. NoDuplicateNodes
  BY DEF Init, NoDuplicateNodes
<1>3. QED
  BY <1>1, <1>2 DEF NamesInv, Waiting

LEMMA StepNames == ASSUME LoneAdder PROVE TypeInv /\ NamesInv /\ [Next]_vars => NamesInv'
<1> SUFFICES ASSUME TypeInv, NamesInv, [Next]_vars PROVE NamesInv'
  OBVIOUS
<1>1. CASE UNCHANGED vars
  BY <1>1 DEF vars, tables, NamesInv, NoDuplicateNodes, Waiting, NewNodes
<1>2. ASSUME NEW c \in Client, Begin(c) \/ StatementFails(c) \/ CheckSet(c) \/ ListSet(c)
      PROVE  NamesInv'
  BY <1>2, SetNames
<1>3. ASSUME NEW c \in Client, AddStep(c) PROVE NamesInv'
  BY <1>3, FindNames, SimilarNames, InsertNames DEF AddStep
<1>4. ASSUME NEW c \in Client, UpdateStep(c) \/ DeleteStep(c) PROVE NamesInv'
  BY <1>4, UpdateNames, DeleteNames
<1>5. QED
  BY <1>1, <1>2, <1>3, <1>4 DEF Next

(* NoDuplicateNodes, if one client at most sends POSTs and PUTs: the check *)
(* for rows that exist, the making of names and ids and the inserts, each  *)
(* a statement of its own, put no second row for a node, whatever others   *)
(* patch and delete meanwhile and wherever a statement fails.              *)
THEOREM NodesDistinct == ASSUME LoneAdder PROVE Spec => []NoDuplicateNodes
<1>1. NamesInv => NoDuplicateNodes
  BY DEF NamesInv
<1>2. TypeInv /\ NamesInv /\ [Next]_vars => (TypeInv /\ NamesInv)'
  BY StepTyped, StepNames
<1>3. QED
  BY <1>1, <1>2, InitTyped, InitNames, PTL DEF Spec

-----------------------------------------------------------------------------
(* LinksResolve, when requests to delete come from a lone client, which    *)
(* names the nodes, and one client at most changes configurations.         *)
Changes(r) == r.method \in {"PUT", "PATCH"} /\ ~Empty(r)
LoneWriter ==
  \A c, d \in Client : c # d => \A r \in May[c], s \in May[d] :
    r.method # "DELETE" /\ ~(Changes(r) /\ Changes(s))
ByName == \A r \in Requests : r.method = "DELETE" => Targets(r) # {}

(* Where a handler is, by what it was asked and has planned.               *)
Planning(m) == \E g \in GroupId : m.plan[g] # {}
Course(c, m) ==
  /\ m.pc \notin Done => m.req \in May[c]
  /\ m.pc \in {"check", "list", "exist"} \/ (m.pc \notin Done /\ m.some) =>
       m.req.method \in {"PUT", "PATCH"}
  /\ m.pc \in {"old", "groups", "members", "reuse", "purge", "point"} => Changes(m.req)
  /\ m.pc \in {"config", "group"} /\ NewNodes(m) = {} /\ Planning(m) => Changes(m.req)
  /\ m.pc \in {"delnodes", "unlink", "count", "dropgroups", "dropconfigs"} =>
       m.req.method = "DELETE"
  /\ m.pc \notin {"delconfigs", "delgroups", "dellinks", "delmembers"}
  /\ m.pc \in {"check", "list", "find", "similar"} =>
       \A g \in GroupId : m.plan[g] = {} /\ m.cfg[g] = Absent
  /\ m.pc \in {"delnodes", "unlink", "purge"} => m.drop = {}
  /\ m.pc \in {"config", "group"} => m.todo \subseteq Made(m)
  /\ m.pc = "reuse" => \A g \in GroupId : m.plan[g] # {} => m.plan[g] \intersect m.held # {}
  /\ m.pc = "link" => m.held \subseteq NewNodes(m)
  /\ m.pc = "point" => NewNodes(m) = {}

(* The new nodes that are not assigned yet, and the group that the nodes   *)
(* planned for g are assigned to.                                          *)
Unlinked(m) ==
  {n \in NewNodes(m) : \/ m.pc \in {"similar", "config", "group", "node"}
                       \/ m.pc = "link" /\ n \in m.held}
Aim(m, g) == IF NewNodes(m) = {} THEN m.to[g] ELSE g

(* What a handler relies on in the tables: the group it aims at is whole   *)
(* or is one it makes, and before it assigns a node, whole; the nodes that *)
(* it read to update are there, some in each group it read; the groups     *)
(* that it drops are empty.                                                *)
Whole(g, gr, cf) == g \in gr /\ cf[g] # Absent
Facts(m, nd, as, gr, cf) ==
  /\ \A n \in Unlinked(m) : as[n] = Absent
  /\ m.pc \in {"groups", "members"} => \A n \in m.held : nd[n] # Absent /\ as[n] # Absent
  /\ m.pc = "members" => \A g \in m.todo : \E n \in m.held : as[n] = g
  /\ m.pc = "config" => \A g \in Made(m) \ m.todo : cf[g] # Absent
  /\ m.pc = "group" => \A g \in Made(m) : cf[g] # Absent /\ (g \in m.todo \/ g \in gr)
  /\ m.pc \in {"purge", "config", "group"} =>
       \A g \in GroupId : m.plan[g] # {} => Whole(Aim(m, g), gr, cf) \/ Aim(m, g) \in Made(m)
  /\ m.pc \in {"node", "link", "point"} =>
       \A g \in GroupId : m.plan[g] # {} => Whole(Aim(m, g), gr, cf)
  /\ m.pc \in {"count", "dropgroups", "dropconfigs"} =>
       \A g \in m.drop, n \in NodeId : nd[n] # Absent => as[n] # g

LinkInv ==
  /\ LinksResolve
  /\ \A c \in Client : Course(c, cl[c]) /\ Facts(cl[c], node, assign, group, config)
  /\ \A c, d \in Client : c # d => Unlinked(cl[c]) \intersect Unlinked(cl[d]) = {}

LEMMA DoneLinks ==
  ASSUME NEW c, NEW m, m.pc \in Done
  PROVE  /\ Course(c, m) /\ Unlinked(m) = {}
         /\ \A nd, as, gr, cf : Facts(m, nd, as, gr, cf)
<1>1. Unlinked(m) = {}
  BY DEF Unlinked, Done
<1>2. QED
  BY <1>1 DEF Course, Facts, Done

LEMMA LinkStep ==
  ASSUME TypeInv, LinkInv, NEW c \in Client, NEW m, Become(c, m),
         LinksResolve', Course(c, m), Facts(m, node', assign', group', config'),
         \A d \in Client : d # c => /\ Facts(cl[d], node', assign', group', config')
                                    /\ Unlinked(m) \intersect Unlinked(cl[d]) = {}
  PROVE  LinkInv'
<1>1. cl'[c] = m /\ \A d \in Client : d # c => cl'[d] = cl[d]
  BY OthersStay
<1>2. \A d \in Client : Course(d, cl'[d])
  BY <1>1, Zenon DEF LinkInv
<1>3. \A d \in Client : Facts(cl'[d], node', assign', group', config')
  BY <1>1, Zenon
<1>4. ASSUME NEW d \in Client, NEW e \in Client, d # e
      PROVE  Unlinked(cl'[d]) \intersect Unlinked(cl'[e]) = {}
  BY <1>1, <1>4 DEF LinkInv
<1>5. QED
  BY <1>2, <1>3, <1>4 DEF LinkInv

(* A statement that only reads.                                            *)
LEMMA QuietLinks ==
  ASSUME TypeInv, LinkInv, NEW c \in Client, NEW m, Become(c, m), UNCHANGED tables,
         Course(c, m), Facts(m, node, assign, group, config),
         \A d \in Client : d # c => Unlinked(m) \intersect Unlinked(cl[d]) = {}
  PROVE  LinkInv'
<1>1. node' = node /\ assign' = assign /\ group' = group /\ config' = config
  BY DEF tables
<1>2. LinksResolve'
  BY <1>1 DEF LinkInv, LinksResolve, Joined
<1>3. Facts(m, node', assign', group', config')
  BY <1>1
<1>4. \A d \in Client : Facts(cl[d], node', assign', group', config')
  BY <1>1 DEF LinkInv
<1>5. QED
  BY <1>2, <1>3, <1>4, LinkStep

LEMMA QuietDone ==
  ASSUME TypeInv, LinkInv, NEW c \in Client, NEW m, m.pc \in Done, Become(c, m), UNCHANGED tables
  PROVE  LinkInv'
<1>1. Course(c, m) /\ Unlinked(m) = {} /\ Facts(m, node, assign, group, config)
  BY DoneLinks
<1>2. QED
  BY <1>1, QuietLinks

(* A statement that takes nothing away: rows stay, a node that is assigned *)
(* stays assigned, where it was unless an update moves it, and of the      *)
(* others only the handler's own new nodes are assigned.                   *)
Tame(c) ==
  /\ \A g \in group : g \in group'
  /\ \A g \in GroupId : config[g] # Absent => config'[g] # Absent
  /\ \A n \in NodeId : node[n] # Absent => node'[n] # Absent
  /\ \A n \in NodeId : assign[n] # Absent => assign'[n] # Absent
  /\ ~Changes(cl[c].req) => \A n \in NodeId : assign[n] # Absent => assign'[n] = assign[n]
  /\ \A n \in NodeId : assign[n] = Absent /\ n \notin Unlinked(cl[c]) => assign'[n] = Absent

(* The requests of two handlers under way are not both updates, and none   *)
(* of them deletes.                                                        *)
LEMMA TwoWriters ==
  ASSUME LinkInv, LoneWriter, NEW c \in Client, NEW d \in Client, c # d,
         cl[c].pc \notin Done, cl[d].pc \notin Done
  PROVE  cl[d].req.method # "DELETE" /\ ~(Changes(cl[c].req) /\ Changes(cl[d].req))
<1>1. cl[c].req \in May[c] /\ cl[d].req \in May[d]
  BY DEF LinkInv, Course
<1>2. QED
  BY <1>1 DEF LoneWriter

LEMMA TameFacts ==
  ASSUME TypeInv, LinkInv, LoneWriter, NEW c \in Client, NEW d \in Client, c # d,
         cl[c].pc \notin Done, Tame(c)
  PROVE  Facts(cl[d], node', assign', group', config')
<1> DEFINE m == cl[d]
<1>1. CASE m.pc \in Done
  BY <1>1, DoneLinks
<1>2. CASE m.pc \notin Done
  <2>1. /\ m \in State /\ Course(d, m) /\ Facts(m, node, assign, group, config)
        /\ Unlinked(m) \intersect Unlinked(cl[c]) = {} /\ Unlinked(m) \subseteq NodeId
    BY OwnState DEF LinkInv, Unlinked, NewNodes
  <2>2. m.req.method # "DELETE" /\ (Changes(m.req) => ~Changes(cl[c].req))
    BY <1>2, TwoWriters
  <2> HIDE DEF m
  <2>3. \A n \in Unlinked(m) : assign'[n] = Absent
    BY <2>1 DEF Tame, Facts
  <2>4. m.held \subseteq NodeId
    BY <2>1 DEF State
  <2>5. m.pc \in {"groups", "members"} => \A n \in m.held : node'[n] # Absent /\ assign'[n] # Absent
    BY <2>1, <2>4 DEF Tame, Facts
  <2>6. m.pc = "members" => \A g \in m.todo : \E n \in m.held : assign'[n] = g
    <3> SUFFICES ASSUME m.pc = "members", NEW g \in m.todo PROVE \E n \in m.held : assign'[n] = g
      OBVIOUS
    <3>1. PICK n \in m.held : assign[n] = g
      BY <2>1 DEF Facts
    <3>2. assign[n] # Absent /\ Changes(m.req)
      BY <2>1 DEF Facts, Course
    <3>3. assign'[n] = assign[n]
      BY <2>2, <2>4, <3>2 DEF Tame
    <3>4. QED
      BY <3>1, <3>3
  <2>7. Made(m) \subseteq GroupId
    BY DEF Made
  <2>8. \A g \in GroupId : Whole(g, group, config) => Whole(g, group', config')
    BY DEF Whole, Tame
  <2>9. m.pc = "config" => \A g \in Made(m) \ m.todo : config'[g] # Absent
    BY <2>1, <2>7 DEF Tame, Facts
  <2>10. m.pc = "group" => \A g \in Made(m) : config'[g] # Absent /\ (g \in m.todo \/ g \in group')
    BY <2>1, <2>7 DEF Tame, Facts
  <2>11. \A g : Whole(g, group, config) => g \in GroupId
    BY DEF Whole, TypeInv, TypeOK
  <2>12. /\ m.pc \in {"purge", "config", "group"} =>
              \A g \in GroupId : m.plan[g] # {} =>
                Whole(Aim(m, g), group', config') \/ Aim(m, g) \in Made(m)
         /\ m.pc \in {"node", "link", "point"} =>
              \A g \in GroupId : m.plan[g] # {} => Whole(Aim(m, g), group', config')
    BY <2>1, <2>8, <2>11 DEF Facts
  <2>13. m.pc \notin {"count", "dropgroups", "dropconfigs"}
    BY <2>1, <2>2 DEF Course
  <2>14. QED
    BY <2>3, <2>5, <2>6, <2>9, <2>10, <2>12, <2>13 DEF Facts, m
<1>3. QED
  BY <1>1, <1>2

LEMMA TameStep ==
  ASSUME TypeInv, LinkInv, LoneWriter, NEW c \in Client, NEW m, Become(c, m), cl[c].pc \notin Done,
         Tame(c), LinksResolve', Course(c, m), Facts(m, node', assign', group', config'),
         Unlinked(m) \subseteq Unlinked(cl[c])
  PROVE  LinkInv'
<1>1. \A d \in Client : d # c => /\ Facts(cl[d], node', assign', group', config')
                                 /\ Unlinked(m) \intersect Unlinked(cl[d]) = {}
  BY TameFacts DEF LinkInv
<1>2. QED
  BY <1>1, LinkStep

(* While a request to delete is under way there is no other.               *)
LEMMA DeleteStepAlone ==
  ASSUME TypeInv, LinkInv, LoneWriter, NEW c \in Client, NEW m, Become(c, m), cl[c].pc \notin Done,
         cl[c].req.method = "DELETE",
         LinksResolve', Course(c, m), Facts(m, node', assign', group', config'), Unlinked(m) = {}
  PROVE  LinkInv'
<1>1. \A d \in Client : d # c => cl[d].pc \in Done
  BY TwoWriters
<1>2. \A d \in Client : d # c => Facts(cl[d], node', assign', group', config')
  BY <1>1, DoneLinks
<1>3. QED
  BY <1>2, LinkStep

LEMMA AfterAddLinks ==
  ASSUME NEW c \in Client, NEW m \in State, m.req \in May[c],
         m.some => m.req.method \in {"PUT", "PATCH"}
  PROVE  LET e == AfterAdd(m) IN
         /\ Course(c, e) /\ Unlinked(e) = {}
         /\ \A nd, as, gr, cf : Facts(e, nd, as, gr, cf)
<1> DEFINE e == AfterAdd(m)
<1>1. \/ e.pc \in Done
      \/ e.pc = "exist" /\ e.req = m.req /\ m.some /\ Bare(e)
  BY AfterAddIs
<1> HIDE DEF e
<1>2. CASE e.pc \in Done
  BY <1>2, DoneLinks DEF e
<1>3. CASE e.pc = "exist" /\ e.req = m.req /\ m.some /\ Bare(e)
  <2>1. Course(c, e)
    BY <1>3 DEF Course, Bare
  <2>2. Unlinked(e) = {}
    BY <1>3 DEF Unlinked
  <2>3. \A nd, as, gr, cf : Facts(e, nd, as, gr, cf)
    BY <1>3, <2>2 DEF Facts
  <2>4. QED
    BY <2>1, <2>2, <2>3 DEF e
<1>4. QED
  BY <1>1, <1>2, <1>3

(* Of a handler that is not done, the invariant as its step needs it.      *)
LEMMA OwnLinks ==
  ASSUME TypeInv, LinkInv, NEW c \in Client
  PROVE  /\ cl[c] \in State /\ Phased(cl[c]) /\ Course(c, cl[c])
         /\ Facts(cl[c], node, assign, group, config)
         /\ cl[c].pc \notin Done => cl[c].req \in May[c]
         /\ \A d \in Client : d # c => Unlinked(cl[c]) \intersect Unlinked(cl[d]) = {}
BY OwnState DEF LinkInv, Course, TypeInv

LEMMA FinishLinks ==
  ASSUME TypeInv, LinkInv, NEW c \in Client, NEW m, NEW pc \in Done, Become(c, Finish(m, pc)),
         UNCHANGED tables
  PROVE  LinkInv'
BY FinishIs, QuietDone

LEMMA BeginLinks ==
  ASSUME TypeInv, LinkInv, ByName, NEW c \in Client, Begin(c)
  PROVE  LinkInv'
<1>1. PICK r \in May[c] : Become(c, Start(r))
  BY DEF Begin
<1>2. r \in Requests /\ r \in Request /\ (r.method = "DELETE" => Targets(r) # {})
  BY SqlAssumption, RequestAssumption DEF ByName
<1> DEFINE e == Start(r)
<1>3. \/ e.pc \in Done
      \/ /\ e.req = r /\ Bare(e)
         /\ \/ e.pc = "find" /\ r.method = "POST"
            \/ e.pc = "check" /\ r.method = "PUT" /\ ~Empty(r)
            \/ e.pc = "exist" /\ r.method = "PATCH"
            \/ e.pc = "delnodes" /\ r.method = "DELETE"
  BY <1>2, StartIs
<1> HIDE DEF e
<1>4. CASE e.pc \in Done
  BY <1>1, <1>4, QuietDone DEF Begin, e
<1>5. CASE e.pc \notin Done
  <2>1. Course(c, e)
    BY <1>1, <1>3, <1>5 DEF Course, Bare
  <2>2. Unlinked(e) = {}
    BY <1>3, <1>5 DEF Unlinked
  <2>3. Facts(e, node, assign, group, config)
    BY <1>3, <1>5, <2>2 DEF Facts
  <2>4. QED
    BY <1>1, <2>1, <2>2, <2>3, QuietLinks DEF Begin, e
<1>6. QED
  BY <1>4, <1>5

LEMMA SetLinks ==
  ASSUME TypeInv, LinkInv, NEW c \in Client, StatementFails(c) \/ CheckSet(c) \/ ListSet(c)
  PROVE  LinkInv'
<1> DEFINE m == cl[c]
<1>1. m \in State /\ Course(c, m) /\ UNCHANGED tables
  BY OwnLinks DEF StatementFails, CheckSet, ListSet
<1>2. CASE StatementFails(c)
  BY <1>1, <1>2, FinishLinks DEF StatementFails, Done
<1>3. CASE CheckSet(c)
  <2> DEFINE add == Missing(AllNames(m.req))
             e == [m EXCEPT !.pc = "list", !.add = add]
  <2>1. Become(c, e) /\ m.pc = "check"
    BY <1>3 DEF CheckSet
  <2> HIDE DEF add
  <2>2. e.pc = "list" /\ e.req = m.req /\ e.plan = m.plan /\ e.cfg = m.cfg
    BY <1>1 DEF State
  <2> HIDE DEF e
  <2>3. Course(c, e)
    BY <1>1, <2>1, <2>2 DEF Course, Done
  <2>4. Unlinked(e) = {}
    BY <2>2 DEF Unlinked
  <2>5. Facts(e, node, assign, group, config)
    BY <2>2, <2>4 DEF Facts
  <2>6. QED
    BY <1>1, <2>1, <2>3, <2>4, <2>5, QuietLinks
<1>4. CASE ListSet(c)
  <2> DEFINE found == Rows(AllNames(m.req))
             upd == {node[n] : n \in found} \ {ZeroNid}
             some == found # {}
             e == [m EXCEPT !.upd = upd, !.some = some]
             f == [e EXCEPT !.pc = "find"]
  <2>1. m.pc = "list" /\ (Become(c, f) \/ Become(c, AfterAdd(e)))
    BY <1>4 DEF ListSet
  <2>2. upd \subseteq Name /\ some \in BOOLEAN
    BY DEF Rows, TypeInv, TypeOK
  <2> HIDE DEF upd, some
  <2>3. e \in State /\ e.req = m.req /\ e.plan = m.plan /\ e.cfg = m.cfg
    BY <1>1, <2>2 DEF State
  <2> HIDE DEF e
  <2>4. f.pc = "find" /\ f.req = m.req /\ f.plan = m.plan /\ f.cfg = m.cfg
    BY <2>3 DEF State
  <2> HIDE DEF f
  <2>5. m.req \in May[c] /\ m.req.method \in {"PUT", "PATCH"}
    BY <1>1, <2>1 DEF Course, Done
  <2>6. Course(c, f)
    BY <1>1, <2>1, <2>4, <2>5 DEF Course, Done
  <2>7. Unlinked(f) = {}
    BY <2>4 DEF Unlinked
  <2>8. Facts(f, node, assign, group, config)
    BY <2>4, <2>7 DEF Facts
  <2>9. CASE Become(c, f)
    BY <1>1, <2>6, <2>7, <2>8, <2>9, QuietLinks
  <2>10. CASE Become(c, AfterAdd(e))
    <3>1. /\ Course(c, AfterAdd(e)) /\ Unlinked(AfterAdd(e)) = {}
          /\ Facts(AfterAdd(e), node, assign, group, config)
      BY <2>3, <2>5, AfterAddLinks
    <3>2. QED
      BY <1>1, <2>10, <3>1, QuietLinks
  <2>11. QED
    BY <2>1, <2>9, <2>10
<1>5. QED
  BY <1>2, <1>3, <1>4

(* The ids of the new nodes are nobody's: no row, no assignment and no     *)
(* other handler has them.                                                 *)
LEMMA FindLinks ==
  ASSUME TypeInv, LinkInv, NEW c \in Client, FindNodes(c)
  PROVE  LinkInv'
<1> DEFINE m == cl[c]
           names == Missing(AddPart(m.add))
           ids == Fresh(names, NodeId \ UsedNodes)
           new == NewOf(names, ids)
           e == [m EXCEPT !.pc = "similar", !.new = new]
<1>1. /\ m \in State /\ m.add \in SUBSET Name /\ m.pc = "find" /\ UNCHANGED tables
      /\ Course(c, m)
  BY OwnLinks, FindIs DEF State
<1>2. names \in SUBSET Name
  BY <1>1, MissingNames
<1>3. \/ Become(c, AfterAdd(m)) \/ Become(c, Finish(m, "failed"))
      \/ Enough(names, NodeId \ UsedNodes) /\ Become(c, e)
  BY FindIs
<1>4. Enough(names, NodeId \ UsedNodes) => ids \in [names -> NodeId \ UsedNodes]
  BY FreshIs
<1> HIDE DEF names, ids
<1>5. \A n \in NodeId : new[n] # None => new[n] \in names /\ ids[new[n]] = n
  BY <1>2, NewTyped
<1> HIDE DEF new
<1>6. /\ e.pc = "similar" /\ e.new = new /\ e.req = m.req /\ e.plan = m.plan /\ e.cfg = m.cfg
      /\ e.some = m.some
  BY <1>1 DEF State
<1> HIDE DEF e
<1>7. ASSUME Enough(names, NodeId \ UsedNodes), Become(c, e) PROVE LinkInv'
  <2>1. \A n \in NewNodes(e) : n \in NodeId \ UsedNodes
    BY <1>4, <1>5, <1>6, <1>7 DEF NewNodes
  <2>2. \A n \in NewNodes(e) : n \in NodeId /\ assign[n] = Absent /\ \A d \in Client : cl[d].new[n] = None
    BY <2>1 DEF UsedNodes
  <2>3. Unlinked(e) \subseteq NewNodes(e)
    BY DEF Unlinked
  <2>4. \A d \in Client : Unlinked(e) \intersect Unlinked(cl[d]) = {}
    BY <2>2, <2>3 DEF Unlinked, NewNodes
  <2>5. Course(c, e)
    BY <1>1, <1>6 DEF Course, Done
  <2>6. Facts(e, node, assign, group, config)
    BY <1>6, <2>2, <2>3 DEF Facts
  <2>7. QED
    BY <1>1, <1>7, <2>4, <2>5, <2>6, QuietLinks
<1>8. CASE Become(c, AfterAdd(m))
  <2>1. m.req \in May[c] /\ (m.some => m.req.method \in {"PUT", "PATCH"})
    BY <1>1 DEF Course, Done
  <2>2. /\ Course(c, AfterAdd(m)) /\ Unlinked(AfterAdd(m)) = {}
        /\ Facts(AfterAdd(m), node, assign, group, config)
    BY <1>1, <2>1, AfterAddLinks
  <2>3. QED
    BY <1>1, <1>8, <2>2, QuietLinks
<1>9. QED
  BY <1>1, <1>3, <1>7, <1>8, FinishLinks DEF Done

LEMMA SimilarLinks ==
  ASSUME TypeInv, LinkInv, NEW c \in Client, FindSimilar(c)
  PROVE  LinkInv'
<1> DEFINE m == cl[c]
<1>1. /\ m \in State /\ m.pc = "similar" /\ UNCHANGED tables /\ Course(c, m) /\ m.req \in Request
      /\ Facts(m, node, assign, group, config)
      /\ \A d \in Client : d # c => Unlinked(m) \intersect Unlinked(cl[d]) = {}
  BY OwnLinks, OwnState, SimilarIs
<1>2. ASSUME NEW e, NEW g \in GroupId, Become(c, e), e.req = m.req, e.some = m.some, e.new = m.new,
             \A h \in GroupId : e.plan[h] = IF h = g THEN NewNodes(m) ELSE {},
             \/ e.pc = "node" /\ Whole(g, group, config)
             \/ e.pc = "config" /\ e.todo = {g} /\ Made(e) = {g}
      PROVE  LinkInv'
  <2>1. NewNodes(e) = NewNodes(m) /\ Unlinked(e) = Unlinked(m)
    BY <1>1, <1>2 DEF NewNodes, Unlinked
  <2>2. ~(NewNodes(e) = {} /\ Planning(e))
    BY <1>2, <2>1 DEF Planning
  <2>3. Course(c, e)
    BY <1>1, <1>2, <2>2 DEF Course, Done
  <2>4. \A h \in GroupId : e.plan[h] # {} => Aim(e, h) = g
    BY <1>2, <2>1 DEF Aim
  <2>5. Facts(e, node, assign, group, config)
    BY <1>1, <1>2, <2>1, <2>4 DEF Facts
  <2>6. QED
    BY <1>1, <1>2, <2>1, <2>3, <2>5, QuietLinks
<1>3. ASSUME NEW g \in GroupId
      PROVE  LET f == PlanFor(m, g) IN
             /\ f \in State /\ f.req = m.req /\ f.new = m.new /\ f.some = m.some
             /\ \A h \in GroupId : f.plan[h] = IF h = g THEN NewNodes(m) ELSE {}
             /\ \A h \in GroupId : f.cfg[h] = Absent
  <2>1. PlanFor(m, g).some = m.some
    BY <1>1 DEF PlanFor, State
  <2>2. \A h \in GroupId : m.plan[h] = {} /\ m.cfg[h] = Absent
    BY <1>1 DEF Course
  <2>3. LET f == PlanFor(m, g) IN
        /\ f \in State /\ f.req = m.req /\ f.new = m.new /\ f.cfg = m.cfg
        /\ \A h \in GroupId : f.plan[h] = IF h = g THEN NewNodes(m) ELSE m.plan[h]
    BY <1>1, PlanForTyped
  <2>4. QED
    BY <2>1, <2>2, <2>3
<1>4. ASSUME NEW g \in Similar(Asked(m.req)), Become(c, [PlanFor(m, g) EXCEPT !.pc = "node"])
      PROVE  LinkInv'
  <2> DEFINE f == PlanFor(m, g)
             e == [f EXCEPT !.pc = "node"]
  <2>1. g \in GroupId /\ Whole(g, group, config)
    BY <1>1, RequestTyped DEF Similar, Whole, TypeInv, TypeOK
  <2>2. /\ f \in State /\ f.req = m.req /\ f.new = m.new /\ f.some = m.some
        /\ \A h \in GroupId : f.plan[h] = IF h = g THEN NewNodes(m) ELSE {}
    BY <1>3, <2>1
  <2>3. Become(c, e)
    BY <1>4
  <2> HIDE DEF f
  <2>4. e.pc = "node" /\ e.req = m.req /\ e.new = m.new /\ e.some = m.some /\ e.plan = f.plan
    BY <2>2 DEF State
  <2> HIDE DEF e
  <2>5. QED
    BY <1>2, <2>1, <2>2, <2>3, <2>4
<1>5. ASSUME NEW g \in GroupId \ UsedGroups,
             Become(c, [PlanFor(m, g) EXCEPT !.pc = "config", !.todo = {g},
                                             !.cfg[g] = Asked(m.req)])
      PROVE  LinkInv'
  <2> DEFINE f == PlanFor(m, g)
             e == [f EXCEPT !.pc = "config", !.todo = {g}, !.cfg[g] = Asked(m.req)]
  <2>1. /\ f \in State /\ f.req = m.req /\ f.new = m.new /\ f.some = m.some
        /\ \A h \in GroupId : f.plan[h] = IF h = g THEN NewNodes(m) ELSE {}
        /\ \A h \in GroupId : f.cfg[h] = Absent
    BY <1>3
  <2>2. Become(c, e) /\ Asked(m.req) # Absent
    BY <1>1, <1>5, RequestTyped
  <2> HIDE DEF f
  <2>3. /\ e.pc = "config" /\ e.req = m.req /\ e.new = m.new /\ e.some = m.some /\ e.plan = f.plan
        /\ e.todo = {g} /\ e.cfg = [f.cfg EXCEPT ![g] = Asked(m.req)]
    BY <2>1 DEF State
  <2> HIDE DEF e
  <2>4. \A h \in GroupId : e.cfg[h] = IF h = g THEN Asked(m.req) ELSE Absent
    BY <2>1, <2>3 DEF State
  <2>5. Made(e) = {g}
    BY <2>2, <2>4 DEF Made
  <2>6. QED
    BY <1>2, <2>1, <2>2, <2>3, <2>5
<1>6. QED
  BY <1>1, <1>4, <1>5, SimilarIs, FinishLinks DEF Done

LEMMA ToPointLinks ==
  ASSUME NEW c \in Client, NEW m \in State, m.req \in May[c], NewNodes(m) = {},
         Planning(m) => Changes(m.req),
         NEW nd, NEW as, NEW gr, NEW cf,
         \A g \in GroupId : m.plan[g] # {} => Whole(m.to[g], gr, cf)
  PROVE  LET e == ToPoint(m) IN Course(c, e) /\ Unlinked(e) = {} /\ Facts(e, nd, as, gr, cf)
<1> DEFINE e == ToPoint(m)
<1>1. \/ e.pc \in Done
      \/ /\ e.pc = "point" /\ e.req = m.req /\ e.new = m.new
         /\ e.plan = m.plan /\ e.to = m.to /\ Planning(m)
  BY ToPointIs DEF Planning
<1> HIDE DEF e
<1>2. CASE e.pc \in Done
  BY <1>2, DoneLinks DEF e
<1>3. CASE e.pc # "point"
  BY <1>1, <1>2, <1>3
<1>4. CASE e.pc = "point"
  <2>1. e.req = m.req /\ e.new = m.new /\ e.plan = m.plan /\ e.to = m.to /\ Planning(m)
    BY <1>1, <1>4 DEF Done
  <2>2. NewNodes(e) = {}
    BY <2>1 DEF NewNodes
  <2>3. Course(c, e)
    BY <1>4, <2>1, <2>2 DEF Course, Changes
  <2>4. Unlinked(e) = {}
    BY <2>2 DEF Unlinked
  <2>5. Facts(e, nd, as, gr, cf)
    BY <1>4, <2>1, <2>2, <2>4 DEF Facts, Aim
  <2>6. QED
    BY <2>3, <2>4, <2>5 DEF e
<1>5. QED
  BY <1>3, <1>4

(* The tables after a config, and after a group, is inserted.              *)
LEMMA MoreTame ==
  ASSUME TypeInv, NEW c \in Client, UNCHANGED <<node, assign>>, \A g \in group : g \in group',
         \A g \in GroupId : config[g] # Absent => config'[g] # Absent
  PROVE  /\ Tame(c) /\ (LinksResolve => LinksResolve')
         /\ \A g \in GroupId : Whole(g, group, config) => Whole(g, group', config')
<1>1. Tame(c)
  BY DEF Tame
<1>2. assign \in [NodeId -> GroupId \union {Absent}]
  BY DEF TypeInv, TypeOK
<1>3. LinksResolve => LinksResolve'
  BY <1>2 DEF LinksResolve, Joined
<1>4. QED
  BY <1>1, <1>3 DEF Whole

LEMMA InsertConfigLinks ==
  ASSUME TypeInv, LinkInv, LoneWriter, NEW c \in Client, NEW g \in GroupId, InsertConfig(c, g)
  PROVE  LinkInv'
<1> DEFINE i == cl[c]
           m == [i EXCEPT !.todo = @ \ {g}]
           f == [m EXCEPT !.pc = "group", !.todo = Made(m)]
<1>1. /\ i \in State /\ Phased(i) /\ i.pc = "config" /\ g \in i.todo
      /\ Course(c, i) /\ Facts(i, node, assign, group, config)
      /\ UNCHANGED <<node, assign, group>>
  BY OwnLinks DEF InsertConfig
<1>2. (m.todo # {} /\ Become(c, m)) \/ (m.todo = {} /\ Become(c, f))
  BY Zenon DEF InsertConfig
<1>3. /\ m \in State /\ m.pc = "config" /\ m.req = i.req /\ m.new = i.new /\ m.some = i.some
      /\ m.plan = i.plan /\ m.to = i.to /\ m.cfg = i.cfg /\ m.todo = i.todo \ {g}
  BY <1>1 DEF State
<1>4. config' = [config EXCEPT ![g] = m.cfg[g]]
  BY Zenon DEF InsertConfig
<1> HIDE DEF m
<1>5. /\ f.pc = "group" /\ f.req = i.req /\ f.new = i.new /\ f.some = i.some
      /\ f.plan = i.plan /\ f.to = i.to /\ f.cfg = i.cfg /\ f.todo = Made(m)
  BY <1>3 DEF State, Made
<1> HIDE DEF f, i
<1>6. g \in Made(i) /\ i.cfg[g] # Absent
  BY <1>1 DEF Course, Made
<1>7. \A h \in GroupId : config'[h] = IF h = g THEN i.cfg[g] ELSE config[h]
  BY <1>3, <1>4 DEF TypeInv, TypeOK
<1>8. Tame(c) /\ LinksResolve' /\ \A h \in GroupId : Whole(h, group, config) => Whole(h, group', config')
  BY <1>1, <1>6, <1>7, MoreTame DEF LinkInv
<1>9. group \subseteq GroupId
  BY DEF TypeInv, TypeOK
<1>10. ASSUME NEW e \in {m, f}
       PROVE  /\ NewNodes(e) = NewNodes(i) /\ Made(e) = Made(i) /\ (Planning(e) => Planning(i))
              /\ Unlinked(e) = Unlinked(i) /\ \A h \in GroupId : Aim(e, h) = Aim(i, h)
  <2>1. e.new = i.new /\ e.plan = i.plan /\ e.cfg = i.cfg /\ e.to = i.to /\ e.pc \in {"config", "group"}
    BY <1>3, <1>5
  <2>2. NewNodes(e) = NewNodes(i) /\ Made(e) = Made(i) /\ (Planning(e) => Planning(i))
    BY <2>1 DEF NewNodes, Made, Planning
  <2>3. QED
    BY <1>1, <2>1, <2>2 DEF Unlinked, Aim
<1>11. \A h \in Made(i) \ m.todo : config'[h] # Absent
  BY <1>1, <1>3, <1>6, <1>7 DEF Facts, Made
<1>12. \A h \in GroupId : i.plan[h] # {} => Whole(Aim(i, h), group', config') \/ Aim(i, h) \in Made(i)
  BY <1>1, <1>8, <1>9 DEF Facts, Whole
<1>13. i.todo \subseteq Made(i) /\ \A n \in Unlinked(i) : assign'[n] = Absent
  BY <1>1 DEF Course, Facts
<1>14. Course(c, m)
  BY <1>1, <1>3, <1>10, <1>13 DEF Course, Done
<1>15. Facts(m, node', assign', group', config')
  BY <1>3, <1>10, <1>11, <1>12, <1>13 DEF Facts
<1>16. Course(c, f)
  BY <1>1, <1>5, <1>10, <1>13 DEF Course, Done
<1>17. ASSUME m.todo = {} PROVE Facts(f, node', assign', group', config')
  BY <1>5, <1>10, <1>11, <1>12, <1>13, <1>17 DEF Facts
<1>18. cl[c].pc \notin Done /\ Unlinked(m) \subseteq Unlinked(cl[c]) /\ Unlinked(f) \subseteq Unlinked(cl[c])
  BY <1>1, <1>10 DEF Done, i
<1>19. QED
  BY <1>2, <1>8, <1>14, <1>15, <1>16, <1>17, <1>18, TameStep

LEMMA InsertGroupLinks ==
  ASSUME TypeInv, LinkInv, LoneWriter, NEW c \in Client, NEW g \in GroupId, InsertGroup(c, g)
  PROVE  LinkInv'
<1> DEFINE i == cl[c]
           m == [i EXCEPT !.todo = @ \ {g}]
           f == [m EXCEPT !.pc = "node"]
<1>1. /\ i \in State /\ Phased(i) /\ i.pc = "group" /\ g \in i.todo
      /\ Course(c, i) /\ Facts(i, node, assign, group, config)
      /\ UNCHANGED <<node, assign, config>> /\ group' = group \union {g}
  BY OwnLinks DEF InsertGroup
<1>2. \/ m.todo # {} /\ Become(c, m)
      \/ m.todo = {} /\ NewNodes(m) # {} /\ Become(c, f)
      \/ m.todo = {} /\ NewNodes(m) = {} /\ Become(c, ToPoint(m))
  BY Zenon DEF InsertGroup
<1>3. /\ m \in State /\ m.pc = "group" /\ m.req = i.req /\ m.new = i.new /\ m.some = i.some
      /\ m.plan = i.plan /\ m.to = i.to /\ m.cfg = i.cfg /\ m.todo = i.todo \ {g}
  BY <1>1 DEF State
<1> HIDE DEF m
<1>4. /\ f.pc = "node" /\ f.req = i.req /\ f.new = i.new /\ f.some = i.some
      /\ f.plan = i.plan /\ f.to = i.to /\ f.cfg = i.cfg
  BY <1>3 DEF State
<1> HIDE DEF f, i
<1>5. Tame(c) /\ LinksResolve' /\ \A h \in GroupId : Whole(h, group, config) => Whole(h, group', config')
  BY <1>1, MoreTame DEF LinkInv
<1>6. group \subseteq GroupId
  BY DEF TypeInv, TypeOK
<1>7. ASSUME NEW e \in {m, f}
      PROVE  /\ NewNodes(e) = NewNodes(i) /\ Made(e) = Made(i) /\ (Planning(e) => Planning(i))
             /\ Unlinked(e) = Unlinked(i) /\ \A h \in GroupId : Aim(e, h) = Aim(i, h)
  <2>1. e.new = i.new /\ e.plan = i.plan /\ e.cfg = i.cfg /\ e.to = i.to /\ e.pc \in {"group", "node"}
    BY <1>3, <1>4
  <2>2. NewNodes(e) = NewNodes(i) /\ Made(e) = Made(i) /\ (Planning(e) => Planning(i))
    BY <2>1 DEF NewNodes, Made, Planning
  <2>3. QED
    BY <1>1, <2>1, <2>2 DEF Unlinked, Aim
<1>8. \A h \in Made(i) : config'[h] # Absent /\ (h \in m.todo \/ h \in group')
  BY <1>1, <1>3 DEF Facts
<1>9. \A h \in GroupId : i.plan[h] # {} => Whole(Aim(i, h), group', config') \/ Aim(i, h) \in Made(i)
  BY <1>1, <1>5, <1>6 DEF Facts, Whole
<1>10. i.todo \subseteq Made(i) /\ \A n \in Unlinked(i) : assign'[n] = Absent
  BY <1>1 DEF Course, Facts
<1>11. cl[c].pc \notin Done /\ Unlinked(m) \subseteq Unlinked(cl[c]) /\ Unlinked(f) \subseteq Unlinked(cl[c])
  BY <1>1, <1>7 DEF Done, i
<1>12. CASE m.todo # {} /\ Become(c, m)
  <2>1. Course(c, m)
    BY <1>1, <1>3, <1>7, <1>10 DEF Course, Done
  <2>2. Facts(m, node', assign', group', config')
    BY <1>3, <1>7, <1>8, <1>9, <1>10 DEF Facts
  <2>3. QED
    BY <1>5, <1>11, <1>12, <2>1, <2>2, TameStep
<1>13. ASSUME m.todo = {}
       PROVE  \A h \in GroupId : i.plan[h] # {} => Whole(Aim(i, h), group', config')
  BY <1>8, <1>9, <1>13 DEF Whole
<1>14. CASE m.todo = {} /\ NewNodes(m) # {} /\ Become(c, f)
  <2>1. Course(c, f)
    BY <1>1, <1>4 DEF Course, Done
  <2>2. Facts(f, node', assign', group', config')
    BY <1>4, <1>7, <1>10, <1>13, <1>14 DEF Facts
  <2>3. QED
    BY <1>5, <1>11, <1>14, <2>1, <2>2, TameStep
<1>15. CASE m.todo = {} /\ NewNodes(m) = {} /\ Become(c, ToPoint(m))
  <2>1. m.req \in May[c] /\ (Planning(m) => Changes(m.req))
    BY <1>1, <1>3, <1>7, <1>15 DEF Course, Done
  <2>2. \A h \in GroupId : m.plan[h] # {} => Whole(m.to[h], group', config')
    BY <1>3, <1>7, <1>13, <1>15 DEF Aim
  <2>3. /\ Course(c, ToPoint(m)) /\ Unlinked(ToPoint(m)) = {}
        /\ Facts(ToPoint(m), node', assign', group', config')
    BY <1>3, <1>15, <2>1, <2>2, ToPointLinks
  <2>4. QED
    BY <1>5, <1>11, <1>15, <2>3, TameStep
<1>16. QED
  BY <1>2, <1>12, <1>14, <1>15

LEMMA InsertNodeLinks ==
  ASSUME TypeInv, LinkInv, LoneWriter, NEW c \in Client, NEW n \in NodeId, InsertNode(c, n)
  PROVE  LinkInv'
<1> DEFINE i == cl[c]
           m == [i EXCEPT !.held = @ \ {n}]
           f == [m EXCEPT !.pc = "link", !.held = NewNodes(m)]
<1>1. /\ i \in State /\ Phased(i) /\ i.pc = "node" /\ n \in i.held
      /\ Course(c, i) /\ Facts(i, node, assign, group, config)
      /\ UNCHANGED <<assign, group, config>>
  BY OwnLinks DEF InsertNode
<1>2. Become(c, m) \/ Become(c, f)
  BY Zenon DEF InsertNode
<1>3. /\ m \in State /\ m.pc = "node" /\ m.req = i.req /\ m.new = i.new /\ m.some = i.some
      /\ m.plan = i.plan /\ m.to = i.to
  BY <1>1 DEF State
<1>4. node' = [node EXCEPT ![n] = m.new[n]]
  BY Zenon DEF InsertNode
<1> HIDE DEF m
<1>5. /\ f.pc = "link" /\ f.req = i.req /\ f.new = i.new /\ f.some = i.some
      /\ f.plan = i.plan /\ f.to = i.to /\ f.held = NewNodes(m)
  BY <1>3 DEF State, NewNodes
<1> HIDE DEF f, i
<1>6. n \in NewNodes(i) /\ n \in Unlinked(i)
  BY <1>1 DEF Phased, Unlinked
<1>7. assign[n] = Absent /\ i.new[n] \in Name
  BY <1>1, <1>6 DEF Facts, NewNodes, State
<1>8. \A k \in NodeId : node'[k] = IF k = n THEN i.new[n] ELSE node[k]
  BY <1>3, <1>4 DEF TypeInv, TypeOK
<1>9. LinksResolve'
  BY <1>1, <1>7, <1>8 DEF LinkInv, LinksResolve, Joined
<1>10. Tame(c)
  BY <1>1, <1>7, <1>8, SqlAssumption DEF Tame
<1>11. ASSUME NEW e \in {m, f}
       PROVE  /\ NewNodes(e) = NewNodes(i) /\ Unlinked(e) \subseteq Unlinked(i)
              /\ \A h \in GroupId : Aim(e, h) = Aim(i, h)
  <2>1. e.new = i.new /\ e.to = i.to
    BY <1>3, <1>5
  <2>2. NewNodes(e) = NewNodes(i)
    BY <2>1 DEF NewNodes
  <2>3. QED
    BY <1>1, <2>1, <2>2 DEF Unlinked, Aim
<1>12. Course(c, m) /\ Course(c, f)
  BY <1>1, <1>3, <1>5, <1>11 DEF Course, Done
<1>13. /\ \A h \in GroupId : i.plan[h] # {} => Whole(Aim(i, h), group', config')
       /\ \A k \in Unlinked(i) : assign'[k] = Absent
  BY <1>1 DEF Facts
<1>14. Facts(m, node', assign', group', config')
  BY <1>3, <1>11, <1>13 DEF Facts
<1>15. Facts(f, node', assign', group', config')
  BY <1>5, <1>11, <1>13 DEF Facts
<1>16. cl[c].pc \notin Done /\ Unlinked(m) \subseteq Unlinked(cl[c]) /\ Unlinked(f) \subseteq Unlinked(cl[c])
  BY <1>1, <1>11 DEF Done, i
<1>17. QED
  BY <1>2, <1>9, <1>10, <1>12, <1>14, <1>15, <1>16, TameStep

LEMMA InsertLinkLinks ==
  ASSUME TypeInv, LinkInv, LoneWriter, NEW c \in Client, NEW n \in NodeId, InsertLink(c, n)
  PROVE  LinkInv'
<1> DEFINE i == cl[c]
           m == [i EXCEPT !.held = @ \ {n}]
<1>1. /\ i \in State /\ i.pc = "link" /\ n \in i.held
      /\ Course(c, i) /\ Facts(i, node, assign, group, config)
      /\ UNCHANGED <<node, group, config>>
  BY OwnLinks DEF InsertLink
<1>2. Become(c, m) \/ Become(c, AfterAdd(m))
  BY Zenon DEF InsertLink
<1>3. /\ m \in State /\ m.pc = "link" /\ m.req = i.req /\ m.new = i.new /\ m.some = i.some
      /\ m.plan = i.plan /\ m.to = i.to /\ m.held = i.held \ {n}
  BY <1>1 DEF State
<1>4. PICK g \in GroupId : n \in m.plan[g] /\ assign' = [assign EXCEPT ![n] = g]
  BY DEF InsertLink
<1> HIDE DEF m, i
<1>5. n \in NewNodes(i) /\ n \in Unlinked(i)
  BY <1>1 DEF Course, Unlinked
<1>6. Whole(g, group, config) /\ g # Absent
  BY <1>1, <1>3, <1>4, <1>5, SqlAssumption DEF Facts, Aim
<1>7. \A k \in NodeId : assign'[k] = IF k = n THEN g ELSE assign[k]
  BY <1>4 DEF TypeInv, TypeOK
<1>8. LinksResolve'
  BY <1>1, <1>6, <1>7 DEF LinkInv, LinksResolve, Joined, Whole
<1>9. assign[n] = Absent
  BY <1>1, <1>5 DEF Facts
<1>10. Unlinked(cl[c]) = Unlinked(i)
  BY DEF i
<1>11. Tame(c)
  BY <1>1, <1>5, <1>6, <1>7, <1>9, <1>10 DEF Tame
<1>12. /\ NewNodes(m) = NewNodes(i) /\ Unlinked(m) \subseteq Unlinked(i) \ {n}
       /\ \A h \in GroupId : Aim(m, h) = Aim(i, h)
  <2>1. NewNodes(m) = NewNodes(i)
    BY <1>3 DEF NewNodes
  <2>2. QED
    BY <1>1, <1>3, <2>1 DEF Unlinked, Aim
<1>13. \A k \in Unlinked(i) : k \in NodeId
  BY DEF Unlinked, NewNodes
<1>14. Course(c, m)
  BY <1>1, <1>3, <1>12 DEF Course, Done
<1>15. Facts(m, node', assign', group', config')
  BY <1>1, <1>3, <1>7, <1>12, <1>13 DEF Facts
<1>16. cl[c].pc \notin Done /\ Unlinked(m) \subseteq Unlinked(cl[c])
  BY <1>1, <1>10, <1>12 DEF Done, i
<1>17. CASE Become(c, m)
  BY <1>8, <1>11, <1>14, <1>15, <1>16, <1>17, TameStep
<1>18. CASE Become(c, AfterAdd(m))
  <2>1. m.req \in May[c] /\ (m.some => m.req.method \in {"PUT", "PATCH"})
    BY <1>1, <1>3 DEF Course, Done
  <2>2. /\ Course(c, AfterAdd(m)) /\ Unlinked(AfterAdd(m)) = {}
        /\ Facts(AfterAdd(m), node', assign', group', config')
    BY <1>3, <2>1, AfterAddLinks
  <2>3. QED
    BY <1>8, <1>11, <1>16, <1>18, <2>2, TameStep
<1>19. QED
  BY <1>2, <1>17, <1>18

(* The statements by which Update reads: what it reads of nodes that are   *)
(* assigned stays so, and so each group that it reads has one of the nodes *)
(* it was asked to change.                                                 *)
LEMMA ReadLinks ==
  ASSUME TypeInv, LinkInv, NEW c \in Client, CheckUpdate(c) \/ ReadOld(c) \/ ReadGroups(c)
  PROVE  LinkInv'
<1> DEFINE m == cl[c]
<1>1. /\ m \in State /\ Course(c, m) /\ Facts(m, node, assign, group, config) /\ UNCHANGED tables
  BY OwnLinks DEF CheckUpdate, ReadOld, ReadGroups
<1>2. ASSUME NEW e, Become(c, e), e.pc \in {"old", "groups", "members"}, e.req = m.req,
             m.req \in May[c], Changes(m.req), Facts(e, node, assign, group, config)
      PROVE  LinkInv'
  <2>1. Course(c, e)
    BY <1>2 DEF Course, Changes
  <2>2. Unlinked(e) = {}
    BY <1>2 DEF Unlinked
  <2>3. QED
    BY <1>1, <1>2, <2>1, <2>2, QuietLinks
<1>3. CASE CheckUpdate(c)
  <2> DEFINE e == [m EXCEPT !.pc = "old"]
  <2>1. m.pc = "exist" /\ (Become(c, Finish(m, "failed")) \/ (Become(c, e) /\ ~Empty(m.req)))
    BY <1>3 DEF CheckUpdate
  <2>2. e.pc = "old" /\ e.req = m.req
    BY <1>1 DEF State
  <2>3. m.req \in May[c] /\ (~Empty(m.req) => Changes(m.req))
    BY <1>1, <2>1 DEF Course, Changes, Done
  <2>4. Facts(e, node, assign, group, config)
    BY <2>2 DEF Facts, Unlinked
  <2>5. QED
    BY <1>1, <1>2, <2>1, <2>2, <2>3, <2>4, FinishLinks DEF Done
<1>4. CASE ReadOld(c)
  <2> DEFINE old == {n \in Rows(m.upd) : Joined(n)}
             e == [m EXCEPT !.pc = "groups", !.held = old]
  <2>1. m.pc = "old" /\ (Become(c, Finish(m, "failed")) \/ Become(c, e))
    BY <1>4, Zenon DEF ReadOld
  <2>2. \A n \in old : node[n] # Absent /\ assign[n] # Absent
    BY SqlAssumption DEF Rows, Joined, TypeInv, TypeOK
  <2> HIDE DEF old
  <2>3. e.pc = "groups" /\ e.req = m.req /\ e.held = old
    BY <1>1 DEF State
  <2>4. m.req \in May[c] /\ Changes(m.req)
    BY <1>1, <2>1 DEF Course, Done
  <2>5. Facts(e, node, assign, group, config)
    BY <2>2, <2>3 DEF Facts, Unlinked
  <2>6. QED
    BY <1>1, <1>2, <2>1, <2>3, <2>4, <2>5, FinishLinks DEF Done
<1>5. CASE ReadGroups(c)
  <2> DEFINE todo == {assign[n] : n \in m.held} \intersect group
             e == [m EXCEPT !.pc = "members", !.todo = todo]
  <2>1. m.pc = "groups" /\ Become(c, e)
    BY <1>5, Zenon DEF ReadGroups
  <2>2. \A g \in todo : \E n \in m.held : assign[n] = g
    OBVIOUS
  <2> HIDE DEF todo
  <2>3. e.pc = "members" /\ e.req = m.req /\ e.held = m.held /\ e.todo = todo
    BY <1>1 DEF State
  <2>4. m.req \in May[c] /\ Changes(m.req)
    BY <1>1, <2>1 DEF Course, Done
  <2>5. Facts(e, node, assign, group, config)
    BY <1>1, <2>1, <2>2, <2>3 DEF Facts, Unlinked
  <2>6. QED
    BY <1>1, <1>2, <2>1, <2>3, <2>4, <2>5
<1>6. QED
  BY <1>3, <1>4, <1>5

LEMMA ReadMembersLinks ==
  ASSUME TypeInv, LinkInv, NEW c \in Client, ReadMembers(c)
  PROVE  LinkInv'
<1> DEFINE m == cl[c]
           joined == {g \in m.todo \intersect group : config[g] # Absent /\ Members(g) # {}}
           plan == [g \in GroupId |-> IF g \in joined THEN Members(g) ELSE {}]
           cfg == [g \in GroupId |-> IF g \in joined THEN config[g] ELSE Absent]
           e == [m EXCEPT !.pc = "reuse", !.todo = {}, !.plan = plan, !.cfg = cfg]
<1>1. /\ m \in State /\ Course(c, m) /\ Facts(m, node, assign, group, config) /\ UNCHANGED tables
      /\ m.pc = "members"
  BY OwnLinks DEF ReadMembers
<1>2. Become(c, e)
  BY Zenon DEF ReadMembers
<1>3. m.held \subseteq NodeId
  BY <1>1 DEF State
<1>4. ASSUME NEW g \in GroupId, plan[g] # {} PROVE plan[g] \intersect m.held # {}
  <2>1. g \in m.todo /\ plan[g] = Members(g)
    BY <1>4
  <2>2. PICK n \in m.held : assign[n] = g
    BY <1>1, <2>1 DEF Facts
  <2>3. n \in Members(g)
    BY <1>1, <1>3, <2>2 DEF Facts, Members
  <2>4. QED
    BY <2>1, <2>2, <2>3
<1> HIDE DEF plan, cfg
<1>5. e.pc = "reuse" /\ e.req = m.req /\ e.held = m.held /\ e.plan = plan
  BY <1>1 DEF State
<1> HIDE DEF e
<1>6. Course(c, e)
  BY <1>1, <1>4, <1>5 DEF Course, Changes, Done
<1>7. Unlinked(e) = {} /\ Facts(e, node, assign, group, config)
  BY <1>5 DEF Unlinked, Facts
<1>8. QED
  BY <1>1, <1>2, <1>6, <1>7, QuietLinks

(* No group is marked for deletion: each has a node that is to be changed. *)
LEMMA PlanLinks ==
  ASSUME TypeInv, LinkInv, NEW c \in Client, PlanUpdate(c)
  PROVE  LinkInv'
<1> DEFINE m == cl[c]
<1>1. /\ m \in State /\ m.pc = "reuse" /\ Phased(m) /\ Course(c, m)
      /\ Enough(Unmet(m), GroupId \ UsedGroups) /\ group \subseteq GroupId /\ UNCHANGED tables
  BY OwnLinks, PlanIs DEF TypeInv, TypeOK
<1>2. PICK same : /\ \A g \in Old(m) \ Unmet(m) : same[Due(m, g)] \in Similar(Due(m, g))
                  /\ Become(c, Planned(m, same))
  BY PlanIs
<1> DEFINE e == Planned(m, same)
<1>3. /\ e \in State /\ e.pc = "purge" /\ e.new = m.new /\ e.drop = Unneeded(m)
      /\ \A g \in GroupId : e.plan[g] # {} =>
           \/ e.to[g] \in Similar(Due(m, g)) /\ Due(m, g) # Absent
           \/ e.to[g] \in GroupId \ UsedGroups /\ e.cfg[e.to[g]] # Absent
  BY <1>1, <1>2, PlannedFields
<1>4. e.req = m.req
  BY <1>1 DEF Planned, State
<1> HIDE DEF e
<1>5. e.drop = {}
  BY <1>1, <1>3 DEF Course, Unneeded
<1>6. NewNodes(e) = {}
  <2>1. NewNodes(m) = {}
    BY <1>1 DEF Phased, Updating
  <2>2. QED
    BY <1>3, <2>1 DEF NewNodes
<1>7. Course(c, e)
  BY <1>1, <1>3, <1>4, <1>5 DEF Course, Changes, Done
<1>8. Unlinked(e) = {}
  BY <1>6 DEF Unlinked
<1>9. \A g \in GroupId : e.plan[g] # {} => Whole(Aim(e, g), group, config) \/ Aim(e, g) \in Made(e)
  BY <1>3, <1>6 DEF Similar, Whole, Aim, Made
<1>10. Facts(e, node, assign, group, config)
  BY <1>3, <1>8, <1>9 DEF Facts
<1>11. QED
  BY <1>1, <1>2, <1>7, <1>8, <1>10, QuietLinks DEF e

(* Purge finds nothing to delete: each group read has a node to change.    *)
LEMMA PurgeQuiet ==
  ASSUME TypeInv, LinkInv, NEW c \in Client, Purge(c)
  PROVE  UNCHANGED tables
<1>1. cl[c].drop = {}
  BY OwnLinks DEF Purge, Course
<1>2. config' = [g \in GroupId |-> IF g \in cl[c].drop \intersect group THEN Absent ELSE config[g]]
  BY DEF Purge
<1>3. config' = [g \in GroupId |-> config[g]] /\ group' = group
  BY <1>1, <1>2 DEF Purge
<1>4. config' = config
  BY <1>3 DEF TypeInv, TypeOK
<1>5. QED
  BY <1>3, <1>4 DEF Purge, tables

LEMMA PurgeLinks ==
  ASSUME TypeInv, LinkInv, NEW c \in Client, Purge(c)
  PROVE  LinkInv'
<1> DEFINE i == cl[c]
           m == [i EXCEPT !.drop = {}]
           e == [m EXCEPT !.pc = "config", !.todo = Made(m)]
<1>1. /\ i \in State /\ Phased(i) /\ i.pc = "purge"
      /\ Course(c, i) /\ Facts(i, node, assign, group, config)
  BY OwnLinks DEF Purge
<1>2. \/ Made(m) # {} /\ Become(c, e)
      \/ Made(m) = {} /\ Become(c, ToPoint(m))
  BY Zenon DEF Purge
<1>3. UNCHANGED tables
  BY PurgeQuiet
<1>4. /\ m \in State /\ m.req = i.req /\ m.new = i.new /\ m.plan = i.plan /\ m.to = i.to
      /\ m.cfg = i.cfg
  BY <1>1 DEF State
<1> HIDE DEF m
<1>5. /\ e.pc = "config" /\ e.req = i.req /\ e.new = i.new /\ e.plan = i.plan /\ e.to = i.to
      /\ e.cfg = i.cfg /\ e.todo = Made(m)
  BY <1>4 DEF State, Made
<1> HIDE DEF e, i
<1>6. NewNodes(i) = {} /\ i.req \in May[c] /\ Changes(i.req)
  BY <1>1 DEF Phased, Updating, Course, Done
<1>7. NewNodes(m) = {} /\ Made(m) = Made(i) /\ NewNodes(e) = {} /\ Made(e) = Made(i)
  BY <1>4, <1>5, <1>6 DEF NewNodes, Made
<1>8. \A g \in GroupId : i.plan[g] # {} => Whole(i.to[g], group, config) \/ i.to[g] \in Made(i)
  BY <1>1, <1>6 DEF Facts, Aim
<1>9. CASE Become(c, e)
  <2>1. Course(c, e)
    BY <1>5, <1>6, <1>7 DEF Course, Changes
  <2>2. Unlinked(e) = {}
    BY <1>7 DEF Unlinked
  <2>3. Facts(e, node, assign, group, config)
    BY <1>5, <1>7, <1>8, <2>2 DEF Facts, Aim
  <2>4. QED
    BY <1>3, <1>9, <2>1, <2>2, <2>3, QuietLinks
<1>10. CASE Made(m) = {} /\ Become(c, ToPoint(m))
  <2>1. \A g \in GroupId : m.plan[g] # {} => Whole(m.to[g], group, config)
    BY <1>4, <1>7, <1>8, <1>10
  <2>2. /\ Course(c, ToPoint(m)) /\ Unlinked(ToPoint(m)) = {}
        /\ Facts(ToPoint(m), node, assign, group, config)
    BY <1>4, <1>6, <1>7, <2>1, ToPointLinks
  <2>3. QED
    BY <1>3, <1>10, <2>2, QuietLinks
<1>11. QED
  BY <1>2, <1>9, <1>10

LEMMA PointLinks ==
  ASSUME TypeInv, LinkInv, LoneWriter, NEW c \in Client, NEW g \in GroupId, Point(c, g)
  PROVE  LinkInv'
<1> DEFINE i == cl[c]
           m == [i EXCEPT !.todo = @ \ {g}]
<1>1. /\ i \in State /\ i.pc = "point" /\ Course(c, i) /\ Facts(i, node, assign, group, config)
      /\ UNCHANGED <<node, group, config>>
  BY OwnLinks DEF Point
<1>2. Become(c, m) \/ Become(c, Finish(m, "ok"))
  BY Zenon DEF Point
<1>3. \A n \in NodeId : assign'[n] = IF n \in m.plan[g] /\ assign[n] # Absent THEN m.to[g] ELSE assign[n]
  BY Zenon DEF Point
<1>4. m.pc = "point" /\ m.req = i.req /\ m.new = i.new /\ m.plan = i.plan /\ m.to = i.to
  BY <1>1 DEF State
<1> HIDE DEF m
<1>5. \A h \in GroupId : i.plan[h] # {} => Whole(i.to[h], group, config)
  BY <1>1 DEF Facts, Aim, Course
<1>6. i.plan[g] # {} => Whole(i.to[g], group, config) /\ i.to[g] # Absent
  BY <1>5, SqlAssumption DEF Whole, TypeInv, TypeOK
<1>7. LinksResolve'
  BY <1>1, <1>3, <1>4, <1>6 DEF LinkInv, LinksResolve, Joined, Whole
<1>8. Changes(i.req)
  BY <1>1 DEF Course
<1>9. Tame(c)
  BY <1>1, <1>3, <1>4, <1>6, <1>8 DEF Tame
<1> HIDE DEF i
<1>10. NewNodes(m) = {}
  BY <1>1, <1>4 DEF Course, NewNodes
<1>11. Course(c, m)
  BY <1>1, <1>4, <1>8, <1>10 DEF Course, Changes, Done
<1>12. Unlinked(m) = {}
  BY <1>10 DEF Unlinked
<1>13. Facts(m, node', assign', group', config')
  BY <1>1, <1>4, <1>5, <1>10, <1>12 DEF Facts, Aim
<1>14. cl[c].pc \notin Done
  BY <1>1 DEF Done, i
<1>15. CASE Become(c, m)
  BY <1>7, <1>9, <1>11, <1>12, <1>13, <1>14, <1>15, TameStep
<1>16. CASE Become(c, Finish(m, "ok"))
  <2>1. Finish(m, "ok").pc \in Done
    BY FinishIs DEF Done
  <2>2. /\ Course(c, Finish(m, "ok")) /\ Unlinked(Finish(m, "ok")) = {}
        /\ Facts(Finish(m, "ok"), node', assign', group', config')
    BY <2>1, DoneLinks
  <2>3. QED
    BY <1>7, <1>9, <1>14, <1>16, <2>2, TameStep
<1>17. QED
  BY <1>2, <1>15, <1>16

(* A delete takes rows, then their assignments, and then the groups that   *)
(* it found to have no members: nobody else adds or moves any meanwhile.   *)
LEMMA DeleteLinksStep ==
  ASSUME TypeInv, LinkInv, LoneWriter, NEW c \in Client, DeleteStep(c)
  PROVE  LinkInv'
<1> DEFINE m == cl[c]
           D == {"delnodes", "unlink", "count", "dropgroups", "dropconfigs"}
<1>1. m \in State /\ Course(c, m) /\ Facts(m, node, assign, group, config)
  BY OwnLinks
<1>2. m.pc \in D
  BY <1>1 DEF Course, DeleteStep, DeleteNodes, DeleteLinks, DropGroups, DropConfigs, CountMembers,
              DeleteConfigs, DeleteGroups, DeleteGroupLinks, DeleteMembers
<1>3. m.req.method = "DELETE" /\ m.req \in May[c] /\ m.pc \notin Done
  BY <1>1, <1>2 DEF Course, Done
<1>4. ASSUME NEW e, Become(c, e), e.pc \in D \ {"delnodes"}, e.req = m.req, e.some = m.some,
             e.pc = "unlink" => e.drop = {},
             e.pc \in {"count", "dropgroups", "dropconfigs"} =>
               \A g \in e.drop, n \in NodeId : node'[n] # Absent => assign'[n] # g,
             LinksResolve'
      PROVE  LinkInv'
  <2>1. Unlinked(e) = {}
    BY <1>4 DEF Unlinked
  <2>2. ~m.some
    BY <1>1, <1>3 DEF Course
  <2>3. Course(c, e)
    BY <1>3, <1>4, <2>2 DEF Course
  <2>4. Facts(e, node', assign', group', config')
    BY <1>4, <2>1 DEF Facts
  <2>5. QED
    BY <1>3, <1>4, <2>1, <2>3, <2>4, DeleteStepAlone
<1>5. ASSUME NEW e, NEW pc \in Done, Become(c, Finish(e, pc)), LinksResolve' PROVE LinkInv'
  <2>1. Finish(e, pc).pc \in Done
    BY FinishIs
  <2>2. /\ Course(c, Finish(e, pc)) /\ Unlinked(Finish(e, pc)) = {}
        /\ Facts(Finish(e, pc), node', assign', group', config')
    BY <2>1, DoneLinks
  <2>3. QED
    BY <1>3, <1>5, <2>2, DeleteStepAlone
<1>6. "ok" \in Done /\ "failed" \in Done
  BY DEF Done
<1>7. LinksResolve /\ assign \in [NodeId -> GroupId \union {Absent}]
  BY DEF LinkInv, TypeInv, TypeOK
<1>8. CASE DeleteNodes(c)
  <2> DEFINE gone == Rows(m.upd)
             e == [m EXCEPT !.pc = "unlink", !.held = gone]
  <2>1. /\ m.pc = "delnodes" /\ (Become(c, Finish(m, "failed")) \/ Become(c, e))
        /\ UNCHANGED <<assign, group, config>>
        /\ \A n \in NodeId : node'[n] = IF n \in gone THEN Absent ELSE node[n]
    BY <1>8, Zenon DEF DeleteNodes
  <2>2. LinksResolve'
    BY <1>7, <2>1 DEF LinksResolve, Joined
  <2> HIDE DEF gone
  <2>3. e.pc = "unlink" /\ e.req = m.req /\ e.some = m.some /\ e.drop = m.drop
    BY <1>1 DEF State
  <2>4. m.drop = {}
    BY <1>1, <2>1 DEF Course
  <2> HIDE DEF e
  <2>5. QED
    BY <1>4, <1>5, <1>6, <2>1, <2>2, <2>3, <2>4
<1>9. CASE DeleteLinks(c)
  <2> DEFINE groups == {assign[n] : n \in m.held} \ {Absent}
             e == [m EXCEPT !.pc = "count", !.todo = groups]
  <2>1. /\ m.pc = "unlink" /\ (Become(c, Finish(m, "ok")) \/ Become(c, e))
        /\ UNCHANGED <<node, group, config>>
        /\ \A n \in NodeId : assign'[n] = IF n \in m.held THEN Absent ELSE assign[n]
    BY <1>9, Zenon DEF DeleteLinks
  <2>2. LinksResolve'
    BY <1>7, <2>1 DEF LinksResolve, Joined
  <2> HIDE DEF groups
  <2>3. e.pc = "count" /\ e.req = m.req /\ e.some = m.some /\ e.drop = m.drop
    BY <1>1 DEF State
  <2>4. m.drop = {}
    BY <1>1, <2>1 DEF Course
  <2> HIDE DEF e
  <2>5. QED
    BY <1>4, <1>5, <1>6, <2>1, <2>2, <2>3, <2>4
<1>10. ASSUME NEW g \in GroupId, CountMembers(c, g) PROVE LinkInv'
  <2> DEFINE drop == IF Members(g) = {} THEN m.drop \union {g} ELSE m.drop
             e == [m EXCEPT !.todo = @ \ {g}, !.drop = drop]
             f == [e EXCEPT !.pc = "dropgroups"]
  <2>1. /\ m.pc = "count" /\ UNCHANGED <<node, assign, group, config>>
        /\ Become(c, e) \/ Become(c, Finish(e, "ok")) \/ Become(c, f)
    BY <1>10, Zenon DEF CountMembers, tables
  <2>2. LinksResolve'
    BY <1>7, <2>1 DEF LinksResolve, Joined
  <2>3. \A h \in drop, n \in NodeId : node'[n] # Absent => assign'[n] # h
    BY <1>1, <2>1 DEF Facts, Members
  <2> HIDE DEF drop
  <2>4. /\ e.pc = "count" /\ e.req = m.req /\ e.some = m.some /\ e.drop = drop
        /\ f.pc = "dropgroups" /\ f.req = m.req /\ f.some = m.some /\ f.drop = drop
    BY <1>1, <2>1 DEF State
  <2> HIDE DEF e, f
  <2>5. QED
    BY <1>4, <1>5, <1>6, <2>1, <2>2, <2>3, <2>4
<1>11. CASE DropGroups(c)
  <2> DEFINE gone == m.drop \intersect group
             e == [m EXCEPT !.pc = "dropconfigs", !.drop = gone]
  <2>1. /\ m.pc = "dropgroups" /\ (Become(c, Finish(m, "failed")) \/ Become(c, e))
        /\ UNCHANGED <<node, assign, config>> /\ group' = group \ gone
    BY <1>11, Zenon DEF DropGroups
  <2>2. \A h \in gone, n \in NodeId : node'[n] # Absent => assign'[n] # h
    BY <1>1, <2>1 DEF Facts
  <2>3. LinksResolve'
    BY <1>7, <2>1, <2>2 DEF LinksResolve, Joined
  <2> HIDE DEF gone
  <2>4. e.pc = "dropconfigs" /\ e.req = m.req /\ e.some = m.some /\ e.drop = gone
    BY <1>1 DEF State
  <2> HIDE DEF e
  <2>5. QED
    BY <1>4, <1>5, <1>6, <2>1, <2>2, <2>3, <2>4
<1>12. CASE DropConfigs(c)
  <2>1. /\ m.pc = "dropconfigs" /\ Become(c, Finish(m, "ok")) /\ UNCHANGED <<node, assign, group>>
        /\ \A g \in GroupId : config'[g] = IF g \in m.drop THEN Absent ELSE config[g]
    BY <1>12, Zenon DEF DropConfigs
  <2>2. \A h \in m.drop, n \in NodeId : node'[n] # Absent => assign'[n] # h
    BY <1>1, <2>1 DEF Facts
  <2>3. LinksResolve'
    BY <1>7, <2>1, <2>2 DEF LinksResolve, Joined
  <2>4. QED
    BY <1>5, <1>6, <2>1, <2>3
<1>13. ~(DeleteConfigs(c) \/ DeleteGroups(c) \/ DeleteGroupLinks(c) \/ DeleteMembers(c))
  BY <1>2 DEF DeleteConfigs, DeleteGroups, DeleteGroupLinks, DeleteMembers
<1>14. QED
  BY <1>8, <1>9, <1>10, <1>11, <1>12, <1>13 DEF DeleteStep

LEMMA InitLinks == Init => LinkInv
<1> SUFFICES ASSUME Init PROVE LinkInv
  OBVIOUS
<1>1. \A c \in Client : cl[c].pc = "idle"
  BY DEF Init, Blank
<1>2. \A c \in Client : /\ Course(c, cl[c]) /\ Unlinked(cl[c]) = {}
                        /\ Facts(cl[c], node, assign, group, config)
  BY <1>1, DoneLinks DEF Done
<1>3. LinksResolve
  BY DEF Init, LinksResolve
<1>4. QED
  BY <1>2, <1>3 DEF LinkInv

LEMMA StepLinks ==
  ASSUME LoneWriter, ByName PROVE TypeInv /\ LinkInv /\ [Next]_vars => LinkInv'
<1> SUFFICES ASSUME TypeInv, LinkInv, [Next]_vars PROVE LinkInv'
  OBVIOUS
<1>1. CASE UNCHANGED vars
  BY <1>1 DEF vars, tables, LinkInv, LinksResolve, Joined
<1>2. ASSUME NEW c \in Client, Begin(c) \/ StatementFails(c) \/ CheckSet(c) \/ ListSet(c)
      PROVE  LinkInv'
  BY <1>2, BeginLinks, SetLinks
<1>3. ASSUME NEW c \in Client, AddStep(c) PROVE LinkInv'
  BY <1>3, FindLinks, SimilarLinks, InsertConfigLinks, InsertGroupLinks, InsertNodeLinks,
     InsertLinkLinks DEF AddStep
<1>4. ASSUME NEW c \in Client, UpdateStep(c) PROVE LinkInv'
  BY <1>4, ReadLinks, ReadMembersLinks, PlanLinks, PurgeLinks, PointLinks DEF UpdateStep
<1>5. ASSUME NEW c \in Client, DeleteStep(c) PROVE LinkInv'
  BY <1>5, DeleteLinksStep
<1>6. QED
  BY <1>1, <1>2, <1>3, <1>4, <1>5 DEF Next

(* LinksResolve: the order of the statements is such that no node is ever  *)
(* assigned to a group or config that is not there, whatever nodes others  *)
(* add meanwhile and wherever a handler stops, if those who delete are     *)
(* alone and name the nodes, and one client at most updates.               *)
THEOREM LinksWhole == ASSUME LoneWriter, ByName PROVE Spec => []LinksResolve
<1>1. LinkInv => LinksResolve
  BY DEF LinkInv
<1>2. TypeInv /\ LinkInv /\ [Next]_vars => (TypeInv /\ LinkInv)'
  BY StepTyped, StepLinks
<1>3. QED
  BY <1>1, <1>2, InitTyped, InitLinks, PTL DEF Spec

-----------------------------------------------------------------------------
(* OthersUntouched, with the same clients, if none names NID 0: what a     *)
(* handler reads, plans and writes is of the nodes that it was asked for,  *)
(* and the groups that it makes are nobody else's.                         *)
NoZero == \A r \in Requests : ZeroNid \notin r.nids

(* The groups that a handler is to insert a config for.                    *)
Pending(m) == IF m.pc = "purge" THEN Made(m) ELSE IF m.pc = "config" THEN m.todo ELSE {}

Scoped(m, nd, as) ==
  LET names == AllNames(m.req) IN
  /\ m.add \subseteq names /\ m.upd \subseteq names
  /\ m.some \/ m.pc \in {"exist", "old", "delnodes"} => m.upd # {}
  /\ \A n \in NewNodes(m) : m.new[n] \in names
  /\ m.pc \in {"config", "group", "node"} =>
       \A n \in NewNodes(m) \ m.held : nd[n] \in names \union {Absent}
  /\ m.pc = "link" => \A n \in m.held : nd[n] \in names \union {Absent}
  /\ m.pc \in {"groups", "members", "reuse"} => \A n \in m.held : nd[n] \in names /\ as[n] # Absent
  /\ m.pc \in {"purge", "config", "group", "point"} /\ NewNodes(m) = {} =>
       \A g \in GroupId : \A n \in m.plan[g] : nd[n] \in names /\ as[n] # Absent
  /\ m.pc = "unlink" => \A n \in m.held : nd[n] = Absent

(* Of a handler under way, unless it was asked for no node.                *)
InScope(m, nd, as) == m.pc \notin Done /\ AllNames(m.req) # {} => Scoped(m, nd, as)

ScopeInv ==
  /\ \A c \in Client : /\ \A g \in Pending(cl[c]) : config[g] = Absent
                       /\ InScope(cl[c], node, assign)
  /\ \A c, d \in Client : c # d => Pending(cl[c]) \intersect Pending(cl[d]) = {}

(* A statement that changes no row of another handler.                     *)
Careful(c) ==
  /\ \A n \in NodeId : n \notin Unlinked(cl[c]) => node'[n] = node[n]
  /\ \A n \in NodeId : assign[n] # Absent => assign'[n] # Absent
  /\ \A g \in GroupId : g \notin Pending(cl[c]) => config'[g] = config[g]

LEMMA PendingGroups ==
  ASSUME TypeInv, NEW c \in Client PROVE Pending(cl[c]) \subseteq GroupId
BY OwnState DEF Pending, Made, State

LEMMA DoneScope ==
  ASSUME NEW m, m.pc \in Done
  PROVE  Pending(m) = {} /\ \A nd, as : InScope(m, nd, as)
BY DEF Pending, InScope, Done

LEMMA CarefulScope ==
  ASSUME TypeInv, LinkInv, LoneWriter, ScopeInv, NEW c \in Client, NEW d \in Client, c # d,
         cl[c].pc \notin Done, cl[d].pc \notin Done, Careful(c)
  PROVE  /\ \A g \in Pending(cl[d]) : config'[g] = Absent
         /\ InScope(cl[d], node', assign')
<1> DEFINE m == cl[d]
<1>1. /\ m \in State /\ m.req.method # "DELETE" /\ Course(d, m)
      /\ Facts(m, node, assign, group, config) /\ InScope(m, node, assign)
  BY OwnLinks, TwoWriters DEF ScopeInv
<1>2. \A g \in Pending(m) : config'[g] = Absent
  BY PendingGroups DEF ScopeInv, Careful
<1>3. Unlinked(cl[c]) \intersect Unlinked(m) = {}
  BY DEF LinkInv
<1>4. \A n \in NodeId : assign[n] # Absent => n \notin Unlinked(cl[c])
  BY OwnLinks DEF Facts
<1> HIDE DEF m
<1>5. \A n \in NodeId : n \in Unlinked(m) \/ assign[n] # Absent => node'[n] = node[n]
  BY <1>3, <1>4 DEF Careful
<1>6. ASSUME AllNames(m.req) # {} PROVE Scoped(m, node', assign')
  <2>1. Scoped(m, node, assign)
    BY <1>1, <1>6 DEF InScope, m
  <2>2. m.held \subseteq NodeId /\ NewNodes(m) \subseteq NodeId /\ \A g \in GroupId : m.plan[g] \subseteq NodeId
    BY <1>1 DEF State, NewNodes
  <2>3. m.pc # "unlink"
    BY <1>1 DEF Course
  <2>4. m.pc \in {"config", "group", "node"} =>
          \A n \in NewNodes(m) \ m.held : node'[n] \in AllNames(m.req) \union {Absent}
    BY <1>5, <2>1, <2>2 DEF Scoped, Unlinked
  <2>5. m.pc = "link" => \A n \in m.held : node'[n] \in AllNames(m.req) \union {Absent}
    BY <1>1, <1>5, <2>1, <2>2 DEF Scoped, Unlinked, Course
  <2>6. m.pc \in {"groups", "members", "reuse"} =>
          \A n \in m.held : node'[n] \in AllNames(m.req) /\ assign'[n] # Absent
    BY <1>5, <2>1, <2>2 DEF Scoped, Careful
  <2>7. m.pc \in {"purge", "config", "group", "point"} /\ NewNodes(m) = {} =>
          \A g \in GroupId : \A n \in m.plan[g] : node'[n] \in AllNames(m.req) /\ assign'[n] # Absent
    BY <1>5, <2>1, <2>2 DEF Scoped, Careful
  <2>8. QED
    BY <2>1, <2>3, <2>4, <2>5, <2>6, <2>7 DEF Scoped
<1>7. QED
  BY <1>2, <1>6 DEF InScope, m

LEMMA ScopeStep ==
  ASSUME TypeInv, LinkInv, LoneWriter, ScopeInv, NEW c \in Client, NEW m, Become(c, m),
         \/ UNCHANGED tables
         \/ cl[c].pc \notin Done /\ (Careful(c) \/ cl[c].req.method = "DELETE"),
         \A g \in Pending(m) : config'[g] = Absent, InScope(m, node', assign'),
         \A d \in Client : d # c => Pending(m) \intersect Pending(cl[d]) = {}
  PROVE  ScopeInv'
<1>1. cl'[c] = m /\ \A d \in Client : d # c => cl'[d] = cl[d]
  BY OthersStay
<1>2. ASSUME NEW d \in Client, d # c
      PROVE  (\A g \in Pending(cl[d]) : config'[g] = Absent) /\ InScope(cl[d], node', assign')
  <2>1. CASE UNCHANGED tables
    <3>1. node' = node /\ assign' = assign /\ config' = config
      BY <2>1 DEF tables
    <3>2. QED
      BY <3>1 DEF ScopeInv
  <2>2. CASE cl[d].pc \in Done
    BY <2>2, DoneScope
  <2>3. CASE cl[c].pc \notin Done /\ cl[d].pc \notin Done /\ (Careful(c) \/ cl[c].req.method = "DELETE")
    <3>1. cl[c].req.method # "DELETE"
      BY <1>2, <2>3, TwoWriters
    <3>2. QED
      BY <1>2, <2>3, <3>1, CarefulScope
  <2>4. QED
    BY <2>1, <2>2, <2>3
<1>3. \A d \in Client : /\ \A g \in Pending(cl'[d]) : config'[g] = Absent
                        /\ InScope(cl'[d], node', assign')
  BY <1>1, <1>2
<1>4. ASSUME NEW d \in Client, NEW e \in Client, d # e
      PROVE  Pending(cl'[d]) \intersect Pending(cl'[e]) = {}
  BY <1>1, <1>4 DEF ScopeInv
<1>5. QED
  BY <1>3, <1>4 DEF ScopeInv

(* A handler that reads, and plans no new group.                           *)
LEMMA QuietScope ==
  ASSUME TypeInv, LinkInv, LoneWriter, ScopeInv, NEW c \in Client, NEW m, Become(c, m),
         UNCHANGED tables, m.pc \notin {"purge", "config"}, InScope(m, node, assign)
  PROVE  ScopeInv'
<1>1. Pending(m) = {}
  BY DEF Pending
<1>2. node' = node /\ assign' = assign
  BY DEF tables
<1>3. QED
  BY <1>1, <1>2, ScopeStep

LEMMA FinishScope ==
  ASSUME TypeInv, LinkInv, LoneWriter, ScopeInv, NEW c \in Client, NEW m, m.pc \in Done,
         Become(c, m),
         \/ UNCHANGED tables
         \/ cl[c].pc \notin Done /\ (Careful(c) \/ cl[c].req.method = "DELETE")
  PROVE  ScopeInv'
BY DoneScope, ScopeStep

(* What a name is served depends on the rows with that name.               *)
LEMMA SameServed ==
  ASSUME NEW x \in Name \ {ZeroNid},
         \A n \in NodeId : (node[n] = x /\ Joined(n)) <=>
           (node'[n] = x /\ assign'[n] \in group' /\ config'[assign'[n]] # Absent),
         \A n \in NodeId : node[n] = x /\ Joined(n) => config'[assign'[n]] = config[assign[n]]
  PROVE  Served(x)' = Served(x)
BY SqlAssumption DEF Served, Rows, RowMatch, Joined

Keeps(c) ==
  AllNames(cl[c].req) # {} =>
    \A x \in Name \ {ZeroNid} : x \notin AllNames(cl[c].req) => Served(x)' = Served(x)

LEMMA QuietKeeps == ASSUME NEW c \in Client, UNCHANGED tables PROVE Keeps(c)
BY DEF Keeps, Served, Rows, Joined, tables

(* A handler that begins, or goes on from Add to Update.                   *)
LEMMA StartScope ==
  ASSUME NEW r \in Request
  PROVE  LET e == Start(r) IN Pending(e) = {} /\ \A nd, as : InScope(e, nd, as)
<1> DEFINE m == Blank(r)
           names == AllNames(r)
           L(e, pc) == /\ e.pc = pc /\ e.req = r /\ e.new = m.new /\ ~e.some
                       /\ e.add \subseteq names /\ e.upd \subseteq names
                       /\ pc \in {"exist", "delnodes"} /\ names # {} => e.upd # {}
<1>1. m \in State /\ m.req = r /\ m.add = {} /\ m.upd = {} /\ ~m.some /\ NewNodes(m) = {}
  BY BlankTyped DEF Blank
<1>2. Targets(r) \subseteq names
  BY RequestTyped
<1> HIDE DEF m, names
<1>3. /\ \A pc \in {"check", "delconfigs"} : L([m EXCEPT !.pc = pc], pc)
      /\ L([m EXCEPT !.pc = "find", !.add = names], "find")
      /\ L([m EXCEPT !.pc = "exist", !.upd = names], "exist")
      /\ Targets(r) # {} => L([m EXCEPT !.pc = "delnodes", !.upd = Targets(r)], "delnodes")
  BY <1>1, <1>2 DEF State
<1>4. ASSUME NEW e, NEW pc \in {"find", "check", "exist", "delnodes", "delconfigs"}, L(e, pc)
      PROVE  Pending(e) = {} /\ \A nd, as : InScope(e, nd, as)
  <2>1. NewNodes(e) = {}
    BY <1>1, <1>4 DEF NewNodes
  <2>2. Pending(e) = {}
    BY <1>4 DEF Pending
  <2>3. QED
    BY <1>4, <2>1, <2>2 DEF InScope, Scoped, names
<1> HIDE DEF L
<1>5. \A pc \in Done : LET e == Finish(m, pc) IN Pending(e) = {} /\ \A nd, as : InScope(e, nd, as)
  BY FinishIs, DoneScope
<1>6. PICK e : e = Start(r)
  OBVIOUS
<1>7. \/ \E pc \in Done : e = Finish(m, pc)
      \/ L(e, "find") \/ L(e, "check") \/ L(e, "exist") \/ L(e, "delnodes") \/ L(e, "delconfigs")
  BY <1>3, <1>6 DEF Start, Done, m, names
<1>8. QED
  BY <1>4, <1>5, <1>6, <1>7

LEMMA AfterAddScope ==
  ASSUME NEW m \in State,
         AllNames(m.req) # {} => m.upd \subseteq AllNames(m.req) /\ (m.some => m.upd # {})
  PROVE  LET e == AfterAdd(m) IN Pending(e) = {} /\ \A nd, as : InScope(e, nd, as)
<1>1. CASE m.some
  <2> DEFINE e == [Blank(m.req) EXCEPT !.pc = "exist", !.upd = m.upd]
  <2>1. AfterAdd(m) = e
    BY <1>1 DEF AfterAdd
  <2>2. /\ e.pc = "exist" /\ e.req = m.req /\ e.upd = m.upd /\ e.add = {} /\ ~e.some
        /\ NewNodes(e) = {}
    BY DEF Blank, NewNodes
  <2> HIDE DEF e
  <2>3. Pending(e) = {}
    BY <2>2 DEF Pending
  <2>4. \A nd, as : InScope(e, nd, as)
    BY <1>1, <2>2 DEF InScope, Scoped
  <2>5. QED
    BY <2>1, <2>3, <2>4
<1>2. CASE ~m.some
  BY <1>2, FinishIs, DoneScope DEF AfterAdd, Done
<1>3. QED
  BY <1>1, <1>2

LEMMA BeginScope ==
  ASSUME TypeInv, LinkInv, LoneWriter, ScopeInv, NEW c \in Client, Begin(c)
  PROVE  ScopeInv'
<1>1. PICK r \in May[c] : Become(c, Start(r))
  BY DEF Begin
<1>2. r \in Request
  BY SqlAssumption, RequestAssumption
<1>3. Pending(Start(r)) = {} /\ InScope(Start(r), node', assign')
  BY <1>2, StartScope
<1>4. UNCHANGED tables
  BY DEF Begin
<1>5. QED
  BY <1>1, <1>3, <1>4, ScopeStep

(* No row is matched but by a name that was asked for.                     *)
LEMMA RowNames ==
  ASSUME TypeInv, LinkInv, NoZero, NEW c \in Client, cl[c].pc \notin Done,
         NEW names, names \subseteq AllNames(cl[c].req), names # {}
  PROVE  /\ ZeroNid \notin AllNames(cl[c].req)
         /\ \A n \in Rows(names) : n \in NodeId /\ node[n] \in names /\ node[n] # ZeroNid
<1>1. cl[c].req \in Requests
  BY SqlAssumption DEF LinkInv, Course
<1>2. cl[c].req \in Request
  BY OwnState
<1>3. ZeroNid \notin AllNames(cl[c].req)
  BY <1>1, <1>2, SqlAssumption DEF NoZero, AllNames, Request
<1>4. QED
  BY <1>3 DEF Rows, RowMatch

(* Of a handler that was asked for some nodes, what its step needs.        *)
LEMMA OwnScope ==
  ASSUME TypeInv, LinkInv, ScopeInv, NEW c \in Client
  PROVE  /\ InScope(cl[c], node, assign)
         /\ cl[c].pc \notin Done /\ AllNames(cl[c].req) # {} => Scoped(cl[c], node, assign)
         /\ \A g \in Pending(cl[c]) : config[g] = Absent
         /\ \A d \in Client : d # c => Pending(cl[c]) \intersect Pending(cl[d]) = {}
BY DEF ScopeInv, InScope

LEMMA SetScope ==
  ASSUME TypeInv, LinkInv, LoneWriter, NoZero, ScopeInv, NEW c \in Client,
         StatementFails(c) \/ CheckSet(c) \/ ListSet(c)
  PROVE  ScopeInv'
<1> DEFINE m == cl[c]
<1>1. m \in State /\ UNCHANGED tables /\ m.pc \notin Done
  BY OwnState DEF StatementFails, CheckSet, ListSet, Done
<1>2. AllNames(m.req) # {} => Scoped(m, node, assign)
  BY <1>1, OwnScope
<1>3. CASE StatementFails(c)
  BY <1>1, <1>3, FinishIs, FinishScope DEF StatementFails, Done
<1>4. CASE CheckSet(c)
  <2> DEFINE add == Missing(AllNames(m.req))
             e == [m EXCEPT !.pc = "list", !.add = add]
  <2>1. Become(c, e)
    BY <1>4 DEF CheckSet
  <2>2. add \subseteq AllNames(m.req)
    BY DEF Missing
  <2> HIDE DEF add
  <2>3. /\ e.pc = "list" /\ e.req = m.req /\ e.add = add /\ e.upd = m.upd /\ e.some = m.some
        /\ e.new = m.new
    BY <1>1 DEF State
  <2> HIDE DEF e
  <2>4. InScope(e, node, assign)
    BY <1>1, <1>2, <2>2, <2>3 DEF InScope, Scoped, NewNodes
  <2>5. QED
    BY <1>1, <2>1, <2>3, <2>4, QuietScope
<1>5. CASE ListSet(c)
  <2> DEFINE found == Rows(AllNames(m.req))
             upd == {node[n] : n \in found} \ {ZeroNid}
             some == found # {}
             e == [m EXCEPT !.upd = upd, !.some = some]
             f == [e EXCEPT !.pc = "find"]
  <2>1. m.pc = "list" /\ (Become(c, f) \/ Become(c, AfterAdd(e)))
    BY <1>5 DEF ListSet
  <2>2. upd \subseteq Name /\ some \in BOOLEAN
    BY DEF Rows, TypeInv, TypeOK
  <2>3. AllNames(m.req) # {} => upd \subseteq AllNames(m.req) /\ (some => upd # {})
    BY <1>1, RowNames
  <2> HIDE DEF upd, some
  <2>4. /\ e \in State /\ e.pc = "list" /\ e.req = m.req /\ e.upd = upd /\ e.some = some /\ e.add = m.add
        /\ e.new = m.new
    BY <1>1, <2>1, <2>2 DEF State
  <2> HIDE DEF e
  <2>5. f.pc = "find" /\ f.req = m.req /\ f.upd = upd /\ f.some = some /\ f.add = m.add /\ f.new = m.new
    BY <2>4 DEF State
  <2> HIDE DEF f
  <2>6. InScope(f, node, assign)
    BY <1>1, <1>2, <2>3, <2>5 DEF InScope, Scoped, NewNodes
  <2>7. CASE Become(c, f)
    BY <1>1, <2>5, <2>6, <2>7, QuietScope
  <2>8. CASE Become(c, AfterAdd(e))
    <3>1. Pending(AfterAdd(e)) = {} /\ InScope(AfterAdd(e), node', assign')
      BY <2>3, <2>4, AfterAddScope
    <3>2. QED
      BY <1>1, <2>8, <3>1, ScopeStep
  <2>9. QED
    BY <2>1, <2>7, <2>8
<1>6. QED
  BY <1>3, <1>4, <1>5

LEMMA FindScope ==
  ASSUME TypeInv, LinkInv, LoneWriter, NoZero, ScopeInv, NEW c \in Client, FindNodes(c)
  PROVE  ScopeInv'
<1> DEFINE m == cl[c]
           names == Missing(AddPart(m.add))
           ids == Fresh(names, NodeId \ UsedNodes)
           new == NewOf(names, ids)
           e == [m EXCEPT !.pc = "similar", !.new = new]
<1>1. m \in State /\ m.add \in SUBSET Name /\ m.pc = "find" /\ m.pc \notin Done /\ UNCHANGED tables
  BY OwnState, FindIs DEF State, Done
<1>2. names \in SUBSET Name /\ names \subseteq m.add
  BY <1>1, MissingNames DEF Missing, AddPart
<1>3. \/ Become(c, AfterAdd(m)) \/ Become(c, Finish(m, "failed"))
      \/ Become(c, e)
  BY FindIs
<1>4. AllNames(m.req) # {} => Scoped(m, node, assign)
  BY <1>1, OwnScope
<1> HIDE DEF names, ids
<1>5. \A n \in NodeId : new[n] # None => new[n] \in names
  BY <1>2, NewTyped
<1> HIDE DEF new
<1>6. /\ e.pc = "similar" /\ e.new = new /\ e.req = m.req /\ e.add = m.add /\ e.upd = m.upd
      /\ e.some = m.some
  BY <1>1 DEF State
<1> HIDE DEF e
<1>7. InScope(e, node, assign)
  BY <1>2, <1>4, <1>5, <1>6 DEF InScope, Scoped, NewNodes
<1>8. CASE Become(c, e)
  BY <1>1, <1>6, <1>7, <1>8, QuietScope
<1>9. CASE Become(c, AfterAdd(m))
  <2>1. Pending(AfterAdd(m)) = {} /\ InScope(AfterAdd(m), node', assign')
    BY <1>1, <1>4, AfterAddScope DEF Scoped
  <2>2. QED
    BY <1>1, <1>9, <2>1, ScopeStep
<1>10. CASE Become(c, Finish(m, "failed"))
  BY <1>1, <1>10, FinishIs, FinishScope DEF Done
<1>11. QED
  BY <1>3, <1>8, <1>9, <1>10

(* An id that is made for a group is in no table, and nobody's.            *)
LEMMA FreshGroup ==
  ASSUME TypeInv, LinkInv, NEW g \in GroupId \ UsedGroups
  PROVE  config[g] = Absent /\ \A d \in Client : g \notin Pending(cl[d])
<1>1. config[g] = Absent /\ \A d \in Client : cl[d].cfg[g] = Absent
  BY DEF UsedGroups
<1>2. ASSUME NEW d \in Client PROVE Pending(cl[d]) \subseteq Made(cl[d])
  BY OwnLinks DEF Course, Pending
<1>3. QED
  BY <1>1, <1>2 DEF Made

LEMMA SimilarScope ==
  ASSUME TypeInv, LinkInv, LoneWriter, ScopeInv, NEW c \in Client, FindSimilar(c)
  PROVE  ScopeInv'
<1> DEFINE m == cl[c]
<1>1. /\ m \in State /\ m.pc = "similar" /\ m.pc \notin Done /\ UNCHANGED tables
      /\ node' = node /\ assign' = assign /\ config' = config
  BY OwnState, SimilarIs DEF tables, Done
<1>2. AllNames(m.req) # {} => Scoped(m, node, assign)
  BY <1>1, OwnScope
<1>3. ASSUME NEW e, e.pc \in {"node", "config"}, e.req = m.req, e.add = m.add, e.upd = m.upd,
             e.some = m.some, e.new = m.new, e.held = NewNodes(m),
             \A h \in GroupId : e.plan[h] \subseteq NewNodes(m)
      PROVE  InScope(e, node, assign)
  BY <1>2, <1>3 DEF InScope, Scoped, NewNodes
<1>4. ASSUME NEW g \in GroupId
      PROVE  LET f == PlanFor(m, g) IN
             /\ f \in State /\ f.req = m.req /\ f.add = m.add /\ f.upd = m.upd /\ f.some = m.some
             /\ f.new = m.new /\ f.held = NewNodes(m)
             /\ \A h \in GroupId : f.plan[h] \subseteq NewNodes(m)
  <2>1. LET f == PlanFor(m, g) IN
        /\ f.add = m.add /\ f.upd = m.upd /\ f.some = m.some /\ f.held = NewNodes(m)
    BY <1>1 DEF PlanFor, State
  <2>2. \A h \in GroupId : m.plan[h] = {}
    BY <1>1, OwnLinks DEF Course
  <2>3. LET f == PlanFor(m, g) IN
        /\ f \in State /\ f.req = m.req /\ f.new = m.new
        /\ \A h \in GroupId : f.plan[h] = IF h = g THEN NewNodes(m) ELSE m.plan[h]
    BY <1>1, PlanForTyped
  <2>4. QED
    BY <2>1, <2>2, <2>3
<1>5. ASSUME NEW g \in Similar(Asked(m.req)), Become(c, [PlanFor(m, g) EXCEPT !.pc = "node"])
      PROVE  ScopeInv'
  <2> DEFINE f == PlanFor(m, g)
             e == [f EXCEPT !.pc = "node"]
  <2>1. g \in GroupId
    BY DEF Similar, TypeInv, TypeOK
  <2>2. /\ f \in State /\ f.req = m.req /\ f.add = m.add /\ f.upd = m.upd /\ f.some = m.some
        /\ f.new = m.new /\ f.held = NewNodes(m) /\ \A h \in GroupId : f.plan[h] \subseteq NewNodes(m)
    BY <1>4, <2>1
  <2>3. Become(c, e)
    BY <1>5
  <2> HIDE DEF f
  <2>4. /\ e.pc = "node" /\ e.req = m.req /\ e.add = m.add /\ e.upd = m.upd /\ e.some = m.some
        /\ e.new = m.new /\ e.held = NewNodes(m) /\ e.plan = f.plan
    BY <2>2 DEF State
  <2> HIDE DEF e
  <2>5. InScope(e, node, assign)
    BY <1>3, <2>2, <2>4
  <2>6. QED
    BY <1>1, <2>3, <2>4, <2>5, QuietScope
<1>6. ASSUME NEW g \in GroupId \ UsedGroups,
             Become(c, [PlanFor(m, g) EXCEPT !.pc = "config", !.todo = {g},
                                             !.cfg[g] = Asked(m.req)])
      PROVE  ScopeInv'
  <2> DEFINE f == PlanFor(m, g)
             e == [f EXCEPT !.pc = "config", !.todo = {g}, !.cfg[g] = Asked(m.req)]
  <2>1. /\ f \in State /\ f.req = m.req /\ f.add = m.add /\ f.upd = m.upd /\ f.some = m.some
        /\ f.new = m.new /\ f.held = NewNodes(m) /\ \A h \in GroupId : f.plan[h] \subseteq NewNodes(m)
    BY <1>4
  <2>2. Become(c, e)
    BY <1>6
  <2> HIDE DEF f
  <2>3. /\ e.pc = "config" /\ e.req = m.req /\ e.add = m.add /\ e.upd = m.upd /\ e.some = m.some
        /\ e.new = m.new /\ e.held = NewNodes(m) /\ e.plan = f.plan /\ e.todo = {g}
    BY <2>1 DEF State
  <2> HIDE DEF e
  <2>4. InScope(e, node, assign)
    BY <1>3, <2>1, <2>3
  <2>5. Pending(e) = {g}
    BY <2>3 DEF Pending
  <2>6. config[g] = Absent /\ \A d \in Client : g \notin Pending(cl[d])
    BY FreshGroup
  <2>7. QED
    BY <1>1, <2>2, <2>4, <2>5, <2>6, ScopeStep
<1>7. CASE Become(c, Finish(m, "failed"))
  BY <1>1, <1>7, FinishIs, FinishScope DEF Done
<1>8. QED
  BY <1>5, <1>6, <1>7, SimilarIs

LEMMA ReadScope ==
  ASSUME TypeInv, LinkInv, LoneWriter, NoZero, ScopeInv, NEW c \in Client,
         CheckUpdate(c) \/ ReadOld(c) \/ ReadGroups(c) \/ ReadMembers(c)
  PROVE  ScopeInv'
<1> DEFINE m == cl[c]
<1>1. m \in State /\ UNCHANGED tables /\ m.pc \notin Done
  BY OwnState DEF CheckUpdate, ReadOld, ReadGroups, ReadMembers, Done
<1>2. AllNames(m.req) # {} => Scoped(m, node, assign)
  BY <1>1, OwnScope
<1>3. ASSUME NEW e, e.pc \in {"old", "groups", "members", "reuse"}, e.req = m.req, e.add = m.add,
             e.upd = m.upd, e.some = m.some, e.new = m.new, Become(c, e),
             AllNames(m.req) # {} /\ e.pc = "old" => m.upd # {},
             AllNames(m.req) # {} /\ e.pc # "old" =>
               \A n \in e.held : node[n] \in AllNames(m.req) /\ assign[n] # Absent
      PROVE  ScopeInv'
  <2>1. InScope(e, node, assign)
    BY <1>2, <1>3 DEF InScope, Scoped, NewNodes
  <2>2. QED
    BY <1>1, <1>3, <2>1, QuietScope
<1>4. CASE CheckUpdate(c)
  <2> DEFINE e == [m EXCEPT !.pc = "old"]
  <2>1. m.pc = "exist" /\ (Become(c, Finish(m, "failed")) \/ Become(c, e))
    BY <1>4 DEF CheckUpdate
  <2>2. /\ e.pc = "old" /\ e.req = m.req /\ e.add = m.add /\ e.upd = m.upd /\ e.some = m.some
        /\ e.new = m.new
    BY <1>1 DEF State
  <2> HIDE DEF e
  <2>3. AllNames(m.req) # {} => m.upd # {}
    BY <1>2, <2>1 DEF Scoped
  <2>4. CASE Become(c, e)
    BY <1>3, <2>2, <2>3, <2>4
  <2>5. CASE Become(c, Finish(m, "failed"))
    BY <1>1, <2>5, FinishIs, FinishScope DEF Done
  <2>6. QED
    BY <2>1, <2>4, <2>5
<1>5. CASE ReadOld(c)
  <2> DEFINE old == {n \in Rows(m.upd) : Joined(n)}
             e == [m EXCEPT !.pc = "groups", !.held = old]
  <2>1. m.pc = "old" /\ (Become(c, Finish(m, "failed")) \/ Become(c, e))
    BY <1>5, Zenon DEF ReadOld
  <2>2. AllNames(m.req) # {} => m.upd \subseteq AllNames(m.req) /\ m.upd # {}
    BY <1>2, <2>1 DEF Scoped
  <2>3. \A n \in old : n \in Rows(m.upd) /\ assign[n] # Absent
    BY SqlAssumption DEF Rows, Joined, TypeInv, TypeOK
  <2>4. AllNames(m.req) # {} => \A n \in old : node[n] \in AllNames(m.req) /\ assign[n] # Absent
    BY <1>1, <2>2, <2>3, RowNames
  <2> HIDE DEF old
  <2>5. /\ e.pc = "groups" /\ e.req = m.req /\ e.add = m.add /\ e.upd = m.upd /\ e.some = m.some
        /\ e.new = m.new /\ e.held = old
    BY <1>1 DEF State
  <2> HIDE DEF e
  <2>6. CASE Become(c, e)
    BY <1>3, <2>4, <2>5, <2>6
  <2>7. CASE Become(c, Finish(m, "failed"))
    BY <1>1, <2>7, FinishIs, FinishScope DEF Done
  <2>8. QED
    BY <2>1, <2>6, <2>7
<1>6. CASE ReadGroups(c)
  <2> DEFINE todo == {assign[n] : n \in m.held} \intersect group
             e == [m EXCEPT !.pc = "members", !.todo = todo]
  <2>1. m.pc = "groups" /\ Become(c, e)
    BY <1>6, Zenon DEF ReadGroups
  <2> HIDE DEF todo
  <2>2. /\ e.pc = "members" /\ e.req = m.req /\ e.add = m.add /\ e.upd = m.upd /\ e.some = m.some
        /\ e.new = m.new /\ e.held = m.held
    BY <1>1 DEF State
  <2> HIDE DEF e
  <2>3. QED
    BY <1>2, <1>3, <2>1, <2>2 DEF Scoped
<1>7. CASE ReadMembers(c)
  <2> DEFINE joined == {g \in m.todo \intersect group : config[g] # Absent /\ Members(g) # {}}
             plan == [g \in GroupId |-> IF g \in joined THEN Members(g) ELSE {}]
             cfg == [g \in GroupId |-> IF g \in joined THEN config[g] ELSE Absent]
             e == [m EXCEPT !.pc = "reuse", !.todo = {}, !.plan = plan, !.cfg = cfg]
  <2>1. m.pc = "members" /\ Become(c, e)
    BY <1>7, Zenon DEF ReadMembers
  <2> HIDE DEF plan, cfg
  <2>2. /\ e.pc = "reuse" /\ e.req = m.req /\ e.add = m.add /\ e.upd = m.upd /\ e.some = m.some
        /\ e.new = m.new /\ e.held = m.held
    BY <1>1 DEF State
  <2> HIDE DEF e
  <2>3. QED
    BY <1>2, <1>3, <2>1, <2>2 DEF Scoped
<1>8. QED
  BY <1>4, <1>5, <1>6, <1>7

LEMMA PlanScope ==
  ASSUME TypeInv, LinkInv, LoneWriter, ScopeInv, NEW c \in Client, PlanUpdate(c)
  PROVE  ScopeInv'
<1> DEFINE m == cl[c]
<1>1. /\ m \in State /\ m.pc = "reuse" /\ m.pc \notin Done /\ Phased(m)
      /\ Enough(Unmet(m), GroupId \ UsedGroups) /\ group \subseteq GroupId /\ UNCHANGED tables
      /\ node' = node /\ assign' = assign /\ config' = config
  BY OwnLinks, PlanIs DEF TypeInv, TypeOK, Done, tables
<1>2. PICK same : /\ \A g \in Old(m) \ Unmet(m) : same[Due(m, g)] \in Similar(Due(m, g))
                  /\ Become(c, Planned(m, same))
  BY PlanIs
<1> DEFINE e == Planned(m, same)
<1>3. /\ e.pc = "purge" /\ e.new = m.new
      /\ \A g \in GroupId : e.plan[g] = m.plan[g] \intersect m.held
      /\ \A h \in GroupId : e.cfg[h] # Absent => h \notin UsedGroups
  BY <1>1, <1>2, PlannedFields
<1>4. e.req = m.req /\ e.add = m.add /\ e.upd = m.upd /\ e.some = m.some
  BY <1>1 DEF Planned, State
<1> HIDE DEF e
<1>5. AllNames(m.req) # {} => Scoped(m, node, assign)
  BY <1>1, OwnScope
<1>6. InScope(e, node, assign)
  BY <1>1, <1>3, <1>4, <1>5 DEF InScope, Scoped, NewNodes
<1>7. \A g \in Pending(e) : g \in GroupId \ UsedGroups
  BY <1>3 DEF Pending, Made
<1>8. \A g \in Pending(e) : config[g] = Absent /\ \A d \in Client : g \notin Pending(cl[d])
  BY <1>7, FreshGroup
<1>9. QED
  BY <1>1, <1>2, <1>6, <1>8, ScopeStep DEF e

LEMMA ToPointScope ==
  ASSUME NEW m \in State, NEW nd, NEW as, m.pc \in {"purge", "group"}, InScope(m, nd, as)
  PROVE  LET e == ToPoint(m) IN Pending(e) = {} /\ InScope(e, nd, as)
<1> DEFINE groups == {g \in GroupId : m.plan[g] # {}}
           e == [m EXCEPT !.pc = "point", !.todo = groups]
<1>1. ToPoint(m) = Finish(m, "ok") \/ ToPoint(m) = e
  BY DEF ToPoint
<1> HIDE DEF groups
<1>2. /\ e.pc = "point" /\ e.req = m.req /\ e.add = m.add /\ e.upd = m.upd /\ e.some = m.some
      /\ e.new = m.new /\ e.plan = m.plan
  BY DEF State
<1> HIDE DEF e
<1>3. m.pc \notin Done
  BY DEF Done
<1>4. Pending(e) = {} /\ InScope(e, nd, as)
  BY <1>2, <1>3 DEF Pending, InScope, Scoped, NewNodes
<1>5. Finish(m, "ok").pc \in Done
  BY FinishIs DEF Done
<1>6. QED
  BY <1>1, <1>4, <1>5, DoneScope

LEMMA PurgeScope ==
  ASSUME TypeInv, LinkInv, LoneWriter, ScopeInv, NEW c \in Client, Purge(c)
  PROVE  ScopeInv'
<1> DEFINE i == cl[c]
           m == [i EXCEPT !.drop = {}]
           e == [m EXCEPT !.pc = "config", !.todo = Made(m)]
<1>1. /\ i \in State /\ i.pc = "purge" /\ i.pc \notin Done /\ NewNodes(i) = {}
      /\ UNCHANGED tables /\ node' = node /\ assign' = assign /\ config' = config
  BY OwnLinks, PurgeQuiet DEF Purge, Done, tables, Phased, Updating
<1>2. Become(c, e) \/ Become(c, ToPoint(m))
  BY Zenon DEF Purge
<1>3. /\ InScope(i, node, assign) /\ \A g \in Pending(i) : config[g] = Absent
      /\ \A d \in Client : d # c => Pending(i) \intersect Pending(cl[d]) = {}
  BY OwnScope
<1>4. /\ m \in State /\ m.pc = "purge" /\ m.req = i.req /\ m.add = i.add /\ m.upd = i.upd
      /\ m.some = i.some /\ m.new = i.new /\ m.plan = i.plan /\ m.cfg = i.cfg
  BY <1>1 DEF State
<1> HIDE DEF m, i
<1>5. /\ e.pc = "config" /\ e.req = i.req /\ e.add = i.add /\ e.upd = i.upd
      /\ e.some = i.some /\ e.new = i.new /\ e.plan = i.plan /\ e.todo = Made(m)
  BY <1>4 DEF State, Made
<1> HIDE DEF e
<1>6. InScope(m, node, assign) /\ InScope(e, node, assign)
  BY <1>1, <1>3, <1>4, <1>5 DEF InScope, Scoped, NewNodes
<1>7. Pending(e) = Pending(i)
  BY <1>1, <1>4, <1>5 DEF Pending, Made
<1>8. CASE Become(c, e)
  BY <1>1, <1>3, <1>6, <1>7, <1>8, ScopeStep
<1>9. CASE Become(c, ToPoint(m))
  <2>1. Pending(ToPoint(m)) = {} /\ InScope(ToPoint(m), node, assign)
    BY <1>4, <1>6, ToPointScope
  <2>2. QED
    BY <1>1, <1>9, <2>1, ScopeStep
<1>10. QED
  BY <1>2, <1>8, <1>9

(* The statements that change a table.  Nobody is assigned to the group    *)
(* whose config is inserted, nor to a group that is not there.             *)
LEMMA InsertConfigScope ==
  ASSUME TypeInv, LinkInv, LoneWriter, ScopeInv, NEW c \in Client, NEW g \in GroupId,
         InsertConfig(c, g)
  PROVE  ScopeInv' /\ Keeps(c)
<1> DEFINE i == cl[c]
           m == [i EXCEPT !.todo = @ \ {g}]
           f == [m EXCEPT !.pc = "group", !.todo = Made(m)]
<1>1. /\ i \in State /\ i.pc = "config" /\ i.pc \notin Done /\ g \in i.todo
      /\ node' = node /\ assign' = assign /\ group' = group
  BY OwnState DEF InsertConfig, Done
<1>2. Become(c, m) \/ Become(c, f)
  BY Zenon DEF InsertConfig
<1>3. /\ m \in State /\ m.pc = "config" /\ m.req = i.req /\ m.add = i.add /\ m.upd = i.upd
      /\ m.some = i.some /\ m.new = i.new /\ m.plan = i.plan /\ m.held = i.held
      /\ m.todo = i.todo \ {g}
  BY <1>1 DEF State
<1>4. config' = [config EXCEPT ![g] = m.cfg[g]]
  BY Zenon DEF InsertConfig
<1>5. \A h \in GroupId : h # g => config'[h] = config[h]
  BY <1>4 DEF TypeInv, TypeOK
<1>6. /\ InScope(i, node, assign) /\ \A h \in Pending(i) : config[h] = Absent
      /\ \A d \in Client : d # c => Pending(i) \intersect Pending(cl[d]) = {}
  BY OwnScope
<1>7. Careful(c)
  BY <1>1, <1>5 DEF Careful, Pending
<1>8. i.todo \subseteq GroupId
  BY <1>1 DEF State
<1> HIDE DEF m
<1>9. /\ f.pc = "group" /\ f.req = i.req /\ f.add = i.add /\ f.upd = i.upd
      /\ f.some = i.some /\ f.new = i.new /\ f.plan = i.plan /\ f.held = i.held
  BY <1>3 DEF State
<1> HIDE DEF f
<1>10. /\ Pending(m) = i.todo \ {g} /\ Pending(f) = {} /\ Pending(i) = i.todo
       /\ InScope(m, node', assign') /\ InScope(f, node', assign')
  BY <1>1, <1>3, <1>6, <1>9 DEF Pending, InScope, Scoped, NewNodes
<1>11. ScopeInv'
  <2>1. \A h \in Pending(m) : config'[h] = Absent
    BY <1>5, <1>6, <1>8, <1>10
  <2>2. CASE Become(c, m)
    BY <1>1, <1>6, <1>7, <1>10, <2>1, <2>2, ScopeStep
  <2>3. CASE Become(c, f)
    BY <1>1, <1>7, <1>10, <2>3, ScopeStep
  <2>4. QED
    BY <1>2, <2>2, <2>3
<1>12. ASSUME NEW x \in Name \ {ZeroNid} PROVE Served(x)' = Served(x)
  <2>1. \A n \in NodeId : node[n] = x => assign[n] # g
    BY <1>1, <1>6, <1>10, SqlAssumption DEF LinkInv, LinksResolve, Joined
  <2>2. \A n \in NodeId : node[n] = x /\ assign[n] \in group => config'[assign[n]] = config[assign[n]]
    BY <1>5, <2>1 DEF TypeInv, TypeOK
  <2>3. QED
    BY <1>1, <2>2, SameServed DEF Joined
<1>13. QED
  BY <1>11, <1>12 DEF Keeps

LEMMA InsertGroupScope ==
  ASSUME TypeInv, LinkInv, LoneWriter, ScopeInv, NEW c \in Client, NEW g \in GroupId,
         InsertGroup(c, g)
  PROVE  ScopeInv' /\ Keeps(c)
<1> DEFINE i == cl[c]
           m == [i EXCEPT !.todo = @ \ {g}]
           f == [m EXCEPT !.pc = "node"]
<1>1. /\ i \in State /\ Phased(i) /\ i.pc = "group" /\ i.pc \notin Done
      /\ node' = node /\ assign' = assign /\ group' = group \union {g} /\ config' = config
  BY OwnLinks DEF InsertGroup, Done
<1>2. Become(c, m) \/ (NewNodes(m) # {} /\ Become(c, f)) \/ Become(c, ToPoint(m))
  BY Zenon DEF InsertGroup
<1>3. /\ m \in State /\ m.pc = "group" /\ m.req = i.req /\ m.add = i.add /\ m.upd = i.upd
      /\ m.some = i.some /\ m.new = i.new /\ m.plan = i.plan /\ m.held = i.held
  BY <1>1 DEF State
<1>4. InScope(i, node, assign)
  BY OwnScope
<1>5. Careful(c)
  BY <1>1 DEF Careful
<1>6. ASSUME NEW x \in Name \ {ZeroNid} PROVE Served(x)' = Served(x)
  <2>1. \A n \in NodeId : node[n] = x /\ assign[n] = g => g \in group
    BY <1>1, SqlAssumption DEF LinkInv, LinksResolve, Joined
  <2>2. QED
    BY <1>1, <2>1, SameServed DEF Joined
<1> HIDE DEF m
<1>7. /\ f.pc = "node" /\ f.req = i.req /\ f.add = i.add /\ f.upd = i.upd
      /\ f.some = i.some /\ f.new = i.new /\ f.held = i.held
  BY <1>3 DEF State
<1> HIDE DEF f
<1>8. /\ Pending(m) = {} /\ InScope(m, node', assign')
      /\ Pending(f) = {} /\ InScope(f, node', assign')
  BY <1>1, <1>3, <1>4, <1>7 DEF Pending, InScope, Scoped, NewNodes
<1>9. Pending(ToPoint(m)) = {} /\ InScope(ToPoint(m), node', assign')
  BY <1>3, <1>8, ToPointScope
<1>10. ASSUME NEW e, Become(c, e), Pending(e) = {}, InScope(e, node', assign') PROVE ScopeInv'
  BY <1>1, <1>5, <1>10, ScopeStep
<1>11. ScopeInv'
  BY <1>2, <1>8, <1>9, <1>10
<1>12. QED
  BY <1>6, <1>11 DEF Keeps

LEMMA InsertNodeScope ==
  ASSUME TypeInv, LinkInv, LoneWriter, ScopeInv, NEW c \in Client, NEW n \in NodeId,
         InsertNode(c, n)
  PROVE  ScopeInv' /\ Keeps(c)
<1> DEFINE i == cl[c]
           m == [i EXCEPT !.held = @ \ {n}]
           f == [m EXCEPT !.pc = "link", !.held = NewNodes(m)]
<1>1. /\ i \in State /\ Phased(i) /\ i.pc = "node" /\ i.pc \notin Done /\ n \in i.held
      /\ Facts(i, node, assign, group, config)
      /\ assign' = assign /\ group' = group /\ config' = config
  BY OwnLinks DEF InsertNode, Done
<1>2. Become(c, m) \/ (m.held = {} /\ Become(c, f))
  BY Zenon DEF InsertNode
<1>3. /\ m \in State /\ m.pc = "node" /\ m.req = i.req /\ m.add = i.add /\ m.upd = i.upd
      /\ m.some = i.some /\ m.new = i.new /\ m.plan = i.plan /\ m.held = i.held \ {n}
  BY <1>1 DEF State
<1>4. node' = [node EXCEPT ![n] = m.new[n]]
  BY Zenon DEF InsertNode
<1>5. \A k \in NodeId : node'[k] = IF k = n THEN i.new[n] ELSE node[k]
  BY <1>3, <1>4 DEF TypeInv, TypeOK
<1>6. AllNames(i.req) # {} => Scoped(i, node, assign)
  BY <1>1, OwnScope
<1>7. n \in NewNodes(i) /\ n \in Unlinked(i) /\ assign[n] = Absent
  BY <1>1 DEF Phased, Unlinked, Facts
<1>8. Careful(c)
  BY <1>1, <1>5, <1>7 DEF Careful
<1> HIDE DEF m
<1>9. /\ f.pc = "link" /\ f.req = i.req /\ f.add = i.add /\ f.upd = i.upd
      /\ f.some = i.some /\ f.new = i.new /\ f.held = NewNodes(m)
  BY <1>3 DEF State, NewNodes
<1> HIDE DEF f
<1>10. NewNodes(m) = NewNodes(i) /\ NewNodes(f) = NewNodes(i) /\ NewNodes(i) \subseteq NodeId
  BY <1>3, <1>9 DEF NewNodes
<1>11. AllNames(i.req) # {} =>
         \A k \in NewNodes(i) \ m.held : node'[k] \in AllNames(i.req) \union {Absent}
  BY <1>1, <1>3, <1>5, <1>6, <1>7, <1>10 DEF Scoped
<1>12. Pending(m) = {} /\ InScope(m, node', assign')
  BY <1>3, <1>6, <1>10, <1>11 DEF Pending, InScope, Scoped
<1>13. m.held = {} => Pending(f) = {} /\ InScope(f, node', assign')
  BY <1>6, <1>9, <1>10, <1>11 DEF Pending, InScope, Scoped
<1>14. ASSUME NEW e, Become(c, e), Pending(e) = {}, InScope(e, node', assign') PROVE ScopeInv'
  BY <1>1, <1>8, <1>14, ScopeStep
<1>15. ScopeInv'
  BY <1>2, <1>12, <1>13, <1>14
<1>16. ASSUME NEW x \in Name \ {ZeroNid} PROVE Served(x)' = Served(x)
  <2>1. ~Joined(n)
    BY <1>7, SqlAssumption DEF Joined, TypeInv, TypeOK
  <2>2. QED
    BY <1>1, <1>5, <2>1, SameServed DEF Joined
<1>17. QED
  BY <1>15, <1>16 DEF Keeps

LEMMA InsertLinkScope ==
  ASSUME TypeInv, LinkInv, LoneWriter, ScopeInv, NEW c \in Client, NEW n \in NodeId,
         InsertLink(c, n)
  PROVE  ScopeInv' /\ Keeps(c)
<1> DEFINE i == cl[c]
           m == [i EXCEPT !.held = @ \ {n}]
<1>1. /\ i \in State /\ Course(c, i) /\ i.pc = "link" /\ i.pc \notin Done /\ n \in i.held
      /\ Facts(i, node, assign, group, config)
      /\ node' = node /\ group' = group /\ config' = config
  BY OwnLinks DEF InsertLink, Done
<1>2. Become(c, m) \/ Become(c, AfterAdd(m))
  BY Zenon DEF InsertLink
<1>3. /\ m \in State /\ m.pc = "link" /\ m.req = i.req /\ m.add = i.add /\ m.upd = i.upd
      /\ m.some = i.some /\ m.new = i.new /\ m.held = i.held \ {n}
  BY <1>1 DEF State
<1>4. PICK g \in GroupId : assign' = [assign EXCEPT ![n] = g]
  BY DEF InsertLink
<1> HIDE DEF m
<1>5. g # Absent /\ \A k \in NodeId : assign'[k] = IF k = n THEN g ELSE assign[k]
  BY <1>4, SqlAssumption DEF TypeInv, TypeOK
<1>6. AllNames(i.req) # {} => Scoped(i, node, assign)
  BY <1>1, OwnScope
<1>7. n \in NewNodes(i) /\ assign[n] = Absent
  BY <1>1 DEF Course, Unlinked, Facts
<1>8. Careful(c)
  BY <1>1, <1>5 DEF Careful
<1>9. NewNodes(m) = NewNodes(i)
  BY <1>3 DEF NewNodes
<1>10. Pending(m) = {} /\ InScope(m, node', assign')
  BY <1>1, <1>3, <1>6, <1>9 DEF Pending, InScope, Scoped
<1>11. Pending(AfterAdd(m)) = {} /\ InScope(AfterAdd(m), node', assign')
  BY <1>3, <1>6, AfterAddScope DEF Scoped
<1>12. ASSUME NEW e, Become(c, e), Pending(e) = {}, InScope(e, node', assign') PROVE ScopeInv'
  BY <1>1, <1>8, <1>12, ScopeStep
<1>13. ScopeInv'
  BY <1>2, <1>10, <1>11, <1>12
<1>14. ASSUME AllNames(i.req) # {}, NEW x \in Name \ {ZeroNid}, x \notin AllNames(i.req)
       PROVE  Served(x)' = Served(x)
  <2>1. node[n] # x
    BY <1>1, <1>6, <1>14, SqlAssumption DEF Scoped
  <2>2. QED
    BY <1>1, <1>5, <2>1, SameServed DEF Joined
<1>15. QED
  BY <1>13, <1>14 DEF Keeps

LEMMA PointScope ==
  ASSUME TypeInv, LinkInv, LoneWriter, ScopeInv, NEW c \in Client, NEW g \in GroupId, Point(c, g)
  PROVE  ScopeInv' /\ Keeps(c)
<1> DEFINE i == cl[c]
           m == [i EXCEPT !.todo = @ \ {g}]
<1>1. /\ i \in State /\ Course(c, i) /\ i.pc = "point" /\ i.pc \notin Done
      /\ Facts(i, node, assign, group, config)
      /\ node' = node /\ group' = group /\ config' = config
  BY OwnLinks DEF Point, Done
<1>2. Become(c, m) \/ Become(c, Finish(m, "ok"))
  BY Zenon DEF Point
<1>3. \A n \in NodeId : assign'[n] = IF n \in m.plan[g] /\ assign[n] # Absent THEN m.to[g] ELSE assign[n]
  BY Zenon DEF Point
<1>4. /\ m.pc = "point" /\ m.req = i.req /\ m.add = i.add /\ m.upd = i.upd
      /\ m.some = i.some /\ m.new = i.new /\ m.plan = i.plan /\ m.to = i.to
  BY <1>1 DEF State
<1> HIDE DEF m
<1>5. AllNames(i.req) # {} => Scoped(i, node, assign)
  BY <1>1, OwnScope
<1>6. NewNodes(i) = {} /\ NewNodes(m) = {}
  BY <1>1, <1>4 DEF Course, NewNodes
<1>7. i.plan[g] # {} => i.to[g] # Absent
  BY <1>1, <1>6, SqlAssumption DEF Facts, Aim, Whole, TypeInv, TypeOK
<1>8. \A n \in NodeId : assign[n] # Absent => assign'[n] # Absent
  BY <1>3, <1>4, <1>7
<1>9. Careful(c)
  BY <1>1, <1>8 DEF Careful
<1>10. \A h \in GroupId : i.plan[h] \subseteq NodeId
  BY <1>1 DEF State
<1>11. Pending(m) = {} /\ InScope(m, node', assign')
  BY <1>1, <1>4, <1>5, <1>6, <1>8, <1>10 DEF Pending, InScope, Scoped
<1>12. ASSUME Become(c, m) PROVE ScopeInv'
  BY <1>1, <1>9, <1>11, <1>12, ScopeStep
<1>13. ScopeInv'
  BY <1>1, <1>2, <1>9, <1>12, FinishIs, FinishScope DEF Done
<1>14. ASSUME AllNames(i.req) # {}, NEW x \in Name \ {ZeroNid}, x \notin AllNames(i.req)
       PROVE  Served(x)' = Served(x)
  <2>1. \A n \in i.plan[g] : node[n] # x
    BY <1>1, <1>5, <1>6, <1>14 DEF Scoped
  <2>2. \A n \in NodeId : node[n] = x => assign'[n] = assign[n]
    BY <1>3, <1>4, <2>1
  <2>3. QED
    BY <1>1, <2>2, SameServed DEF Joined
<1>15. QED
  BY <1>13, <1>14 DEF Keeps

(* Delete, by nodes: the rows it finds are of the nodes to delete; those   *)
(* it takes the assignments of are gone; the groups it drops are empty.    *)
LEMMA DeleteScope ==
  ASSUME TypeInv, LinkInv, LoneWriter, NoZero, ScopeInv, NEW c \in Client, DeleteStep(c)
  PROVE  ScopeInv' /\ Keeps(c)
<1> DEFINE m == cl[c]
           D == {"delnodes", "unlink", "count", "dropgroups", "dropconfigs"}
<1>1. m \in State /\ Course(c, m) /\ Facts(m, node, assign, group, config)
  BY OwnLinks
<1>2. m.pc \in D
  BY <1>1 DEF Course, DeleteStep, DeleteNodes, DeleteLinks, DropGroups, DropConfigs, CountMembers,
              DeleteConfigs, DeleteGroups, DeleteGroupLinks, DeleteMembers
<1>3. m.req.method = "DELETE" /\ m.pc \notin Done
  BY <1>1, <1>2 DEF Course, Done
<1>4. AllNames(m.req) # {} => Scoped(m, node, assign)
  BY <1>3, OwnScope
<1>5. ASSUME NEW e, Become(c, e), e.pc \in D \ {"delnodes"}, e.req = m.req, e.add = m.add,
             e.upd = m.upd, e.some = m.some, e.new = m.new,
             e.pc = "unlink" => \A n \in e.held : node'[n] = Absent
      PROVE  ScopeInv'
  <2>1. Pending(e) = {}
    BY <1>5 DEF Pending
  <2>2. InScope(e, node', assign')
    BY <1>4, <1>5 DEF InScope, Scoped, NewNodes
  <2>3. QED
    BY <1>3, <1>5, <2>1, <2>2, ScopeStep
<1>6. ASSUME NEW e, NEW pc \in Done, Become(c, Finish(e, pc)) PROVE ScopeInv'
  BY <1>3, <1>6, FinishIs, FinishScope
<1>7. "ok" \in Done /\ "failed" \in Done
  BY DEF Done
<1>8. Absent \notin group /\ assign \in [NodeId -> GroupId \union {Absent}]
  BY SqlAssumption DEF TypeInv, TypeOK
<1>9. CASE DeleteNodes(c)
  <2> DEFINE gone == Rows(m.upd)
             e == [m EXCEPT !.pc = "unlink", !.held = gone]
  <2>1. /\ m.pc = "delnodes" /\ (Become(c, Finish(m, "failed")) \/ Become(c, e))
        /\ assign' = assign /\ group' = group /\ config' = config
        /\ \A n \in NodeId : node'[n] = IF n \in gone THEN Absent ELSE node[n]
    BY <1>9, Zenon DEF DeleteNodes
  <2>2. \A n \in gone : n \in NodeId /\ node'[n] = Absent
    BY <2>1 DEF Rows
  <2>3. ASSUME AllNames(m.req) # {}, NEW x \in Name \ {ZeroNid}, x \notin AllNames(m.req)
        PROVE  Served(x)' = Served(x)
    <3>1. \A n \in gone : node[n] # x
      BY <1>3, <1>4, <2>1, <2>3, RowNames DEF Scoped
    <3>2. \A n \in NodeId : node'[n] = x <=> node[n] = x
      BY <2>1, <3>1, SqlAssumption
    <3>3. QED
      BY <2>1, <3>2, SameServed DEF Joined
  <2> HIDE DEF gone
  <2>4. /\ e.pc = "unlink" /\ e.req = m.req /\ e.add = m.add /\ e.upd = m.upd /\ e.some = m.some
        /\ e.new = m.new /\ e.held = gone
    BY <1>1 DEF State
  <2> HIDE DEF e
  <2>5. ScopeInv'
    BY <1>5, <1>6, <1>7, <2>1, <2>2, <2>4
  <2>6. QED
    BY <2>3, <2>5 DEF Keeps
<1>10. CASE DeleteLinks(c)
  <2> DEFINE groups == {assign[n] : n \in m.held} \ {Absent}
             e == [m EXCEPT !.pc = "count", !.todo = groups]
  <2>1. /\ m.pc = "unlink" /\ (Become(c, Finish(m, "ok")) \/ Become(c, e))
        /\ node' = node /\ group' = group /\ config' = config
        /\ \A n \in NodeId : assign'[n] = IF n \in m.held THEN Absent ELSE assign[n]
    BY <1>10, Zenon DEF DeleteLinks
  <2>2. ASSUME AllNames(m.req) # {}, NEW x \in Name \ {ZeroNid} PROVE Served(x)' = Served(x)
    <3>1. \A n \in NodeId : node[n] = x => assign'[n] = assign[n]
      BY <1>4, <2>1, <2>2, SqlAssumption DEF Scoped
    <3>2. QED
      BY <2>1, <3>1, SameServed DEF Joined
  <2> HIDE DEF groups
  <2>3. /\ e.pc = "count" /\ e.req = m.req /\ e.add = m.add /\ e.upd = m.upd /\ e.some = m.some
        /\ e.new = m.new
    BY <1>1 DEF State
  <2> HIDE DEF e
  <2>4. ScopeInv'
    BY <1>5, <1>6, <1>7, <2>1, <2>3
  <2>5. QED
    BY <2>2, <2>4 DEF Keeps
<1>11. ASSUME NEW g \in GroupId, CountMembers(c, g) PROVE ScopeInv' /\ Keeps(c)
  <2> DEFINE drop == IF Members(g) = {} THEN m.drop \union {g} ELSE m.drop
             e == [m EXCEPT !.todo = @ \ {g}, !.drop = drop]
             f == [e EXCEPT !.pc = "dropgroups"]
  <2>1. /\ m.pc = "count" /\ UNCHANGED tables
        /\ Become(c, e) \/ Become(c, Finish(e, "ok")) \/ Become(c, f)
    BY <1>11, Zenon DEF CountMembers
  <2> HIDE DEF drop
  <2>2. /\ e.pc = "count" /\ e.req = m.req /\ e.add = m.add /\ e.upd = m.upd /\ e.some = m.some
        /\ e.new = m.new
        /\ f.pc = "dropgroups" /\ f.req = m.req /\ f.add = m.add /\ f.upd = m.upd /\ f.some = m.some
        /\ f.new = m.new
    BY <1>1, <2>1 DEF State
  <2> HIDE DEF e, f
  <2>3. ScopeInv'
    BY <1>5, <1>6, <1>7, <2>1, <2>2
  <2>4. QED
    BY <2>1, <2>3, QuietKeeps
<1>12. ASSUME m.pc \in {"dropgroups", "dropconfigs"}, node' = node, assign' = assign,
              group' \subseteq group,
              \A g \in GroupId : g \notin m.drop =>
                /\ g \in group' <=> g \in group
                /\ config'[g] = config[g]
       PROVE  Keeps(c)
  <2>1. ASSUME NEW x \in Name \ {ZeroNid} PROVE Served(x)' = Served(x)
    <3>1. \A n \in NodeId : node[n] = x => assign[n] \notin m.drop
      BY <1>1, <1>12, SqlAssumption DEF Facts
    <3>2. group \subseteq GroupId /\ group' \subseteq GroupId
      BY <1>12 DEF TypeInv, TypeOK
    <3>3. QED
      BY <1>12, <3>1, <3>2, SameServed DEF Joined
  <2>2. QED
    BY <2>1 DEF Keeps
<1>13. CASE DropGroups(c)
  <2> DEFINE gone == m.drop \intersect group
             e == [m EXCEPT !.pc = "dropconfigs", !.drop = gone]
  <2>1. /\ m.pc = "dropgroups" /\ (Become(c, Finish(m, "failed")) \/ Become(c, e))
        /\ node' = node /\ assign' = assign /\ config' = config /\ group' = group \ gone
    BY <1>13, Zenon DEF DropGroups
  <2>2. Keeps(c)
    BY <1>12, <2>1
  <2> HIDE DEF gone
  <2>3. /\ e.pc = "dropconfigs" /\ e.req = m.req /\ e.add = m.add /\ e.upd = m.upd /\ e.some = m.some
        /\ e.new = m.new
    BY <1>1 DEF State
  <2> HIDE DEF e
  <2>4. QED
    BY <1>5, <1>6, <1>7, <2>1, <2>2, <2>3
<1>14. CASE DropConfigs(c)
  <2>1. /\ m.pc = "dropconfigs" /\ Become(c, Finish(m, "ok"))
        /\ node' = node /\ assign' = assign /\ group' = group
        /\ \A g \in GroupId : config'[g] = IF g \in m.drop THEN Absent ELSE config[g]
    BY <1>14, Zenon DEF DropConfigs
  <2>2. QED
    BY <1>6, <1>7, <1>12, <2>1
<1>15. ~(DeleteConfigs(c) \/ DeleteGroups(c) \/ DeleteGroupLinks(c) \/ DeleteMembers(c))
  BY <1>2 DEF DeleteConfigs, DeleteGroups, DeleteGroupLinks, DeleteMembers
<1>16. QED
  BY <1>9, <1>10, <1>11, <1>13, <1>14, <1>15 DEF DeleteStep

LEMMA InitScope == Init => ScopeInv
<1> SUFFICES ASSUME Init PROVE ScopeInv
  OBVIOUS
<1>1. \A c \in Client : cl[c].pc \in Done
  BY DEF Init, Blank, Done
<1>2. QED
  BY <1>1, DoneScope DEF ScopeInv

LEMMA StepScope ==
  ASSUME TypeInv, LinkInv, LoneWriter, NoZero, ScopeInv, NEW c \in Client,
         \/ Begin(c) \/ StatementFails(c) \/ CheckSet(c) \/ ListSet(c)
         \/ AddStep(c) \/ UpdateStep(c) \/ DeleteStep(c)
  PROVE  ScopeInv' /\ Keeps(c)
<1>1. CASE Begin(c) \/ StatementFails(c) \/ CheckSet(c) \/ ListSet(c)
  <2>1. UNCHANGED tables
    BY <1>1 DEF Begin, StatementFails, CheckSet, ListSet
  <2>2. QED
    BY <1>1, <2>1, BeginScope, SetScope, QuietKeeps
<1>2. CASE FindNodes(c) \/ FindSimilar(c)
  <2>1. UNCHANGED tables
    BY <1>2 DEF FindNodes, FindSimilar
  <2>2. QED
    BY <1>2, <2>1, FindScope, SimilarScope, QuietKeeps
<1>3. CASE AddStep(c)
  BY <1>2, <1>3, InsertConfigScope, InsertGroupScope, InsertNodeScope, InsertLinkScope DEF AddStep
<1>4. CASE CheckUpdate(c) \/ ReadOld(c) \/ ReadGroups(c) \/ ReadMembers(c) \/ PlanUpdate(c) \/ Purge(c)
  <2>1. UNCHANGED tables
    BY <1>4, PurgeQuiet DEF CheckUpdate, ReadOld, ReadGroups, ReadMembers, PlanUpdate
  <2>2. QED
    BY <1>4, <2>1, ReadScope, PlanScope, PurgeScope, QuietKeeps
<1>5. CASE UpdateStep(c)
  BY <1>4, <1>5, PointScope DEF UpdateStep
<1>6. QED
  BY <1>1, <1>3, <1>5, DeleteScope

(* OthersUntouched: what a node is served stays as it was while a request  *)
(* for other nodes is carried out, statement by statement, although they   *)
(* may be of one group and others add nodes to it meanwhile.               *)
THEOREM OthersKept == ASSUME LoneWriter, ByName, NoZero PROVE Spec => OthersUntouched
<1> DEFINE Inv == TypeInv /\ LinkInv /\ ScopeInv
           Untouched == \A c \in Client, x \in Name \ {ZeroNid} :
             LET names == AllNames(cl[c].req) IN
             cl'[c] # cl[c] /\ names # {} /\ x \notin names /\ cl[c].pc \notin Done
               => Served(x)' = Served(x)
<1>1. Inv /\ [Next]_vars => Inv'
  <2> SUFFICES ASSUME Inv, [Next]_vars PROVE ScopeInv'
    BY StepTyped, StepLinks
  <2>1. CASE UNCHANGED vars
    BY <2>1 DEF vars, tables, ScopeInv
  <2>2. CASE Next
    BY <2>2, StepScope DEF Next
  <2>3. QED
    BY <2>1, <2>2
<1>2. Inv /\ [Next]_vars => [Untouched]_vars
  <2> SUFFICES ASSUME Inv, Next PROVE Untouched
    OBVIOUS
  <2>1. PICK c \in Client : /\ Keeps(c)
                            /\ \/ Begin(c) \/ StatementFails(c) \/ CheckSet(c) \/ ListSet(c)
                               \/ AddStep(c) \/ UpdateStep(c) \/ DeleteStep(c)
    BY StepScope DEF Next
  <2>2. \E m : Become(c, m)
    BY <2>1, Zenon DEF Begin, StatementFails, CheckSet, ListSet, AddStep, UpdateStep, DeleteStep,
       FindNodes, FindSimilar, InsertConfig, InsertGroup, InsertNode, InsertLink, CheckUpdate,
       ReadOld, ReadGroups, ReadMembers, PlanUpdate, Purge, Point, DeleteNodes, DeleteLinks,
       CountMembers, DropGroups, DropConfigs, DeleteConfigs, DeleteGroups, DeleteGroupLinks,
       DeleteMembers
  <2>3. \A d \in Client : cl'[d] # cl[d] => d = c
    BY <2>2, OthersStay
  <2>4. QED
    BY <2>1, <2>3 DEF Keeps
<1>3. Init => Inv
  BY InitTyped, InitLinks, InitScope
<1>4. Spec => [][Untouched]_vars
  BY <1>1, <1>2, <1>3, PTL DEF Spec
<1>5. QED
  BY <1>4 DEF OthersUntouched

-----------------------------------------------------------------------------
(* ImplementsNodeTable, of a lone client.  A row is served, as the readers *)
(* join it, by its name and the config that it comes to.                   *)
NoRow == [name |-> Absent, rec |-> Absent]
Row(n) ==
  IF node[n] # Absent /\ Joined(n) THEN [name |-> node[n], rec |-> config[assign[n]]] ELSE NoRow

OneOf(set) == IF set = {} THEN Absent ELSE CHOOSE rec \in set : TRUE
Conf(x) == OneOf(Served(x))

NoZeroNid == ZeroNid \notin Nid

LEMMA NamesAre ==
  ASSUME NoZeroNid, NEW x \in Name PROVE x # ZeroNid /\ x # Absent
BY SqlAssumption DEF NoZeroNid, Name, Alias

LEMMA ServedIs ==
  ASSUME NoZeroNid, NEW x \in Name
  PROVE  /\ Served(x) = {Row(n).rec : n \in {k \in NodeId : Row(k).name = x}}
         /\ Served(x)' = {Row(n)'.rec : n \in {k \in NodeId : Row(k)'.name = x}}
<1>1. x # ZeroNid /\ x # Absent
  BY NamesAre
<1>2. Rows({x}) = {n \in NodeId : node[n] = x} /\ Rows({x})' = {n \in NodeId : node'[n] = x}
  BY <1>1 DEF Rows, RowMatch
<1>3. \A n \in NodeId : /\ Row(n).name = x <=> node[n] = x /\ Joined(n)
                        /\ Row(n).name = x => Row(n).rec = config[assign[n]]
  BY <1>1 DEF Row, NoRow
<1>4. \A n \in NodeId : /\ Row(n)'.name = x <=> node'[n] = x /\ Joined(n)'
                        /\ Row(n)'.name = x => Row(n)'.rec = config'[assign'[n]]
  BY <1>1 DEF Row, NoRow
<1>5. Served(x) = {Row(n).rec : n \in {k \in NodeId : Row(k).name = x}}
  BY <1>2, <1>3 DEF Served
<1>6. Served(x)' = {Row(n)'.rec : n \in {k \in NodeId : Row(k)'.name = x}}
  BY <1>2, <1>4 DEF Served
<1>7. QED
  BY <1>5, <1>6

LEMMA RowsDiffer ==
  /\ NoDuplicateNodes => \A n, k \in NodeId : Row(n).name # Absent /\ Row(n).name = Row(k).name => n = k
  /\ NoDuplicateNodes' => \A n, k \in NodeId : Row(n)'.name # Absent /\ Row(n)'.name = Row(k)'.name => n = k
<1>1. \A n \in NodeId : Row(n).name # Absent => Row(n).name = node[n] /\ node[n] # Absent
  BY DEF Row, NoRow
<1>2. \A n \in NodeId : Row(n)'.name # Absent => Row(n)'.name = node'[n] /\ node'[n] # Absent
  BY DEF Row, NoRow
<1>3. QED
  BY <1>1, <1>2 DEF NoDuplicateNodes

(* What the table holds of a name.                                         *)
LEMMA ConfIs ==
  ASSUME NoZeroNid, NoDuplicateNodes, NoDuplicateNodes', NEW x \in Name
  PROVE  /\ \A n \in NodeId : Row(n).name = x => Conf(x) = Row(n).rec
         /\ (\A n \in NodeId : Row(n).name # x) => Conf(x) = Absent
         /\ \A n \in NodeId : Row(n)'.name = x => Conf(x)' = Row(n)'.rec
         /\ (\A n \in NodeId : Row(n)'.name # x) => Conf(x)' = Absent
<1>1. x # Absent
  BY NamesAre
<1>2. ASSUME NEW n \in NodeId, Row(n).name = x PROVE Conf(x) = Row(n).rec
  <2>1. \A k \in NodeId : Row(k).name = x => k = n
    BY <1>1, <1>2, RowsDiffer
  <2>2. Served(x) = {Row(n).rec}
    BY <1>2, <2>1, ServedIs
  <2>3. QED
    BY <2>2 DEF Conf, OneOf
<1>3. ASSUME \A n \in NodeId : Row(n).name # x PROVE Conf(x) = Absent
  BY <1>3, ServedIs DEF Conf, OneOf
<1>4. ASSUME NEW n \in NodeId, Row(n)'.name = x PROVE Conf(x)' = Row(n)'.rec
  <2>1. \A k \in NodeId : Row(k)'.name = x => k = n
    BY <1>1, <1>4, RowsDiffer
  <2>2. Served(x)' = {Row(n)'.rec}
    BY <1>4, <2>1, ServedIs
  <2>3. QED
    BY <2>2 DEF Conf, OneOf
<1>5. ASSUME \A n \in NodeId : Row(n)'.name # x PROVE Conf(x)' = Absent
  BY <1>5, ServedIs DEF Conf, OneOf
<1>6. QED
  BY <1>2, <1>3, <1>4, <1>5

(* The lone client, and the table's variables.                             *)
Alone(c) == Client = {c}

LEMMA AloneIs ==
  ASSUME NEW c \in Client, Alone(c)
  PROVE  (CHOOSE d \in Client : TRUE) = c /\ \A d \in Client : d = c
BY DEF Alone

TableNext ==
  \/ Table!Next
  \/ /\ cl'[CHOOSE c \in Client : TRUE].req = cl[CHOOSE c \in Client : TRUE].req
     /\ [x \in Name |-> Conf(x)'] = [x \in Name |-> Conf(x)]

LEMMA TableWords ==
  /\ Table!Name = Name
  /\ \A r : Table!AllNames(r) = AllNames(r)
  /\ \A rec, r, ids : Table!Patched(rec, r, ids) = Patched(rec, r, ids)
BY DEF Table!Name, Name, Table!Alias, Alias, Table!AllNames, AllNames, Table!Patched, Patched

(* The table's variables.                                                  *)
Lone == cl[CHOOSE c \in Client : TRUE].req
Held == [x \in Name |-> IF Served(x) = {} THEN Absent ELSE CHOOSE rec \in Served(x) : TRUE]

LEMMA HeldIs ==
  ASSUME NEW c \in Client, Alone(c)
  PROVE  /\ Lone = cl[c].req /\ Lone' = cl'[c].req
         /\ Held = [y \in Name |-> Conf(y)] /\ Held' = [y \in Name |-> Conf(y)']
BY AloneIs DEF Lone, Held, Conf, OneOf

(* The steps of the table, by rows.                                        *)
LEMMA SameConf ==
  ASSUME NoZeroNid, \A n \in NodeId : Row(n)' = Row(n)
  PROVE  \A x \in Name : Conf(x)' = Conf(x)
<1> SUFFICES ASSUME NEW x \in Name PROVE Conf(x)' = Conf(x)
  OBVIOUS
<1>1. /\ Served(x) = {Row(n).rec : n \in {k \in NodeId : Row(k).name = x}}
      /\ Served(x)' = {Row(n)'.rec : n \in {k \in NodeId : Row(k)'.name = x}}
  BY ServedIs
<1>2. {k \in NodeId : Row(k)'.name = x} = {k \in NodeId : Row(k).name = x}
  OBVIOUS
<1>3. Served(x)' = Served(x)
  BY <1>1, <1>2
<1>4. QED
  BY <1>3 DEF Conf

LEMMA QuietRows ==
  ASSUME NoZeroNid, NEW c \in Client, Alone(c), cl'[c].req = cl[c].req,
         \A n \in NodeId : Row(n)' = Row(n)
  PROVE  TableNext
BY SameConf, AloneIs DEF TableNext

LEMMA AskRows ==
  ASSUME NoZeroNid, NEW c \in Client, Alone(c), cl'[c].req \in Requests,
         \A n \in NodeId : Row(n)' = Row(n)
  PROVE  TableNext
<1>1. [x \in Name |-> Conf(x)'] = [x \in Name |-> Conf(x)]
  BY SameConf
<1>2. Table!Ask
  BY <1>1, AloneIs DEF Table!Ask, Conf, OneOf
<1>3. QED
  BY <1>2 DEF TableNext, Table!Next

(* A name of none of the rows that change.                                 *)
LEMMA OtherRows ==
  ASSUME NoZeroNid, NoDuplicateNodes, NoDuplicateNodes', NEW set \in SUBSET NodeId,
         \A n \in NodeId : n \notin set => Row(n)' = Row(n),
         NEW x \in Name, \A n \in set : Row(n).name # x /\ Row(n)'.name # x
  PROVE  Conf(x)' = Conf(x)
<1>1. \A k \in NodeId : Row(k).name = x \/ Row(k)'.name = x => k \notin set
  OBVIOUS
<1>2. CASE \E k \in NodeId : Row(k).name = x
  <2>1. PICK k \in NodeId : Row(k).name = x
    BY <1>2
  <2>2. Row(k)' = Row(k)
    BY <1>1, <2>1
  <2>3. QED
    BY <2>1, <2>2, ConfIs
<1>3. CASE \A k \in NodeId : Row(k).name # x
  <2>1. \A k \in NodeId : Row(k)'.name # x
    BY <1>1, <1>3
  <2>2. QED
    BY <1>3, <2>1, ConfIs
<1>4. QED
  BY <1>2, <1>3

LEMMA AddRows ==
  ASSUME NoZeroNid, NEW c \in Client, Alone(c), NoDuplicateNodes, NoDuplicateNodes',
         cl'[c].req = cl[c].req, cl[c].req.method \in {"POST", "PUT"}, cl[c].req.kernel # None,
         NEW n \in NodeId, NEW x \in Name, x \in AllNames(cl[c].req), Row(n) = NoRow,
         Row(n)' = [name |-> x, rec |-> Asked(cl[c].req)],
         \A k \in NodeId : k # n => Row(k)' = Row(k)
  PROVE  TableNext
<1> DEFINE r == cl[c].req
<1>1. x # Absent
  BY NamesAre
<1>2. \A k \in NodeId : Row(k).name # x
  <2>1. Row(n)'.name = x /\ Row(n).name # x
    BY <1>1 DEF NoRow
  <2>2. \A k \in NodeId : k # n => Row(k)'.name # x
    BY <1>1, <2>1, RowsDiffer
  <2>3. QED
    BY <2>1, <2>2
<1>3. Conf(x) = Absent /\ Conf(x)' = Asked(r)
  BY <1>2, ConfIs
<1>4. ASSUME NEW y \in Name, y # x PROVE Conf(y)' = Conf(y)
  <2>1. Row(n).name # y /\ Row(n)'.name # y
    BY <1>4, NamesAre DEF NoRow
  <2>2. \A k \in {n} : Row(k).name # y /\ Row(k)'.name # y
    BY <2>1
  <2>3. \A k \in NodeId : k \notin {n} => Row(k)' = Row(k)
    OBVIOUS
  <2>4. {n} \in SUBSET NodeId
    OBVIOUS
  <2>5. QED
    BY <2>2, <2>3, <2>4, OtherRows
<1>5. [y \in Name |-> Conf(y)'] = [[y \in Name |-> Conf(y)] EXCEPT ![x] = Asked(r)]
  BY <1>3, <1>4
<1>6. Table!Add(x)
  <2>1. Asked(r) = [params |-> r.params, kernel |-> r.kernel, initrd |-> r.initrd]
    BY DEF Asked
  <2>2. [y \in Name |-> Conf(y)][x] = Absent
    BY <1>3
  <2>3. QED
    BY <1>5, <2>1, <2>2, AloneIs DEF Table!Add, Table!AllNames, AllNames, Conf, OneOf
<1>7. QED
  BY <1>6 DEF TableNext, Table!Next, Table!Name, Name, Table!Alias, Alias

LEMMA ChangeRows ==
  ASSUME NoZeroNid, NEW c \in Client, Alone(c), NoDuplicateNodes, NoDuplicateNodes',
         cl'[c].req = cl[c].req, cl[c].req.method \in {"PUT", "PATCH"},
         NEW set \in SUBSET NodeId, \A n \in NodeId : n \notin set => Row(n)' = Row(n),
         \A n \in set :
           LET r == cl[c].req IN
           /\ Row(n).name \in Name /\ (AllNames(r) = {} \/ Row(n).name \in AllNames(r))
           /\ Row(n).rec # Absent
           /\ Row(n)' = [name |-> Row(n).name, rec |-> Patched(Row(n).rec, r, r)]
  PROVE  TableNext
<1> DEFINE r == cl[c].req
           names == {Row(n).name : n \in set}
           conf == [y \in Name |-> Conf(y)]
<1>1. names \in SUBSET Name /\ (AllNames(r) = {} \/ names \subseteq AllNames(r))
  OBVIOUS
<1>2. ASSUME NEW x \in names
      PROVE  Conf(x) # Absent /\ Conf(x)' = Patched(Conf(x), r, r)
  <2>1. PICK n \in set : x = Row(n).name
    OBVIOUS
  <2>2. Row(n)'.name = x /\ Row(n)'.rec = Patched(Row(n).rec, r, r) /\ Row(n).rec # Absent
    BY <2>1
  <2>3. QED
    BY <1>1, <2>1, <2>2, ConfIs
<1>3. ASSUME NEW x \in Name, x \notin names PROVE Conf(x)' = Conf(x)
  <2>1. \A n \in set : Row(n).name # x /\ Row(n)'.name # x
    BY <1>3
  <2>2. QED
    BY <2>1, OtherRows
<1> HIDE DEF names
<1>4. /\ \A x \in names : conf[x] # Absent
      /\ [y \in Name |-> Conf(y)'] =
           [x \in Name |-> IF x \in names THEN Patched(conf[x], r, r) ELSE conf[x]]
  BY <1>1, <1>2, <1>3
<1>5. Table!Change(names)
  <2>1. Lone = r /\ Lone' = Lone /\ Held = conf /\ Held' = [y \in Name |-> Conf(y)']
    BY HeldIs
  <2>2. Held' = [x \in Table!Name |-> IF x \in names THEN Table!Patched(Held[x], Lone, Lone)
                                      ELSE Held[x]]
    BY <1>4, <2>1, TableWords
  <2>3. /\ Lone.method \in {"PUT", "PATCH"}
        /\ Table!AllNames(Lone) = {} \/ names \subseteq Table!AllNames(Lone)
        /\ \A x \in names : Held[x] # Absent
    BY <1>1, <1>4, <2>1, TableWords
  <2>4. QED
    BY <2>1, <2>2, <2>3, Zenon DEF Table!Change, Held, Lone
<1>6. QED
  BY <1>1, <1>5 DEF TableNext, Table!Next, Table!Name, Name, Table!Alias, Alias

(* By name, or by what the rows come to.                                   *)
LEMMA RemoveRows ==
  ASSUME NoZeroNid, NEW c \in Client, Alone(c), NoDuplicateNodes, NoDuplicateNodes',
         cl'[c].req = cl[c].req, cl[c].req.method = "DELETE", TypeOK,
         NEW set \in SUBSET NodeId, \A n \in NodeId : n \notin set => Row(n)' = Row(n),
         \A n \in set : Row(n)' = NoRow,
         LET r == cl[c].req IN
         \/ /\ AllNames(r) # {} /\ \A n \in set : Row(n) = NoRow \/ Row(n).name \in AllNames(r)
         \/ /\ AllNames(r) = {}
            /\ set = {n \in NodeId : Row(n) # NoRow /\ HasItems(Row(n).rec, r)}
  PROVE  TableNext
<1> DEFINE r == cl[c].req
           names == {Row(n).name : n \in {k \in set : Row(k) # NoRow}}
           conf == [y \in Name |-> Conf(y)]
<1>1. \A n \in NodeId : Row(n) = NoRow \/ (Row(n).name \in Name /\ Row(n).rec # Absent)
  <2> SUFFICES ASSUME NEW n \in NodeId, Row(n) # NoRow PROVE Row(n).name \in Name /\ Row(n).rec # Absent
    OBVIOUS
  <2>1. Row(n) = [name |-> node[n], rec |-> config[assign[n]]] /\ node[n] # Absent /\ Joined(n)
    BY DEF Row
  <2>2. QED
    BY <2>1 DEF TypeOK, Joined
<1>2. names \in SUBSET Name
  BY <1>1
<1>3. ASSUME NEW x \in Name, x \notin names PROVE Conf(x)' = Conf(x)
  <2>1. \A n \in set : Row(n).name # x /\ Row(n)'.name # x
    BY <1>3, NamesAre DEF NoRow
  <2>2. QED
    BY <2>1, OtherRows
<1>4. ASSUME NEW x \in names PROVE Conf(x)' = Absent
  <2>1. PICK n \in set : Row(n) # NoRow /\ x = Row(n).name
    OBVIOUS
  <2>2. x \in Name /\ x # Absent
    BY <1>2, NamesAre
  <2>3. \A k \in NodeId : Row(k).name = x => k = n
    BY <2>1, <2>2, RowsDiffer
  <2>4. \A k \in NodeId : Row(k)'.name # x
    BY <2>2, <2>3 DEF NoRow
  <2>5. QED
    BY <2>2, <2>4, ConfIs
<1>5. ASSUME AllNames(r) = {}
      PROVE  names = {x \in Name : Conf(x) # Absent /\ HasItems(Conf(x), r)}
  <2>1. set = {n \in NodeId : Row(n) # NoRow /\ HasItems(Row(n).rec, r)}
    BY <1>5
  <2>2. ASSUME NEW x \in names PROVE Conf(x) # Absent /\ HasItems(Conf(x), r)
    <3>1. PICK n \in set : Row(n) # NoRow /\ x = Row(n).name
      OBVIOUS
    <3>2. Conf(x) = Row(n).rec
      BY <1>2, <3>1, ConfIs
    <3>3. QED
      BY <1>1, <2>1, <3>1, <3>2
  <2>3. ASSUME NEW x \in Name, Conf(x) # Absent, HasItems(Conf(x), r) PROVE x \in names
    <3>1. PICK n \in NodeId : Row(n).name = x
      BY <2>3, ConfIs
    <3>2. Row(n) # NoRow /\ Conf(x) = Row(n).rec
      BY <3>1, ConfIs, NamesAre DEF NoRow
    <3>3. QED
      BY <2>1, <2>3, <3>1, <3>2
  <2>4. QED
    BY <1>2, <2>2, <2>3
<1>6. AllNames(r) # {} => names \subseteq AllNames(r)
  OBVIOUS
<1> HIDE DEF names
<1>7. [y \in Name |-> Conf(y)'] = [x \in Name |-> IF x \in names THEN Absent ELSE conf[x]]
  BY <1>2, <1>3, <1>4
<1>8. AllNames(r) = {} => names = {x \in Name : conf[x] # Absent /\ HasItems(conf[x], r)}
  BY <1>5
<1>9. Table!Remove(names)
  <2>1. Lone = r /\ Lone' = Lone /\ Held = conf /\ Held' = [y \in Name |-> Conf(y)']
    BY HeldIs
  <2>2. Held' = [x \in Table!Name |-> IF x \in names THEN Absent ELSE Held[x]]
    BY <1>7, <2>1, TableWords
  <2>3. Lone.method = "DELETE"
    BY <2>1
  <2>4. IF Table!AllNames(Lone) # {} THEN names \subseteq Table!AllNames(Lone)
        ELSE names = {x \in Table!Name : Held[x] # Absent /\
                        \A f \in DOMAIN Held[x] : Lone[f] # None => Held[x][f] = Lone[f]}
    BY <1>6, <1>8, <2>1, TableWords DEF HasItems
  <2>5. QED
    BY <2>1, <2>2, <2>3, <2>4, Zenon DEF Table!Remove, Held, Lone
<1>10. QED
  BY <1>2, <1>9 DEF TableNext, Table!Next, Table!Name, Name, Table!Alias, Alias

-----------------------------------------------------------------------------
(* Where the lone client is, by what it was asked.                         *)
Concerns(m, x) == AllNames(m.req) = {} \/ x \in AllNames(m.req)
Targeted(m) == AllNames(m.req) = {} \/ (m.upd # {} /\ m.upd \subseteq AllNames(m.req))

Plot(m) ==
  /\ m.pc \in {"check", "list"} => m.req.method = "PUT"
  /\ m.pc \in {"find", "similar"} => m.req.method \in {"POST", "PUT"}
  /\ m.pc \in {"list", "find", "similar"} => m.add \subseteq AllNames(m.req)
  /\ m.pc \in {"check", "list", "find", "similar"} =>
       \A g \in GroupId : m.plan[g] = {} /\ m.cfg[g] = Absent
  /\ m.pc \notin Done =>
       \A n \in NewNodes(m) : m.req.method \in {"POST", "PUT"} /\ m.new[n] \in AllNames(m.req)
  /\ m.pc \in {"exist", "old"} \/ (m.pc \notin Done /\ m.some) =>
       m.req.method \in {"PUT", "PATCH"} /\ Targeted(m)
  /\ m.pc \in {"groups", "members", "reuse", "purge", "point"}
       \/ (m.pc \in {"config", "group"} /\ NewNodes(m) = {} /\ Planning(m))
     => m.req.method \in {"PUT", "PATCH"}
  /\ m.pc \in {"node", "link"} \/ (m.pc \in {"config", "group"} /\ NewNodes(m) # {}) =>
       m.req.kernel # None /\ \A g \in GroupId : m.plan[g] \in {{}, NewNodes(m)}
  /\ m.pc \in {"config", "group"} /\ NewNodes(m) # {} =>
       m.held = NewNodes(m) /\ \A g \in GroupId : m.plan[g] # {} => m.cfg[g] = Asked(m.req)
  /\ m.pc \in {"config", "group"} => m.todo \subseteq Made(m)
  /\ m.pc = "reuse" => \A g \in GroupId : m.plan[g] # {} => m.plan[g] \intersect m.held # {}
  /\ m.pc \in {"purge", "delnodes", "unlink"} => m.drop = {}
  /\ m.pc = "delnodes" => m.req.method = "DELETE" /\ m.upd # {} /\ m.upd \subseteq AllNames(m.req)
  /\ m.pc = "delconfigs" => m.req.method = "DELETE" /\ AllNames(m.req) = {}

(* What it relies on in the tables.  An update moves the nodes planned for *)
(* group g, which are there, from g, to a group of what the request makes  *)
(* of g's config.                                                          *)
From(m, g, nd, as, gr, cf) ==
  /\ g \in gr /\ cf[g] # Absent
  /\ \A n \in m.plan[g] : nd[n] # Absent /\ as[n] = g /\ Concerns(m, nd[n])
Onto(m, g, gr, cf) == m.to[g] \in gr /\ cf[m.to[g]] = Patched(cf[g], m.req, m.req)
Upto(m, g, cf) == m.to[g] \in Made(m) /\ m.cfg[m.to[g]] = Patched(cf[g], m.req, m.req)

Rests(m, nd, as, gr, cf) ==
  /\ \A n \in Unlinked(m) : as[n] = Absent
  /\ m.pc = "node" => \A n \in NewNodes(m) : n \in m.held \/ nd[n] = m.new[n]
  /\ m.pc = "link" => \A n \in m.held : nd[n] = m.new[n]
  /\ m.pc \in {"node", "link"} =>
       \A g \in GroupId : m.plan[g] # {} => g \in gr /\ cf[g] = Asked(m.req)
  /\ m.pc \in {"groups", "members", "reuse"} =>
       \A n \in m.held : nd[n] # Absent /\ as[n] # Absent /\ Concerns(m, nd[n])
  /\ m.pc = "members" => \A g \in m.todo : \E n \in m.held : as[n] = g
  /\ m.pc = "reuse" => \A g \in GroupId : m.plan[g] # {} =>
       /\ g \in gr /\ cf[g] # Absent /\ m.cfg[g] = cf[g]
       /\ \A n \in m.plan[g] : nd[n] # Absent /\ as[n] = g
  /\ m.pc \in {"purge", "config", "group"} /\ NewNodes(m) = {} =>
       \A g \in GroupId : m.plan[g] # {} =>
         From(m, g, nd, as, gr, cf) /\ (Upto(m, g, cf) \/ Onto(m, g, gr, cf))
  /\ m.pc = "point" => \A g \in m.todo : From(m, g, nd, as, gr, cf) /\ Onto(m, g, gr, cf)
  /\ m.pc \in {"purge", "config", "group"} => \A g \in Made(m), n \in NodeId : as[n] # g
  /\ m.pc \in {"purge", "config"} => Made(m) \intersect gr = {}
  /\ m.pc = "config" => \A g \in Made(m) \ m.todo : cf[g] = m.cfg[g]
  /\ m.pc = "group" => \A g \in Made(m) : cf[g] = m.cfg[g] /\ (g \in m.todo \/ g \in gr)
  /\ m.pc = "unlink" => \A n \in m.held : nd[n] = Absent
  /\ m.pc \in {"count", "dropgroups", "dropconfigs"} =>
       \A g \in m.drop, n \in NodeId : nd[n] # Absent => as[n] # g
  /\ m.pc \in {"delgroups", "dellinks"} => \A g \in m.drop : cf[g] = Absent
  /\ m.pc = "delmembers" => \A n \in m.held : as[n] = Absent

TableInv == \A c \in Client : Plot(cl[c]) /\ Rests(cl[c], node, assign, group, config)

LEMMA DonePlot ==
  ASSUME NEW m, m.pc \in Done
  PROVE  Plot(m) /\ \A nd, as, gr, cf : Rests(m, nd, as, gr, cf)
<1>1. Unlinked(m) = {}
  BY DEF Unlinked, Done
<1>2. QED
  BY <1>1 DEF Plot, Rests, Done

Follows == TableInv' /\ TableNext

LEMMA TableStep ==
  ASSUME TypeInv, NEW c \in Client, Alone(c), NEW m, Become(c, m),
         Plot(m), Rests(m, node', assign', group', config')
  PROVE  TableInv'
<1>1. \A d \in Client : cl'[d] = m
  BY OthersStay, AloneIs
<1>2. \A d \in Client : Plot(cl'[d]) /\ Rests(cl'[d], node', assign', group', config')
  BY <1>1
<1>3. QED
  BY <1>2, Zenon DEF TableInv, Plot, Rests

LEMMA QuietStep ==
  ASSUME TypeInv, NoZeroNid, NEW c \in Client, Alone(c), NEW m, Become(c, m), m.req = cl[c].req,
         Plot(m), Rests(m, node', assign', group', config'),
         \A n \in NodeId : Row(n)' = Row(n)
  PROVE  Follows
BY TableStep, OthersStay, QuietRows DEF Follows

LEMMA SameRows ==
  ASSUME UNCHANGED tables PROVE \A n \in NodeId : Row(n)' = Row(n)
BY DEF tables, Row, Joined

LEMMA FinishPlot ==
  ASSUME NEW m, NEW pc \in Done
  PROVE  LET e == Finish(m, pc) IN
         e.req = m.req /\ Plot(e) /\ \A nd, as, gr, cf : Rests(e, nd, as, gr, cf)
<1>1. Finish(m, pc).pc = pc /\ Finish(m, pc).req = m.req
  BY DEF Finish, Blank
<1>2. QED
  BY <1>1, DonePlot

(* Requests that begin, or fail.                                           *)
LEMMA StartPlot ==
  ASSUME NEW r \in Request
  PROVE  LET e == Start(r) IN
         e.req = r /\ Plot(e) /\ \A nd, as, gr, cf : Rests(e, nd, as, gr, cf)
<1> DEFINE m == Blank(r)
           names == AllNames(r)
           L(e, pc) == /\ e.pc = pc /\ e.req = r /\ e.new = m.new /\ e.some = m.some
                       /\ e.drop = m.drop /\ e.plan = m.plan /\ e.cfg = m.cfg
                       /\ pc = "find" => e.add \subseteq names
                       /\ pc = "exist" => e.upd = names
                       /\ pc = "delnodes" => e.upd = Targets(r)
<1>1. m \in State /\ m.req = r /\ Bare(m)
  BY BlankTyped DEF Blank, Bare
<1>2. Targets(r) \subseteq names /\ (Targets(r) = {} => names = {})
  BY RequestTyped DEF Targets, AllNames
<1> HIDE DEF m, names
<1>3. /\ \A pc \in {"check", "delconfigs"} : L([m EXCEPT !.pc = pc], pc)
      /\ L([m EXCEPT !.pc = "find", !.add = names], "find")
      /\ L([m EXCEPT !.pc = "exist", !.upd = names], "exist")
      /\ L([m EXCEPT !.pc = "delnodes", !.upd = Targets(r)], "delnodes")
  BY <1>1 DEF State
<1> DEFINE Right(pc) ==
             \/ pc = "find" /\ r.method = "POST"
             \/ pc = "check" /\ r.method = "PUT"
             \/ pc = "exist" /\ r.method = "PATCH"
             \/ pc = "delnodes" /\ r.method = "DELETE" /\ Targets(r) # {}
             \/ pc = "delconfigs" /\ r.method = "DELETE" /\ Targets(r) = {}
<1>4. ASSUME NEW e, NEW pc, L(e, pc), Right(pc)
      PROVE  e.req = r /\ Plot(e) /\ \A nd, as, gr, cf : Rests(e, nd, as, gr, cf)
  <2>1. e.req = r /\ Bare(e) /\ e.pc = pc
    BY <1>1, <1>4 DEF Bare, NewNodes
  <2>2. Unlinked(e) = {}
    BY <2>1 DEF Bare, Unlinked
  <2>3. pc \in {"find", "check", "exist", "delnodes", "delconfigs"}
    BY <1>4
  <2>4. Plot(e)
    BY <1>2, <1>4, <2>1 DEF Plot, Bare, Targeted, names
  <2>5. QED
    BY <2>1, <2>2, <2>3, <2>4 DEF Rests
<1> HIDE DEF L
<1>5. \A pc \in Done : LET e == Finish(m, pc) IN
        e.req = r /\ Plot(e) /\ \A nd, as, gr, cf : Rests(e, nd, as, gr, cf)
  BY <1>1, FinishPlot
<1>6. PICK e : e = Start(r)
  OBVIOUS
<1>7. \/ \E pc \in Done : e = Finish(m, pc)
      \/ \E pc \in {"find", "check", "exist", "delnodes", "delconfigs"} : L(e, pc) /\ Right(pc)
  BY <1>3, <1>6 DEF Start, Done, m, names
<1> HIDE DEF Right
<1>8. QED
  BY <1>4, <1>5, <1>6, <1>7

LEMMA BeginTable ==
  ASSUME TypeInv, NoZeroNid, NEW c \in Client, Alone(c), Begin(c) PROVE Follows
<1>1. PICK r \in May[c] : Become(c, Start(r))
  BY DEF Begin
<1>2. r \in Requests /\ r \in Request
  BY SqlAssumption, RequestAssumption
<1>3. /\ Start(r).req = r /\ Plot(Start(r))
      /\ Rests(Start(r), node', assign', group', config')
  BY <1>2, StartPlot
<1>4. \A n \in NodeId : Row(n)' = Row(n)
  BY SameRows DEF Begin
<1>5. cl'[c].req \in Requests
  BY <1>1, <1>2, <1>3, OthersStay
<1>6. QED
  BY <1>1, <1>3, <1>4, <1>5, TableStep, AskRows DEF Follows

LEMMA FailTable ==
  ASSUME TypeInv, NoZeroNid, NEW c \in Client, Alone(c), StatementFails(c) PROVE Follows
<1>1. Become(c, Finish(cl[c], "failed")) /\ UNCHANGED tables
  BY DEF StatementFails
<1>2. QED
  BY <1>1, SameRows, FinishPlot, OwnState, QuietStep

LEMMA OwnTable ==
  ASSUME TypeInv, TableInv, NEW c \in Client
  PROVE  /\ cl[c] \in State /\ cl[c].req \in Request /\ Phased(cl[c])
         /\ Plot(cl[c]) /\ Rests(cl[c], node, assign, group, config)
         /\ \A pc \in Done : cl[c].pc = pc => cl[c].pc \in Done
BY OwnState DEF TableInv, TypeInv

(* The rows of names that were asked for.                                  *)
LEMMA RowsNamed ==
  ASSUME TypeInv, NoZeroNid, NEW names \in SUBSET Name
  PROVE  \A n \in Rows(names) : /\ n \in NodeId /\ node[n] \in Name /\ node[n] # ZeroNid
                                /\ names # {} => node[n] \in names
<1> SUFFICES ASSUME NEW n \in Rows(names)
             PROVE  /\ n \in NodeId /\ node[n] \in Name /\ node[n] # ZeroNid
                    /\ names # {} => node[n] \in names
  OBVIOUS
<1>1. n \in NodeId /\ node[n] # Absent /\ (names = {} \/ RowMatch(node[n], names))
  BY DEF Rows
<1>2. node[n] \in Name
  BY <1>1 DEF TypeInv, TypeOK
<1>3. ZeroNid \notin names
  BY NamesAre
<1>4. QED
  BY <1>1, <1>2, <1>3, NamesAre DEF RowMatch

LEMMA AfterAddPlot ==
  ASSUME NEW m \in State, m.some => m.req.method \in {"PUT", "PATCH"} /\ Targeted(m)
  PROVE  LET e == AfterAdd(m) IN
         e.req = m.req /\ Plot(e) /\ \A nd, as, gr, cf : Rests(e, nd, as, gr, cf)
<1>1. CASE m.some
  <2> DEFINE e == [Blank(m.req) EXCEPT !.pc = "exist", !.upd = m.upd]
  <2>1. AfterAdd(m) = e
    BY <1>1 DEF AfterAdd
  <2>2. /\ e.pc = "exist" /\ e.req = m.req /\ e.upd = m.upd /\ Bare(e)
    BY DEF Blank, NewNodes, Bare
  <2> HIDE DEF e
  <2>3. Plot(e)
    BY <1>1, <2>2 DEF Plot, Bare, Targeted
  <2>4. Unlinked(e) = {}
    BY <2>2 DEF Unlinked
  <2>5. \A nd, as, gr, cf : Rests(e, nd, as, gr, cf)
    BY <2>2, <2>4 DEF Rests
  <2>6. QED
    BY <2>1, <2>2, <2>3, <2>5
<1>2. CASE ~m.some
  BY <1>2, FinishPlot DEF AfterAdd, Done
<1>3. QED
  BY <1>1, <1>2

(* Set, and the first statement of Add.                                    *)
LEMMA SetTable ==
  ASSUME TypeInv, TableInv, NoZeroNid, NEW c \in Client, Alone(c), CheckSet(c) \/ ListSet(c)
  PROVE  Follows
<1> DEFINE m == cl[c]
           names == AllNames(m.req)
<1>1. m \in State /\ names \subseteq Name /\ Plot(m)
  BY OwnTable, RequestTyped
<1>2. \A n \in NodeId : Row(n)' = Row(n)
  BY SameRows DEF CheckSet, ListSet
<1>3. CASE CheckSet(c)
  <2> DEFINE e == [m EXCEPT !.pc = "list", !.add = Missing(names)]
  <2>1. m.pc = "check" /\ Become(c, e)
    BY <1>3 DEF CheckSet
  <2>2. /\ e.pc = "list" /\ e.req = m.req /\ e.new = m.new /\ e.some = m.some /\ e.upd = m.upd
        /\ e.plan = m.plan /\ e.cfg = m.cfg /\ e.add \subseteq names
    BY <1>1 DEF State, Missing
  <2> HIDE DEF e
  <2>3. Plot(e)
    BY <1>1, <2>1, <2>2 DEF Plot, NewNodes, Targeted, Done
  <2>4. \A nd, as, gr, cf : Rests(e, nd, as, gr, cf)
    BY <2>2 DEF Rests, Unlinked
  <2>5. QED
    BY <1>2, <2>1, <2>2, <2>3, <2>4, QuietStep
<1>4. CASE ListSet(c)
  <2> DEFINE found == Rows(names)
             e == [m EXCEPT !.upd = {node[n] : n \in found} \ {ZeroNid}, !.some = found # {}]
             f == [e EXCEPT !.pc = "find"]
  <2>1. m.pc = "list" /\ Become(c, IF m.add # {} THEN f ELSE AfterAdd(e))
    BY <1>4 DEF ListSet
  <2>2. \A n \in found : node[n] \in Name /\ node[n] # ZeroNid /\ (names # {} => node[n] \in names)
    BY <1>1, RowsNamed
  <2>3. /\ e.pc = m.pc /\ e.req = m.req /\ e.new = m.new /\ e.plan = m.plan /\ e.cfg = m.cfg
        /\ e.add = m.add /\ e.upd = {node[n] : n \in found} \ {ZeroNid} /\ e.some = (found # {})
        /\ e \in State
    <3>1. {node[n] : n \in found} \ {ZeroNid} \subseteq Name /\ (found # {}) \in BOOLEAN
      BY <2>2
    <3> HIDE DEF found
    <3>2. QED
      BY <1>1, <3>1 DEF State
  <2>4. e.some => m.req.method \in {"PUT", "PATCH"} /\ Targeted(e)
    <3>1. m.req.method = "PUT"
      BY <1>1, <2>1 DEF Plot
    <3>2. e.some => e.upd # {}
      BY <2>2, <2>3
    <3>3. names # {} => e.upd \subseteq names
      BY <2>2, <2>3
    <3>4. e.req = m.req
      BY <2>3
    <3> HIDE DEF e
    <3>5. QED
      BY <3>1, <3>2, <3>3, <3>4 DEF Targeted
  <2> HIDE DEF e, found
  <2>5. /\ f.pc = "find" /\ f.req = m.req /\ f.new = m.new /\ f.plan = m.plan /\ f.cfg = m.cfg
        /\ f.add = m.add /\ f.upd = e.upd /\ f.some = e.some
    BY <2>3 DEF State
  <2> HIDE DEF f
  <2>6. Plot(f)
    BY <1>1, <2>1, <2>4, <2>3, <2>5 DEF Plot, NewNodes, Targeted, Done
  <2>7. \A nd, as, gr, cf : Rests(f, nd, as, gr, cf)
    BY <2>5 DEF Rests, Unlinked
  <2>8. LET h == AfterAdd(e) IN
        h.req = m.req /\ Plot(h) /\ \A nd, as, gr, cf : Rests(h, nd, as, gr, cf)
    BY <2>3, <2>4, AfterAddPlot
  <2>9. PICK h : /\ Become(c, h) /\ h.req = m.req /\ Plot(h)
                 /\ Rests(h, node', assign', group', config')
    BY <2>1, <2>5, <2>6, <2>7, <2>8
  <2>10. QED
    BY <1>2, <2>9, QuietStep
<1>5. QED
  BY <1>3, <1>4

LEMMA FindTable ==
  ASSUME TypeInv, TableInv, NoZeroNid, NEW c \in Client, Alone(c), FindNodes(c)
  PROVE  Follows
<1> DEFINE m == cl[c]
           names == Missing(AddPart(m.add))
           ids == Fresh(names, NodeId \ UsedNodes)
           new == NewOf(names, ids)
           e == [m EXCEPT !.pc = "similar", !.new = new]
<1>1. m \in State /\ m.add \in SUBSET Name /\ Plot(m) /\ m.pc = "find"
  BY OwnTable, FindIs DEF State
<1>2. \A n \in NodeId : Row(n)' = Row(n)
  BY SameRows, FindIs
<1>3. names \in SUBSET Name /\ names \subseteq m.add
  BY <1>1, MissingNames DEF Missing, AddPart
<1>4. /\ Become(c, AfterAdd(m)) \/ Become(c, Finish(m, "failed"))
         \/ (Become(c, e) /\ Enough(names, NodeId \ UsedNodes))
      /\ UNCHANGED tables
  BY FindIs
<1>5. Enough(names, NodeId \ UsedNodes) => ids \in [names -> NodeId \ UsedNodes]
  BY FreshIs
<1> HIDE DEF names, ids
<1>6. /\ new \in [NodeId -> Name \union {None}]
      /\ \A n \in NodeId : new[n] # None => new[n] \in names /\ ids[new[n]] = n
  BY <1>3, NewTyped
<1> HIDE DEF new
<1>7. /\ e.pc = "similar" /\ e.req = m.req /\ e.new = new /\ e.some = m.some /\ e.upd = m.upd
      /\ e.add = m.add /\ e.plan = m.plan /\ e.cfg = m.cfg
  BY <1>1 DEF State
<1> HIDE DEF e
<1>8. Plot(e)
  BY <1>1, <1>3, <1>6, <1>7 DEF Plot, NewNodes, Targeted, Done
<1>9. ASSUME Enough(names, NodeId \ UsedNodes) PROVE Rests(e, node', assign', group', config')
  <2>1. \A n \in NewNodes(e) : n \in NodeId \ UsedNodes
    BY <1>5, <1>6, <1>7, <1>9 DEF NewNodes
  <2>2. \A n \in NewNodes(e) : assign[n] = Absent
    BY <2>1 DEF UsedNodes
  <2>3. \A n \in Unlinked(e) : assign'[n] = Absent
    BY <1>4, <2>2 DEF Unlinked, tables
  <2>4. QED
    BY <1>7, <2>3 DEF Rests
<1>10. LET h == AfterAdd(m) IN
       h.req = m.req /\ Plot(h) /\ \A nd, as, gr, cf : Rests(h, nd, as, gr, cf)
  BY <1>1, AfterAddPlot DEF Plot, Done
<1>11. PICK h : /\ Become(c, h) /\ h.req = m.req /\ Plot(h)
                /\ Rests(h, node', assign', group', config')
  BY <1>4, <1>7, <1>8, <1>9, <1>10, FinishPlot, OwnState
<1>12. QED
  BY <1>2, <1>11, QuietStep

LEMMA SimilarTable ==
  ASSUME TypeInv, TableInv, NoZeroNid, NEW c \in Client, Alone(c), FindSimilar(c)
  PROVE  Follows
<1> DEFINE m == cl[c]
<1>1. /\ m \in State /\ m.pc = "similar" /\ UNCHANGED tables /\ Plot(m) /\ m.req \in Request
      /\ Rests(m, node, assign, group, config)
  BY OwnTable, SimilarIs
<1>2. m.req.kernel = None => Become(c, Finish(m, "failed"))
  BY DEF FindSimilar
<1>3. \A n \in NodeId : Row(n)' = Row(n)
  BY <1>1, SameRows
<1>4. Become(c, Finish(m, "failed")) => Follows
  BY <1>3, FinishPlot, OwnState, QuietStep
<1>5. ASSUME NEW e, NEW g \in GroupId, Become(c, e), m.req.kernel # None,
             e.req = m.req, e.some = m.some, e.upd = m.upd, e.new = m.new, e.held = NewNodes(m),
             \A h \in GroupId : e.plan[h] = IF h = g THEN NewNodes(m) ELSE {},
             \/ e.pc = "node" /\ g \in group /\ config[g] = Asked(m.req)
             \/ /\ e.pc = "config" /\ e.todo = {g} /\ Made(e) = {g} /\ g \notin UsedGroups
                /\ e.cfg[g] = Asked(m.req)
      PROVE  Follows
  <2>1. NewNodes(e) = NewNodes(m) /\ Unlinked(e) = Unlinked(m)
    BY <1>1, <1>5 DEF NewNodes, Unlinked
  <2>2. ~(NewNodes(e) = {} /\ Planning(e))
    BY <1>5, <2>1 DEF Planning
  <2>3. Plot(e)
    BY <1>1, <1>5, <2>1, <2>2 DEF Plot, Done, Targeted
  <2>4. g \notin UsedGroups => g \notin group /\ \A n \in NodeId : assign[n] # g
    BY DEF UsedGroups
  <2>5. \A h \in GroupId : NewNodes(e) = {} => e.plan[h] = {}
    BY <1>5, <2>1
  <2>6. Rests(e, node, assign, group, config)
    BY <1>1, <1>5, <2>1, <2>4, <2>5 DEF Rests
  <2>7. Rests(e, node', assign', group', config')
    BY <1>1, <2>6 DEF tables
  <2>8. QED
    BY <1>3, <1>5, <2>3, <2>7, QuietStep
<1>6. ASSUME NEW g \in GroupId
      PROVE  LET f == PlanFor(m, g) IN
             /\ f \in State /\ f.req = m.req /\ f.new = m.new /\ f.some = m.some /\ f.upd = m.upd
             /\ f.held = NewNodes(m)
             /\ \A h \in GroupId : f.plan[h] = IF h = g THEN NewNodes(m) ELSE {}
             /\ \A h \in GroupId : f.cfg[h] = Absent
  <2>1. PlanFor(m, g).some = m.some /\ PlanFor(m, g).upd = m.upd
    BY <1>1 DEF PlanFor, State
  <2>2. \A h \in GroupId : m.plan[h] = {} /\ m.cfg[h] = Absent
    BY <1>1 DEF Plot
  <2>3. LET f == PlanFor(m, g) IN
        /\ f \in State /\ f.req = m.req /\ f.new = m.new /\ f.cfg = m.cfg /\ f.held = NewNodes(m)
        /\ \A h \in GroupId : f.plan[h] = IF h = g THEN NewNodes(m) ELSE m.plan[h]
    BY <1>1, PlanForTyped
  <2>4. QED
    BY <2>1, <2>2, <2>3
<1>7. ASSUME m.req.kernel # None, NEW g \in Similar(Asked(m.req)),
             Become(c, [PlanFor(m, g) EXCEPT !.pc = "node"])
      PROVE  Follows
  <2> DEFINE f == PlanFor(m, g)
             e == [f EXCEPT !.pc = "node"]
  <2>1. g \in GroupId /\ g \in group /\ config[g] = Asked(m.req)
    BY DEF Similar, TypeInv, TypeOK
  <2>2. /\ f \in State /\ f.req = m.req /\ f.new = m.new /\ f.some = m.some /\ f.upd = m.upd
        /\ f.held = NewNodes(m)
        /\ \A h \in GroupId : f.plan[h] = IF h = g THEN NewNodes(m) ELSE {}
    BY <1>6, <2>1
  <2>3. Become(c, e)
    BY <1>7
  <2> HIDE DEF f
  <2>4. /\ e.pc = "node" /\ e.req = m.req /\ e.new = m.new /\ e.some = m.some /\ e.plan = f.plan
        /\ e.upd = m.upd /\ e.held = NewNodes(m)
    BY <2>2 DEF State
  <2> HIDE DEF e
  <2>5. QED
    BY <1>5, <1>7, <2>1, <2>2, <2>3, <2>4
<1>8. ASSUME m.req.kernel # None, NEW g \in GroupId \ UsedGroups,
             Become(c, [PlanFor(m, g) EXCEPT !.pc = "config", !.todo = {g},
                                             !.cfg[g] = Asked(m.req)])
      PROVE  Follows
  <2> DEFINE f == PlanFor(m, g)
             e == [f EXCEPT !.pc = "config", !.todo = {g}, !.cfg[g] = Asked(m.req)]
  <2>1. /\ f \in State /\ f.req = m.req /\ f.new = m.new /\ f.some = m.some /\ f.upd = m.upd
        /\ f.held = NewNodes(m)
        /\ \A h \in GroupId : f.plan[h] = IF h = g THEN NewNodes(m) ELSE {}
        /\ \A h \in GroupId : f.cfg[h] = Absent
    BY <1>6
  <2>2. Become(c, e) /\ Asked(m.req) # Absent
    BY <1>1, <1>8, RequestTyped
  <2> HIDE DEF f
  <2>3. /\ e.pc = "config" /\ e.req = m.req /\ e.new = m.new /\ e.some = m.some /\ e.plan = f.plan
        /\ e.upd = m.upd /\ e.held = NewNodes(m)
        /\ e.todo = {g} /\ e.cfg = [f.cfg EXCEPT ![g] = Asked(m.req)]
    BY <2>1 DEF State
  <2> HIDE DEF e
  <2>4. \A h \in GroupId : e.cfg[h] = IF h = g THEN Asked(m.req) ELSE Absent
    BY <2>1, <2>3 DEF State
  <2>5. Made(e) = {g} /\ e.cfg[g] = Asked(m.req) /\ g \notin UsedGroups
    BY <2>2, <2>4 DEF Made
  <2>6. QED
    BY <1>5, <1>8, <2>1, <2>2, <2>3, <2>5
<1>9. QED
  BY <1>2, <1>4, <1>7, <1>8, SimilarIs

(* The rows that Add and Update insert.  Nobody is assigned to the group   *)
(* that is made, nor is the node that is inserted assigned to any.         *)
LEMMA GroupRows ==
  ASSUME TypeInv, NEW g \in GroupId, \A n \in NodeId : assign[n] # g,
         UNCHANGED <<node, assign>>,
         \A h \in GroupId : h # g => config'[h] = config[h] /\ (h \in group' <=> h \in group),
         group' \subseteq GroupId
  PROVE  \A n \in NodeId : Row(n)' = Row(n)
<1> SUFFICES ASSUME NEW n \in NodeId PROVE Row(n)' = Row(n)
  OBVIOUS
<1>1. CASE assign[n] \in GroupId
  BY <1>1 DEF Row, Joined
<1>2. CASE assign[n] \notin GroupId
  <2>1. ~Joined(n) /\ ~Joined(n)'
    BY <1>2 DEF TypeInv, TypeOK, Joined
  <2>2. QED
    BY <2>1 DEF Row
<1>3. QED
  BY <1>1, <1>2

LEMMA InsertConfigTable ==
  ASSUME TypeInv, TableInv, NoZeroNid, NEW c \in Client, Alone(c),
         NEW g \in GroupId, InsertConfig(c, g)
  PROVE  Follows
<1> DEFINE i == cl[c]
           m == [i EXCEPT !.todo = @ \ {g}]
           f == [m EXCEPT !.pc = "group", !.todo = Made(m)]
<1>1. /\ i \in State /\ i.pc = "config" /\ g \in i.todo /\ Plot(i) /\ i.req \in Request
      /\ Rests(i, node, assign, group, config)
      /\ UNCHANGED <<node, assign, group>>
      /\ Become(c, IF m.todo # {} THEN m ELSE f)
      /\ config' = [config EXCEPT ![g] = m.cfg[g]]
  BY OwnTable DEF InsertConfig
<1>2. /\ m \in State /\ m.pc = "config" /\ m.todo = i.todo \ {g} /\ m.req = i.req /\ m.new = i.new
      /\ m.some = i.some /\ m.upd = i.upd /\ m.held = i.held /\ m.plan = i.plan /\ m.cfg = i.cfg
      /\ m.to = i.to
  BY <1>1 DEF State
<1>3. \A h \in GroupId : config'[h] = IF h = g THEN i.cfg[g] ELSE config[h]
  BY <1>1, <1>2 DEF TypeInv, TypeOK
<1> HIDE DEF m, i
<1>4. /\ f.pc = "group" /\ f.todo = Made(m) /\ f.req = i.req /\ f.new = i.new
      /\ f.some = i.some /\ f.upd = i.upd /\ f.held = i.held /\ f.plan = i.plan /\ f.cfg = i.cfg
      /\ f.to = i.to
  BY <1>2 DEF State
<1> HIDE DEF f
<1>5. /\ Made(m) = Made(i) /\ Made(f) = Made(i) /\ NewNodes(m) = NewNodes(i)
      /\ NewNodes(f) = NewNodes(i) /\ Unlinked(m) = Unlinked(i) /\ Unlinked(f) = Unlinked(i)
      /\ Planning(m) = Planning(i) /\ Planning(f) = Planning(i)
  BY <1>1, <1>2, <1>4 DEF Made, NewNodes, Unlinked, Planning
<1>6. Plot(m) /\ Plot(f)
  BY <1>1, <1>2, <1>4, <1>5 DEF Plot, Targeted, Done
<1>7. /\ g \in Made(i) /\ \A n \in NodeId : assign[n] # g
      /\ g \notin group /\ \A h \in Made(i) : h \notin group /\ \A n \in NodeId : assign[n] # h
  BY <1>1 DEF Plot, Rests
<1>8. ASSUME NEW h \in GroupId, i.plan[h] # {}, From(i, h, node, assign, group, config)
      PROVE  config'[h] = config[h]
  <2>1. \E n \in NodeId : assign[n] = h
    BY <1>1, <1>8 DEF From, State
  <2>2. QED
    BY <1>3, <1>7, <2>1
<1>9. ASSUME NEW h \in GroupId, i.plan[h] # {}, NewNodes(i) = {}, NEW e \in {m, f}
      PROVE  /\ From(e, h, node, assign, group, config')
             /\ Upto(e, h, config') \/ Onto(e, h, group, config')
  <2>1. /\ From(i, h, node, assign, group, config)
        /\ Upto(i, h, config) \/ Onto(i, h, group, config)
    BY <1>1, <1>9 DEF Rests
  <2>2. config'[h] = config[h]
    BY <1>8, <1>9, <2>1
  <2>3. /\ e.plan = i.plan /\ e.to = i.to /\ e.req = i.req /\ Made(e) = Made(i) /\ e.cfg = i.cfg
    BY <1>2, <1>4, <1>5
  <2>4. From(e, h, node, assign, group, config')
    BY <2>1, <2>2, <2>3 DEF From, Concerns
  <2>5. Upto(i, h, config) => Upto(e, h, config')
    BY <2>2, <2>3 DEF Upto
  <2>6. ASSUME Onto(i, h, group, config) PROVE Onto(e, h, group, config')
    <3>1. i.to[h] \in group /\ i.to[h] \in GroupId /\ i.to[h] # g
      BY <1>7, <2>6 DEF Onto, TypeInv, TypeOK
    <3>2. config'[i.to[h]] = config[i.to[h]]
      BY <1>3, <3>1
    <3>3. QED
      BY <2>2, <2>3, <2>6, <3>2 DEF Onto
  <2>7. QED
    BY <2>1, <2>4, <2>5, <2>6
<1>10. Made(i) \subseteq GroupId
  BY DEF Made
<1>11. /\ \A n \in Unlinked(i) : assign[n] = Absent
       /\ \A h \in Made(i), n \in NodeId : assign[n] # h
       /\ Made(i) \intersect group = {}
       /\ \A h \in Made(i) \ m.todo : config'[h] = i.cfg[h]
  BY <1>1, <1>2, <1>3, <1>7, <1>10 DEF Rests
<1>12. Rests(m, node, assign, group, config')
  <2>1. NewNodes(m) = {} => \A h \in GroupId : m.plan[h] # {} =>
          From(m, h, node, assign, group, config')
            /\ (Upto(m, h, config') \/ Onto(m, h, group, config'))
    BY <1>2, <1>5, <1>9
  <2>2. /\ m.pc = "config" /\ Made(m) = Made(i) /\ Unlinked(m) = Unlinked(i) /\ m.cfg = i.cfg
    BY <1>2, <1>5
  <2>3. QED
    BY <1>11, <2>1, <2>2 DEF Rests
<1>13. ASSUME m.todo = {} PROVE Rests(f, node, assign, group, config')
  <2>1. NewNodes(f) = {} => \A h \in GroupId : f.plan[h] # {} =>
          From(f, h, node, assign, group, config')
            /\ (Upto(f, h, config') \/ Onto(f, h, group, config'))
    BY <1>4, <1>5, <1>9
  <2>2. /\ f.pc = "group" /\ Made(f) = Made(i) /\ Unlinked(f) = Unlinked(i) /\ f.cfg = i.cfg
        /\ f.todo = Made(f)
    BY <1>4, <1>5
  <2>3. QED
    BY <1>11, <1>13, <2>1, <2>2 DEF Rests
<1>14. \A n \in NodeId : Row(n)' = Row(n)
  BY <1>1, <1>3, <1>7, GroupRows DEF TypeInv, TypeOK
<1>15. Become(c, m) \/ (Become(c, f) /\ m.todo = {})
  BY <1>1, Zenon
<1>16. PICK e \in {m, f} : Become(c, e) /\ (e = f => m.todo = {})
  <2>1. CASE Become(c, f) /\ m.todo = {}
    BY <2>1
  <2>2. CASE Become(c, m)
    <3>1. m # f
      BY <1>2, <1>4
    <3>2. QED
      BY <2>2, <3>1
  <2>3. QED
    BY <1>15, <2>1, <2>2
<1>17. /\ e.req = cl[c].req /\ Plot(e) /\ Rests(e, node', assign', group', config')
  BY <1>1, <1>2, <1>4, <1>6, <1>12, <1>13, <1>16 DEF i
<1>18. QED
  BY <1>14, <1>16, <1>17, QuietStep

LEMMA ToPointPlot ==
  ASSUME NEW m \in State, NewNodes(m) = {}, Planning(m) => m.req.method \in {"PUT", "PATCH"},
         m.some => m.req.method \in {"PUT", "PATCH"} /\ Targeted(m),
         NEW nd, NEW as, NEW gr, NEW cf,
         \A g \in GroupId : m.plan[g] # {} => From(m, g, nd, as, gr, cf) /\ Onto(m, g, gr, cf)
  PROVE  LET e == ToPoint(m) IN e.req = m.req /\ Plot(e) /\ Rests(e, nd, as, gr, cf)
<1> DEFINE groups == {g \in GroupId : m.plan[g] # {}}
           e == [m EXCEPT !.pc = "point", !.todo = groups]
<1>1. ToPoint(m) = Finish(m, "ok") \/ (ToPoint(m) = e /\ Planning(m))
  BY DEF ToPoint, Planning
<1>2. \A g \in groups : From(m, g, nd, as, gr, cf) /\ Onto(m, g, gr, cf)
  OBVIOUS
<1> HIDE DEF groups
<1>3. /\ e.pc = "point" /\ e.req = m.req /\ e.new = m.new /\ e.plan = m.plan /\ e.to = m.to
      /\ e.some = m.some /\ e.upd = m.upd /\ e.todo = groups
  BY DEF State
<1> HIDE DEF e
<1>4. NewNodes(e) = {} /\ Unlinked(e) = {}
  BY <1>3 DEF NewNodes, Unlinked
<1>5. Planning(m) => Plot(e)
  BY <1>3, <1>4 DEF Plot, Targeted, Done
<1>6. \A g \in groups : From(e, g, nd, as, gr, cf) /\ Onto(e, g, gr, cf)
  BY <1>2, <1>3 DEF From, Onto, Concerns
<1>7. Rests(e, nd, as, gr, cf)
  BY <1>3, <1>4, <1>6 DEF Rests
<1>8. QED
  BY <1>1, <1>3, <1>5, <1>7, FinishPlot DEF Done

LEMMA InsertGroupTable ==
  ASSUME TypeInv, TableInv, NoZeroNid, NEW c \in Client, Alone(c),
         NEW g \in GroupId, InsertGroup(c, g)
  PROVE  Follows
<1> DEFINE i == cl[c]
           m == [i EXCEPT !.todo = @ \ {g}]
           f == [m EXCEPT !.pc = "node"]
<1>1. /\ i \in State /\ i.pc = "group" /\ g \in i.todo /\ Plot(i) /\ i.req \in Request
      /\ Rests(i, node, assign, group, config)
      /\ UNCHANGED <<node, assign, config>>
      /\ Become(c, IF m.todo # {} THEN m ELSE IF NewNodes(m) # {} THEN f ELSE ToPoint(m))
      /\ group' = group \union {g}
  BY OwnTable DEF InsertGroup
<1>2. /\ m \in State /\ m.pc = "group" /\ m.todo = i.todo \ {g} /\ m.req = i.req /\ m.new = i.new
      /\ m.some = i.some /\ m.upd = i.upd /\ m.held = i.held /\ m.plan = i.plan /\ m.cfg = i.cfg
      /\ m.to = i.to
  BY <1>1 DEF State
<1> HIDE DEF m, i
<1>3. /\ f.pc = "node" /\ f.todo = m.todo /\ f.req = i.req /\ f.new = i.new
      /\ f.some = i.some /\ f.upd = i.upd /\ f.held = i.held /\ f.plan = i.plan /\ f.cfg = i.cfg
  BY <1>2 DEF State
<1> HIDE DEF f
<1>4. /\ Made(m) = Made(i) /\ NewNodes(m) = NewNodes(i) /\ NewNodes(f) = NewNodes(i)
      /\ Unlinked(m) = Unlinked(i) /\ Unlinked(f) = Unlinked(i) /\ Planning(m) = Planning(i)
  BY <1>1, <1>2, <1>3 DEF Made, NewNodes, Unlinked, Planning
<1>5. Plot(m) /\ (NewNodes(i) # {} => Plot(f))
  BY <1>1, <1>2, <1>3, <1>4 DEF Plot, Targeted, Done
<1>6. /\ g \in Made(i) /\ \A n \in Unlinked(i) : assign[n] = Absent
      /\ \A h \in Made(i) : /\ h \in GroupId /\ config[h] = i.cfg[h] /\ (h \in m.todo \/ h \in group')
                            /\ \A n \in NodeId : assign[n] # h
  BY <1>1, <1>2 DEF Plot, Rests, Made
<1>7. NewNodes(i) = {} => \A h \in GroupId : i.plan[h] # {} =>
        /\ From(i, h, node, assign, group', config)
        /\ Upto(i, h, config) \/ Onto(i, h, group', config)
  BY <1>1 DEF Rests, From, Onto
<1>8. NewNodes(m) = {} => \A h \in GroupId : m.plan[h] # {} =>
        /\ From(m, h, node, assign, group', config)
        /\ Upto(m, h, config) \/ Onto(m, h, group', config)
  BY <1>2, <1>4, <1>7 DEF From, Onto, Upto, Concerns
<1>9. Rests(m, node, assign, group', config)
  BY <1>2, <1>4, <1>6, <1>8 DEF Rests
<1>10. ASSUME m.todo = {}, NewNodes(m) # {} PROVE Rests(f, node, assign, group', config)
  <2>1. i.held = NewNodes(i) /\ \A h \in GroupId : i.plan[h] # {} => i.cfg[h] = Asked(i.req)
    BY <1>1, <1>4, <1>10 DEF Plot
  <2>2. Asked(i.req) # Absent
    BY <1>1, RequestTyped
  <2>3. \A h \in GroupId : i.plan[h] # {} => h \in Made(i)
    BY <2>1, <2>2 DEF Made
  <2>4. \A h \in GroupId : f.plan[h] # {} => h \in group' /\ config[h] = Asked(f.req)
    BY <1>3, <1>6, <1>10, <2>1, <2>3
  <2>5. \A n \in NewNodes(f) : n \in f.held
    BY <1>3, <1>4, <2>1
  <2>6. QED
    BY <1>3, <1>4, <1>6, <2>4, <2>5 DEF Rests
<1>11. ASSUME m.todo = {}, NewNodes(m) = {}
       PROVE  /\ ToPoint(m).req = m.req /\ Plot(ToPoint(m))
              /\ Rests(ToPoint(m), node, assign, group', config)
  <2>1. \A h \in GroupId : Upto(m, h, config) => Onto(m, h, group', config)
    BY <1>2, <1>4, <1>6, <1>11 DEF Upto, Onto
  <2>2. \A h \in GroupId : m.plan[h] # {} =>
          From(m, h, node, assign, group', config) /\ Onto(m, h, group', config)
    BY <1>8, <1>11, <2>1
  <2>3. Planning(m) => m.req.method \in {"PUT", "PATCH"}
    BY <1>2, <1>5, <1>11 DEF Plot
  <2>4. m.some => m.req.method \in {"PUT", "PATCH"} /\ Targeted(m)
    BY <1>2, <1>5 DEF Plot, Done
  <2>5. QED
    BY <1>2, <1>11, <2>2, <2>3, <2>4, ToPointPlot
<1>12. \A n \in NodeId : Row(n)' = Row(n)
  BY <1>1, <1>6, GroupRows DEF TypeInv, TypeOK
<1>13. UNCHANGED <<node, assign, config>>
  BY <1>1
<1>14. PICK e : /\ Become(c, e) /\ e.req = i.req /\ Plot(e) /\ Rests(e, node, assign, group', config)
  <2>1. \/ Become(c, m) \/ (m.todo = {} /\ NewNodes(m) # {} /\ Become(c, f))
        \/ (m.todo = {} /\ NewNodes(m) = {} /\ Become(c, ToPoint(m)))
    BY <1>1, Zenon
  <2>2. QED
    BY <1>2, <1>3, <1>4, <1>5, <1>9, <1>10, <1>11, <2>1
<1>15. e.req = cl[c].req /\ Rests(e, node', assign', group', config')
  BY <1>13, <1>14 DEF i
<1>16. QED
  BY <1>12, <1>14, <1>15, QuietStep

LEMMA InsertNodeTable ==
  ASSUME TypeInv, TableInv, NoZeroNid, NEW c \in Client, Alone(c),
         NEW n \in NodeId, InsertNode(c, n)
  PROVE  Follows
<1> DEFINE i == cl[c]
           m == [i EXCEPT !.held = @ \ {n}]
           f == [m EXCEPT !.pc = "link", !.held = NewNodes(m)]
<1>1. /\ i \in State /\ i.pc = "node" /\ n \in i.held /\ Plot(i) /\ Phased(i)
      /\ Rests(i, node, assign, group, config)
      /\ UNCHANGED <<assign, group, config>>
      /\ Become(c, IF m.held # {} THEN m ELSE f)
      /\ node' = [node EXCEPT ![n] = m.new[n]]
  BY OwnTable DEF InsertNode
<1>2. /\ m \in State /\ m.pc = "node" /\ m.held = i.held \ {n} /\ m.req = i.req /\ m.new = i.new
      /\ m.some = i.some /\ m.upd = i.upd /\ m.plan = i.plan
  BY <1>1 DEF State
<1>3. node' = [node EXCEPT ![n] = i.new[n]]
  BY <1>1, <1>2
<1> HIDE DEF m, i
<1>4. NewNodes(m) \in SUBSET NodeId
  BY DEF NewNodes
<1>5. /\ f.pc = "link" /\ f.held = NewNodes(m) /\ f.req = i.req /\ f.new = i.new
      /\ f.some = i.some /\ f.upd = i.upd /\ f.plan = i.plan
  BY <1>2, <1>4 DEF State
<1> HIDE DEF f
<1>6. /\ NewNodes(m) = NewNodes(i) /\ NewNodes(f) = NewNodes(i) /\ Unlinked(m) = NewNodes(i)
      /\ Unlinked(f) \subseteq NewNodes(i) /\ Unlinked(i) = NewNodes(i)
  BY <1>1, <1>2, <1>5 DEF NewNodes, Unlinked
<1>7. Plot(m) /\ Plot(f)
  BY <1>1, <1>2, <1>5, <1>6 DEF Plot, Targeted, Done
<1>8. /\ n \in NewNodes(i) /\ \A k \in NewNodes(i) : assign[k] = Absent
      /\ \A h \in GroupId : i.plan[h] # {} => h \in group /\ config[h] = Asked(i.req)
      /\ \A k \in NewNodes(i) : k \in i.held \/ node[k] = i.new[k]
  BY <1>1, <1>6 DEF Phased, Rests
<1>9. \A k \in NodeId : node'[k] = IF k = n THEN i.new[n] ELSE node[k]
  BY <1>3 DEF TypeInv, TypeOK
<1>10. \A k \in NewNodes(i) : k \in m.held \/ node'[k] = i.new[k]
  BY <1>2, <1>6, <1>8, <1>9, <1>4
<1>11. Rests(m, node', assign, group, config)
  BY <1>2, <1>6, <1>8, <1>10 DEF Rests
<1>12. m.held = {} => Rests(f, node', assign, group, config)
  BY <1>5, <1>6, <1>8, <1>10 DEF Rests
<1>13. \A k \in NodeId : Row(k)' = Row(k)
  <2>1. ~Joined(n) /\ ~Joined(n)'
    BY <1>1, <1>8, SqlAssumption DEF Joined, TypeInv, TypeOK
  <2>2. \A k \in NodeId : Joined(k)' = Joined(k)
    BY <1>1 DEF Joined
  <2>3. QED
    BY <1>1, <1>9, <2>1, <2>2 DEF Row
<1>14. UNCHANGED <<assign, group, config>>
  BY <1>1
<1>15. PICK e : /\ Become(c, e) /\ e.req = i.req /\ Plot(e) /\ Rests(e, node', assign, group, config)
  <2>1. Become(c, m) \/ (m.held = {} /\ Become(c, f))
    BY <1>1, Zenon
  <2>2. QED
    BY <1>2, <1>5, <1>7, <1>11, <1>12, <2>1
<1>16. e.req = cl[c].req /\ Rests(e, node', assign', group', config')
  BY <1>14, <1>15 DEF i
<1>17. QED
  BY <1>13, <1>15, <1>16, QuietStep

(* The step that adds a row to the table.                                  *)
LEMMA InsertLinkTable ==
  ASSUME TypeInv, TableInv, NoZeroNid, NoDuplicateNodes, NoDuplicateNodes', NEW c \in Client, Alone(c),
         NEW n \in NodeId, InsertLink(c, n)
  PROVE  Follows
<1> DEFINE i == cl[c]
           m == [i EXCEPT !.held = @ \ {n}]
<1>1. /\ i \in State /\ i.pc = "link" /\ n \in i.held /\ Plot(i)
      /\ Rests(i, node, assign, group, config)
      /\ UNCHANGED <<node, group, config>>
      /\ Become(c, IF m.held # {} THEN m ELSE AfterAdd(m))
  BY OwnTable DEF InsertLink
<1>2. /\ m \in State /\ m.pc = "link" /\ m.held = i.held \ {n} /\ m.req = i.req /\ m.new = i.new
      /\ m.some = i.some /\ m.upd = i.upd /\ m.plan = i.plan
  BY <1>1 DEF State
<1>3. PICK g \in GroupId : n \in i.plan[g] /\ assign' = [assign EXCEPT ![n] = g]
  BY <1>2 DEF InsertLink
<1> HIDE DEF m, i
<1>4. /\ NewNodes(m) = NewNodes(i) /\ Unlinked(m) = Unlinked(i) \ {n}
  BY <1>1, <1>2 DEF NewNodes, Unlinked
<1>5. Plot(m)
  BY <1>1, <1>2, <1>4 DEF Plot, Targeted, Done
<1>6. /\ i.req.kernel # None /\ n \in NewNodes(i)
      /\ i.req.method \in {"POST", "PUT"} /\ i.new[n] \in AllNames(i.req)
  BY <1>1, <1>3 DEF Plot, Done
<1>7. /\ \A k \in Unlinked(i) : assign[k] = Absent
      /\ \A k \in i.held : node[k] = i.new[k]
      /\ \A h \in GroupId : i.plan[h] # {} => h \in group /\ config[h] = Asked(i.req)
  BY <1>1 DEF Rests
<1>8. \A k \in NodeId : assign'[k] = IF k = n THEN g ELSE assign[k]
  BY <1>3 DEF TypeInv, TypeOK
<1>9. \A k \in Unlinked(m) : k \in NodeId /\ assign'[k] = Absent
  BY <1>4, <1>7, <1>8 DEF Unlinked, NewNodes
<1>10. Rests(m, node, assign', group, config)
  BY <1>2, <1>7, <1>9 DEF Rests
<1>11. LET h == AfterAdd(m) IN
       h.req = m.req /\ Plot(h) /\ \A nd, as, gr, cf : Rests(h, nd, as, gr, cf)
  BY <1>2, <1>5, AfterAddPlot DEF Plot, Done
<1>12. PICK e : /\ Become(c, e) /\ e.req = i.req /\ Plot(e) /\ Rests(e, node, assign', group, config)
  BY <1>1, <1>2, <1>5, <1>10, <1>11
<1>13. i.req \in Request /\ i.new[n] \in Name /\ i.new[n] # Absent /\ Asked(i.req) # Absent
  <2>1. i.req \in Request
    BY <1>1 DEF State
  <2>2. i.new[n] \in Name
    BY <1>6, <2>1, RequestTyped
  <2>3. QED
    BY <2>1, <2>2, RequestTyped, NamesAre
<1>14. Row(n) = NoRow
  <2>1. assign[n] = Absent
    BY <1>1, <1>6, <1>7 DEF Unlinked
  <2>2. ~Joined(n)
    BY <2>1, SqlAssumption DEF Joined, TypeInv, TypeOK
  <2>3. QED
    BY <2>2 DEF Row
<1>15. Row(n)' = [name |-> i.new[n], rec |-> Asked(i.req)]
  <2>1. node'[n] = i.new[n] /\ node'[n] # Absent
    BY <1>1, <1>7, <1>13
  <2>2. assign'[n] = g /\ g \in group' /\ config'[g] = Asked(i.req)
    BY <1>1, <1>3, <1>7, <1>8
  <2>3. Joined(n)'
    BY <1>13, <2>2 DEF Joined
  <2>4. QED
    BY <2>1, <2>2, <2>3 DEF Row
<1>16. \A k \in NodeId : k # n => Row(k)' = Row(k)
  BY <1>1, <1>8 DEF Row, Joined
<1>17. cl'[c].req = i.req
  BY <1>12, OthersStay
<1>18. TableNext
  BY <1>6, <1>13, <1>14, <1>15, <1>16, <1>17, AddRows DEF i
<1>19. Rests(e, node', assign', group', config')
  BY <1>1, <1>12
<1>20. QED
  BY <1>12, <1>18, <1>19, TableStep DEF Follows

(* Update.                                                                 *)
LEMMA UpdatePlot ==
  ASSUME NEW m, Plot(m), m.pc \in {"groups", "members", "reuse", "purge", "point"}
  PROVE  m.req.method \in {"PUT", "PATCH"} /\ (m.some => Targeted(m))
<1>1. m.pc \notin Done
  BY DEF Done
<1>2. m.req.method \in {"PUT", "PATCH"}
  BY Zenon DEF Plot
<1>3. m.some => Targeted(m)
  BY <1>1, Zenon DEF Plot
<1>4. QED
  BY <1>2, <1>3

LEMMA CheckUpdateTable ==
  ASSUME TypeInv, TableInv, NoZeroNid, NEW c \in Client, Alone(c), CheckUpdate(c)
  PROVE  Follows
<1> DEFINE m == cl[c]
           e == [m EXCEPT !.pc = "old"]
<1>1. /\ m \in State /\ m.pc = "exist" /\ UNCHANGED tables /\ Plot(m) /\ Phased(m)
      /\ Become(c, e) \/ Become(c, Finish(m, "failed"))
  BY OwnTable DEF CheckUpdate
<1>2. /\ e.pc = "old" /\ e.req = m.req /\ e.new = m.new /\ e.some = m.some /\ e.upd = m.upd
  BY <1>1 DEF State
<1> HIDE DEF e
<1>3. NewNodes(e) = {} /\ Unlinked(e) = {}
  BY <1>1, <1>2 DEF NewNodes, Phased, Updating, Unlinked
<1>4. Plot(e)
  BY <1>1, <1>2, <1>3 DEF Plot, Targeted, Done
<1>5. Rests(e, node', assign', group', config')
  BY <1>2, <1>3 DEF Rests
<1>6. \A n \in NodeId : Row(n)' = Row(n)
  BY <1>1, SameRows
<1>7. QED
  BY <1>1, <1>2, <1>4, <1>5, <1>6, FinishPlot, OwnState, QuietStep

LEMMA ReadTable ==
  ASSUME TypeInv, TableInv, NoZeroNid, NEW c \in Client, Alone(c), ReadOld(c) \/ ReadGroups(c)
  PROVE  Follows
<1> DEFINE m == cl[c]
<1>1. /\ m \in State /\ Plot(m) /\ Phased(m) /\ m.upd \in SUBSET Name
      /\ Rests(m, node, assign, group, config) /\ UNCHANGED tables
  BY OwnTable DEF ReadOld, ReadGroups, State
<1>2. \A n \in NodeId : Row(n)' = Row(n)
  BY <1>1, SameRows
<1>3. CASE ReadOld(c)
  <2> DEFINE old == {n \in Rows(m.upd) : Joined(n)}
             e == [m EXCEPT !.pc = "groups", !.held = old]
  <2>1. m.pc = "old" /\ (Become(c, e) \/ Become(c, Finish(m, "failed")))
    BY <1>3 DEF ReadOld
  <2>2. m.req.method \in {"PUT", "PATCH"} /\ Targeted(m)
    BY <1>1, <2>1 DEF Plot
  <2>3. \A n \in old : node[n] # Absent /\ assign[n] # Absent /\ Concerns(m, node[n])
    <3> SUFFICES ASSUME NEW n \in old
                 PROVE  node[n] # Absent /\ assign[n] # Absent /\ Concerns(m, node[n])
      OBVIOUS
    <3>1. n \in Rows(m.upd) /\ assign[n] \in group
      BY DEF Joined
    <3>2. node[n] # Absent /\ (m.upd # {} => node[n] \in m.upd)
      BY <1>1, <3>1, RowsNamed, NamesAre
    <3>3. assign[n] # Absent
      BY <3>1, SqlAssumption DEF TypeInv, TypeOK
    <3>4. QED
      BY <2>2, <3>2, <3>3 DEF Targeted, Concerns
  <2> HIDE DEF old
  <2>4. /\ e.pc = "groups" /\ e.req = m.req /\ e.new = m.new /\ e.some = m.some /\ e.upd = m.upd
        /\ e.held = old
    BY <1>1 DEF State
  <2> HIDE DEF e
  <2>5. NewNodes(e) = {} /\ Unlinked(e) = {}
    BY <1>1, <2>1, <2>4 DEF NewNodes, Phased, Updating, Unlinked
  <2>6. Plot(e)
    BY <2>2, <2>4, <2>5 DEF Plot, Targeted, Done
  <2>7. Rests(e, node, assign, group, config)
    BY <2>3, <2>4, <2>5 DEF Rests, Concerns
  <2>8. Rests(e, node', assign', group', config')
    BY <1>1, <2>7 DEF tables
  <2>9. QED
    BY <1>2, <2>1, <2>4, <2>6, <2>8, FinishPlot, OwnState, QuietStep
<1>4. CASE ReadGroups(c)
  <2> DEFINE todo == {assign[n] : n \in m.held} \intersect group
             e == [m EXCEPT !.pc = "members", !.todo = todo]
  <2>1. m.pc = "groups" /\ Become(c, e)
    BY <1>4 DEF ReadGroups
  <2>2. \A g \in todo : \E n \in m.held : assign[n] = g
    OBVIOUS
  <2> HIDE DEF todo
  <2>3. /\ e.pc = "members" /\ e.req = m.req /\ e.new = m.new /\ e.some = m.some /\ e.upd = m.upd
        /\ e.held = m.held /\ e.todo = todo
    BY <1>1 DEF State
  <2> HIDE DEF e
  <2>4. NewNodes(e) = {} /\ Unlinked(e) = {}
    BY <1>1, <2>1, <2>3 DEF NewNodes, Phased, Updating, Unlinked
  <2>5. Plot(e)
    BY <1>1, <2>1, <2>3, <2>4 DEF Plot, Targeted, Done
  <2>6. Rests(e, node, assign, group, config)
    BY <1>1, <2>1, <2>2, <2>3, <2>4 DEF Rests, Concerns
  <2>7. Rests(e, node', assign', group', config')
    BY <1>1, <2>6 DEF tables
  <2>8. QED
    BY <1>2, <2>1, <2>3, <2>5, <2>7, QuietStep
<1>5. QED
  BY <1>3, <1>4

LEMMA MembersTable ==
  ASSUME TypeInv, TableInv, NoZeroNid, NEW c \in Client, Alone(c), ReadMembers(c)
  PROVE  Follows
<1> DEFINE m == cl[c]
           joined == {g \in m.todo \intersect group : config[g] # Absent /\ Members(g) # {}}
           plan == [g \in GroupId |-> IF g \in joined THEN Members(g) ELSE {}]
           cfg == [g \in GroupId |-> IF g \in joined THEN config[g] ELSE Absent]
           e == [m EXCEPT !.pc = "reuse", !.todo = {}, !.plan = plan, !.cfg = cfg]
<1>1. /\ m \in State /\ Plot(m) /\ Phased(m) /\ m.pc = "members" /\ Become(c, e)
      /\ Rests(m, node, assign, group, config) /\ UNCHANGED tables
  BY OwnTable DEF ReadMembers
<1>2. \A n \in NodeId : Row(n)' = Row(n)
  BY <1>1, SameRows
<1>3. \A g \in GroupId : plan[g] # {} =>
        /\ g \in m.todo /\ g \in group /\ config[g] # Absent /\ cfg[g] = config[g]
        /\ plan[g] = Members(g)
  OBVIOUS
<1> HIDE DEF plan, cfg, joined
<1>4. /\ e.pc = "reuse" /\ e.req = m.req /\ e.new = m.new /\ e.some = m.some /\ e.upd = m.upd
      /\ e.held = m.held /\ e.plan = plan /\ e.cfg = cfg
  BY <1>1 DEF State
<1> HIDE DEF e
<1>5. NewNodes(e) = {} /\ Unlinked(e) = {}
  BY <1>1, <1>4 DEF NewNodes, Phased, Updating, Unlinked
<1>6. \A g \in GroupId : e.plan[g] # {} => e.plan[g] \intersect e.held # {}
  <2> SUFFICES ASSUME NEW g \in GroupId, e.plan[g] # {}
               PROVE  e.plan[g] \intersect e.held # {}
    OBVIOUS
  <2>1. g \in m.todo /\ e.plan[g] = Members(g)
    BY <1>3, <1>4
  <2>2. PICK n \in m.held : assign[n] = g
    BY <1>1, <2>1 DEF Rests
  <2>3. node[n] # Absent /\ n \in NodeId
    BY <1>1, <2>2 DEF Rests, State
  <2>4. QED
    BY <1>4, <2>1, <2>2, <2>3 DEF Members
<1>7. Plot(e)
  BY <1>1, <1>4, <1>5, <1>6 DEF Plot, Targeted, Done
<1>8. \A g \in GroupId : e.plan[g] # {} =>
        /\ g \in group /\ config[g] # Absent /\ e.cfg[g] = config[g]
        /\ \A n \in e.plan[g] : node[n] # Absent /\ assign[n] = g
  BY <1>3, <1>4 DEF Members
<1>9. Rests(e, node, assign, group, config)
  BY <1>1, <1>4, <1>5, <1>8 DEF Rests, Concerns
<1>10. Rests(e, node', assign', group', config')
  BY <1>1, <1>9 DEF tables
<1>11. QED
  BY <1>1, <1>2, <1>4, <1>7, <1>10, QuietStep

LEMMA PlanTable ==
  ASSUME TypeInv, TableInv, NoZeroNid, NEW c \in Client, Alone(c), PlanUpdate(c)
  PROVE  Follows
<1> DEFINE m == cl[c]
<1>1. /\ m \in State /\ Plot(m) /\ Phased(m) /\ m.pc = "reuse" /\ UNCHANGED tables
      /\ Rests(m, node, assign, group, config) /\ Enough(Unmet(m), GroupId \ UsedGroups)
  BY OwnTable, PlanIs
<1>2. PICK same : /\ \A g \in Old(m) \ Unmet(m) : same[Due(m, g)] \in Similar(Due(m, g))
                  /\ Become(c, Planned(m, same))
  BY PlanIs
<1> DEFINE e == Planned(m, same)
<1>3. /\ e \in State /\ e.pc = "purge" /\ e.req = m.req /\ e.new = m.new /\ e.some = m.some
      /\ e.upd = m.upd /\ e.drop = Unneeded(m) /\ e.held = m.held
      /\ \A g \in GroupId : e.plan[g] = m.plan[g] \intersect m.held
      /\ \A g \in GroupId : e.plan[g] # {} =>
           /\ Due(m, g) # Absent
           /\ \/ e.to[g] \in Similar(Due(m, g))
              \/ e.to[g] \in GroupId \ UsedGroups /\ e.cfg[e.to[g]] = Due(m, g)
      /\ \A h \in GroupId : e.cfg[h] # Absent => h \notin UsedGroups
  BY <1>1, <1>2, PlannedFields DEF TypeInv, TypeOK
<1>4. \A n \in NodeId : Row(n)' = Row(n)
  BY <1>1, SameRows
<1>5. Become(c, e)
  BY <1>2
<1> HIDE DEF e, m
<1>6. NewNodes(e) = {} /\ Unlinked(e) = {}
  BY <1>1, <1>3 DEF NewNodes, Phased, Updating, Unlinked
<1>7. e.drop = {}
  BY <1>1, <1>3 DEF Plot, Unneeded
<1>8. m.req.method \in {"PUT", "PATCH"} /\ (m.some => Targeted(m))
  BY <1>1, UpdatePlot
<1>9. Plot(e)
  BY <1>3, <1>6, <1>7, <1>8 DEF Plot, Targeted, Done
<1>10. ASSUME NEW g \in GroupId, e.plan[g] # {}
       PROVE  /\ From(e, g, node, assign, group, config)
              /\ Upto(e, g, config) \/ Onto(e, g, group, config)
  <2>1. /\ g \in group /\ config[g] # Absent /\ m.cfg[g] = config[g]
        /\ \A n \in m.plan[g] : node[n] # Absent /\ assign[n] = g
        /\ \A n \in m.held : Concerns(m, node[n])
    BY <1>1, <1>3, <1>10 DEF Rests
  <2>2. From(e, g, node, assign, group, config)
    BY <1>3, <2>1 DEF From, Concerns
  <2>3. Due(m, g) = Patched(config[g], e.req, e.req)
    BY <1>3, <2>1 DEF Due
  <2>4. CASE e.to[g] \in Similar(Due(m, g))
    BY <2>2, <2>3, <2>4 DEF Onto, Similar
  <2>5. CASE e.to[g] \in GroupId \ UsedGroups /\ e.cfg[e.to[g]] = Due(m, g)
    <3>1. e.to[g] \in Made(e)
      BY <1>3, <1>10, <2>5 DEF Made
    <3>2. QED
      BY <2>2, <2>3, <2>5, <3>1 DEF Upto
  <2>6. QED
    BY <1>3, <1>10, <2>4, <2>5
<1>11. \A g \in Made(e) : g \notin group /\ \A n \in NodeId : assign[n] # g
  BY <1>3 DEF Made, UsedGroups
<1>12. Rests(e, node, assign, group, config)
  BY <1>3, <1>6, <1>10, <1>11 DEF Rests
<1>13. Rests(e, node', assign', group', config')
  BY <1>1, <1>12 DEF tables
<1>14. e.req = cl[c].req
  BY <1>3 DEF m
<1>15. QED
  BY <1>4, <1>5, <1>9, <1>13, <1>14, QuietStep

LEMMA PurgeTable ==
  ASSUME TypeInv, TableInv, NoZeroNid, NEW c \in Client, Alone(c), Purge(c)
  PROVE  Follows
<1> DEFINE i == cl[c]
           m == [i EXCEPT !.drop = {}]
           e == [m EXCEPT !.pc = "config", !.todo = Made(m)]
<1>1. /\ i \in State /\ i.pc = "purge" /\ Plot(i) /\ Phased(i) /\ i.drop = {}
      /\ Rests(i, node, assign, group, config)
  BY OwnTable DEF Purge, Plot
<1>2. UNCHANGED <<node, assign, group, config>>
  BY <1>1 DEF Purge, TypeInv, TypeOK
<1>3. Become(c, e) \/ (Made(m) = {} /\ Become(c, ToPoint(m)))
  BY Zenon DEF Purge
<1>4. /\ m \in State /\ m.pc = "purge" /\ m.req = i.req /\ m.upd = i.upd
      /\ m.some = i.some /\ m.new = i.new /\ m.plan = i.plan /\ m.cfg = i.cfg /\ m.to = i.to
  BY <1>1 DEF State
<1> HIDE DEF m, i
<1>5. /\ e.pc = "config" /\ e.req = i.req /\ e.upd = i.upd /\ e.cfg = i.cfg
      /\ e.some = i.some /\ e.new = i.new /\ e.plan = i.plan /\ e.todo = Made(m) /\ e.to = i.to
  BY <1>4 DEF State, Made
<1> HIDE DEF e
<1>6. /\ NewNodes(i) = {} /\ NewNodes(m) = {} /\ NewNodes(e) = {} /\ Unlinked(e) = {}
      /\ Made(m) = Made(i) /\ Made(e) = Made(i)
  BY <1>1, <1>4, <1>5 DEF NewNodes, Phased, Updating, Unlinked, Made
<1>7. i.req.method \in {"PUT", "PATCH"} /\ (i.some => Targeted(i))
  BY <1>1, UpdatePlot
<1>8. Plot(e)
  BY <1>4, <1>5, <1>6, <1>7 DEF Plot, Targeted, Done
<1>9. /\ \A g \in GroupId : i.plan[g] # {} =>
           /\ From(i, g, node, assign, group, config)
           /\ Upto(i, g, config) \/ Onto(i, g, group, config)
      /\ Made(i) \intersect group = {} /\ \A g \in Made(i), n \in NodeId : assign[n] # g
  BY <1>1, <1>6 DEF Rests
<1>10. \A g \in GroupId, f \in {m, e} : i.plan[g] # {} =>
         /\ From(f, g, node, assign, group, config)
         /\ Upto(f, g, config) \/ Onto(f, g, group, config)
  BY <1>4, <1>5, <1>6, <1>9 DEF From, Upto, Onto, Concerns
<1>11. Rests(e, node, assign, group, config)
  BY <1>5, <1>6, <1>9, <1>10 DEF Rests
<1>12. Made(m) = {} => LET f == ToPoint(m) IN
         f.req = m.req /\ Plot(f) /\ Rests(f, node, assign, group, config)
  <2>1. Made(m) = {} => \A g \in GroupId : m.plan[g] # {} =>
          From(m, g, node, assign, group, config) /\ Onto(m, g, group, config)
    BY <1>4, <1>10 DEF Upto
  <2>2. m.some => m.req.method \in {"PUT", "PATCH"} /\ Targeted(m)
    BY <1>4, <1>7 DEF Targeted
  <2>3. QED
    BY <1>4, <1>6, <1>7, <2>1, <2>2, ToPointPlot
<1>13. PICK f : Become(c, f) /\ f.req = i.req /\ Plot(f) /\ Rests(f, node, assign, group, config)
  BY <1>3, <1>4, <1>5, <1>8, <1>11, <1>12
<1>14. \A n \in NodeId : Row(n)' = Row(n)
  BY <1>2 DEF Row, Joined
<1>15. f.req = cl[c].req /\ Rests(f, node', assign', group', config')
  BY <1>2, <1>13 DEF i
<1>16. QED
  BY <1>13, <1>14, <1>15, QuietStep

(* The step that changes rows of the table: those of the nodes that move.  *)
LEMMA PointTable ==
  ASSUME TypeInv, TableInv, NoZeroNid, NoDuplicateNodes, NoDuplicateNodes', NEW c \in Client, Alone(c),
         NEW g \in GroupId, Point(c, g)
  PROVE  Follows
<1> DEFINE i == cl[c]
           m == [i EXCEPT !.todo = @ \ {g}]
<1>1. /\ i \in State /\ i.pc = "point" /\ g \in i.todo /\ Plot(i) /\ i.req \in Request
      /\ Rests(i, node, assign, group, config)
      /\ UNCHANGED <<node, group, config>>
      /\ Become(c, m) \/ Become(c, Finish(m, "ok"))
  BY OwnTable DEF Point
<1>2. /\ m.pc = "point" /\ m.todo = i.todo \ {g} /\ m.req = i.req /\ m.new = i.new
      /\ m.some = i.some /\ m.upd = i.upd /\ m.plan = i.plan /\ m.to = i.to
  BY <1>1 DEF State
<1>3. assign' = [n \in NodeId |->
                  IF n \in i.plan[g] /\ assign[n] # Absent THEN i.to[g] ELSE assign[n]]
  BY <1>2 DEF Point
<1> HIDE DEF m, i
<1>4. \A h \in i.todo : From(i, h, node, assign, group, config) /\ Onto(i, h, group, config)
  BY <1>1 DEF Rests
<1>5. \A n \in NodeId : assign'[n] = IF n \in i.plan[g] THEN i.to[g] ELSE assign[n]
  <2>1. \A n \in i.plan[g] : assign[n] = g
    BY <1>1, <1>4 DEF From
  <2>2. g # Absent
    BY SqlAssumption
  <2>3. QED
    BY <1>3, <2>1, <2>2
<1>6. i.plan[g] \subseteq NodeId
  BY <1>1 DEF State
<1>7. NewNodes(m) = NewNodes(i) /\ Unlinked(m) = {}
  BY <1>2 DEF NewNodes, Unlinked
<1>8. Plot(m)
  BY <1>1, <1>2, <1>7 DEF Plot, Targeted, Done
<1>9. ASSUME NEW h \in m.todo
      PROVE  From(m, h, node, assign', group, config) /\ Onto(m, h, group, config)
  <2>1. From(i, h, node, assign, group, config) /\ Onto(i, h, group, config) /\ h # g
    BY <1>2, <1>4
  <2>2. \A n \in i.plan[h] : n \in NodeId /\ n \notin i.plan[g]
    <3>1. h \in GroupId
      BY <1>1, <1>2 DEF State
    <3>2. i.plan[h] \subseteq NodeId
      BY <1>1, <3>1 DEF State
    <3>3. \A n \in i.plan[g] : assign[n] = g
      BY <1>1, <1>4 DEF From
    <3>4. \A n \in i.plan[h] : assign[n] = h
      BY <2>1 DEF From
    <3>5. QED
      BY <2>1, <3>2, <3>3, <3>4
  <2>3. \A n \in i.plan[h] : assign'[n] = assign[n]
    BY <1>5, <2>2
  <2>4. From(m, h, node, assign', group, config)
    BY <1>2, <2>1, <2>3 DEF From, Concerns
  <2>5. QED
    BY <1>2, <2>1, <2>4 DEF Onto
<1>10. Rests(m, node, assign', group, config)
  BY <1>2, <1>7, <1>9 DEF Rests
<1>11. PICK e : /\ Become(c, e) /\ e.req = i.req /\ Plot(e) /\ Rests(e, node, assign', group, config)
  BY <1>1, <1>2, <1>8, <1>10, FinishPlot DEF Done
<1>12. i.req.method \in {"PUT", "PATCH"}
  BY <1>1, UpdatePlot
<1>13. ASSUME NEW n \in i.plan[g]
       PROVE  /\ Row(n).name \in Name /\ Concerns(i, Row(n).name) /\ Row(n).rec # Absent
              /\ Row(n)' = [name |-> Row(n).name, rec |-> Patched(Row(n).rec, i.req, i.req)]
  <2>1. /\ n \in NodeId /\ node[n] # Absent /\ assign[n] = g /\ Concerns(i, node[n])
        /\ g \in group /\ config[g] # Absent
        /\ i.to[g] \in group /\ config[i.to[g]] = Patched(config[g], i.req, i.req)
    BY <1>1, <1>4, <1>6 DEF From, Onto
  <2>2. node[n] \in Name /\ config[g] \in Record
    BY <2>1 DEF TypeInv, TypeOK
  <2>3. Patched(config[g], i.req, i.req) # Absent
    BY <1>1, <2>2, PatchedTyped
  <2>4. Row(n) = [name |-> node[n], rec |-> config[g]]
    BY <2>1 DEF Row, Joined
  <2>5. assign'[n] = i.to[g] /\ node'[n] = node[n] /\ group' = group /\ config' = config
    BY <1>1, <1>5, <2>1
  <2>6. Joined(n)'
    BY <2>1, <2>3, <2>5 DEF Joined
  <2>7. Row(n)' = [name |-> node[n], rec |-> config[i.to[g]]]
    BY <2>1, <2>5, <2>6 DEF Row
  <2>8. QED
    BY <2>1, <2>2, <2>4, <2>7
<1>14. \A n \in NodeId : n \notin i.plan[g] => Row(n)' = Row(n)
  BY <1>1, <1>5 DEF Row, Joined
<1>15. cl'[c].req = i.req
  BY <1>11, OthersStay
<1>16. TableNext
  BY <1>6, <1>12, <1>13, <1>14, <1>15, ChangeRows DEF i, Concerns
<1>17. Rests(e, node', assign', group', config')
  BY <1>1, <1>11
<1>18. QED
  BY <1>11, <1>16, <1>17, TableStep DEF Follows

(* Delete, by nodes.                                                       *)
LEMMA DeleteNodesTable ==
  ASSUME TypeInv, TableInv, NoZeroNid, NoDuplicateNodes, NoDuplicateNodes', NEW c \in Client, Alone(c),
         DeleteNodes(c)
  PROVE  Follows
<1> DEFINE m == cl[c]
           gone == Rows(m.upd)
           e == [m EXCEPT !.pc = "unlink", !.held = gone]
<1>1. /\ m \in State /\ m.pc = "delnodes" /\ Plot(m) /\ m.upd \in SUBSET Name
      /\ UNCHANGED <<assign, group, config>>
      /\ node' = [n \in NodeId |-> IF n \in gone THEN Absent ELSE node[n]]
      /\ Become(c, e) \/ Become(c, Finish(m, "failed"))
  BY OwnTable DEF DeleteNodes, State
<1>2. /\ m.req.method = "DELETE" /\ m.upd # {} /\ m.upd \subseteq AllNames(m.req) /\ m.drop = {}
      /\ \A n \in NewNodes(m) : m.req.method \in {"POST", "PUT"}
      /\ m.some => m.req.method \in {"PUT", "PATCH"} /\ Targeted(m)
  BY <1>1 DEF Plot, Done
<1>3. \A n \in gone : n \in NodeId /\ node[n] \in AllNames(m.req)
  BY <1>1, <1>2, RowsNamed
<1> HIDE DEF gone
<1>4. /\ e.pc = "unlink" /\ e.req = m.req /\ e.new = m.new /\ e.some = m.some /\ e.upd = m.upd
      /\ e.held = gone /\ e.drop = m.drop
  BY <1>1 DEF State
<1> HIDE DEF e
<1>5. NewNodes(e) = NewNodes(m) /\ Unlinked(e) = {}
  BY <1>4 DEF NewNodes, Unlinked
<1>6. Plot(e)
  BY <1>1, <1>2, <1>4, <1>5 DEF Plot, Targeted, Done
<1>7. Rests(e, node', assign, group, config)
  BY <1>1, <1>3, <1>4, <1>5 DEF Rests
<1>8. PICK f : /\ Become(c, f) /\ f.req = m.req /\ Plot(f) /\ Rests(f, node', assign, group, config)
  BY <1>1, <1>4, <1>6, <1>7, FinishPlot DEF Done
<1>9. /\ \A n \in NodeId : n \notin gone => Row(n)' = Row(n)
      /\ \A n \in gone : Row(n)' = NoRow /\ (Row(n) = NoRow \/ Row(n).name \in AllNames(m.req))
  BY <1>1, <1>3 DEF Row, Joined, NoRow
<1>10. gone \in SUBSET NodeId /\ AllNames(m.req) # {}
  BY <1>2, <1>3
<1>11. cl'[c].req = m.req
  BY <1>8, OthersStay
<1>12. TableNext
  BY <1>2, <1>9, <1>10, <1>11, RemoveRows DEF TypeInv
<1>13. Rests(f, node', assign', group', config')
  BY <1>1, <1>8
<1>14. QED
  BY <1>8, <1>12, <1>13, TableStep DEF Follows

Leaving == {"count", "dropgroups", "dropconfigs", "delgroups", "dellinks", "delmembers"}

LEMMA LeavingPlot ==
  ASSUME NEW m, NEW e, Plot(m), m.pc \notin Done, e.pc \in Leaving,
         e.req = m.req, e.new = m.new, e.some = m.some, e.upd = m.upd
  PROVE  Plot(e) /\ Unlinked(e) = {}
<1>1. NewNodes(e) = NewNodes(m) /\ Unlinked(e) = {}
  BY DEF NewNodes, Unlinked, Leaving
<1>2. /\ \A n \in NewNodes(m) : m.req.method \in {"POST", "PUT"} /\ m.new[n] \in AllNames(m.req)
      /\ m.some => m.req.method \in {"PUT", "PATCH"} /\ Targeted(m)
  BY Zenon DEF Plot
<1>3. Plot(e)
  BY <1>1, <1>2 DEF Plot, Leaving, Targeted
<1>4. QED
  BY <1>1, <1>3

LEMMA DropTable ==
  ASSUME TypeInv, TableInv, NoZeroNid, NEW c \in Client, Alone(c),
         \/ DeleteLinks(c) \/ DropGroups(c) \/ DropConfigs(c)
         \/ \E g \in GroupId : CountMembers(c, g)
  PROVE  Follows
<1> DEFINE m == cl[c]
<1>1. /\ m \in State /\ m.req \in Request /\ Plot(m) /\ Rests(m, node, assign, group, config)
      /\ m.pc \notin Done
  BY OwnTable DEF DeleteLinks, DropGroups, DropConfigs, CountMembers, Done
<1>2. CASE DeleteLinks(c)
  <2> DEFINE groups == {assign[n] : n \in m.held} \ {Absent}
             e == [m EXCEPT !.pc = "count", !.todo = groups]
  <2>1. /\ m.pc = "unlink" /\ UNCHANGED <<node, group, config>>
        /\ assign' = [n \in NodeId |-> IF n \in m.held THEN Absent ELSE assign[n]]
        /\ Become(c, e) \/ Become(c, Finish(m, "ok"))
    BY <1>2 DEF DeleteLinks
  <2>2. m.drop = {} /\ \A n \in m.held : node[n] = Absent
    BY <1>1, <2>1 DEF Plot, Rests
  <2> HIDE DEF groups
  <2>3. /\ e.pc = "count" /\ e.req = m.req /\ e.new = m.new /\ e.some = m.some /\ e.upd = m.upd
        /\ e.drop = m.drop
    BY <1>1 DEF State
  <2> HIDE DEF e
  <2>4. Plot(e) /\ Unlinked(e) = {}
    BY <1>1, <2>3, LeavingPlot DEF Leaving
  <2>5. Rests(e, node', assign', group', config')
    BY <2>2, <2>3, <2>4 DEF Rests
  <2>6. \A n \in NodeId : Row(n)' = Row(n)
    BY <2>1, <2>2 DEF Row, Joined
  <2>7. QED
    BY <2>1, <2>3, <2>4, <2>5, <2>6, FinishPlot, OwnState, QuietStep
<1>3. ASSUME NEW g \in GroupId, CountMembers(c, g) PROVE Follows
  <2> DEFINE i == [m EXCEPT !.todo = @ \ {g}, !.drop = IF Members(g) = {} THEN @ \union {g} ELSE @]
             e == [i EXCEPT !.pc = "dropgroups"]
  <2>1. /\ m.pc = "count" /\ UNCHANGED tables
        /\ Become(c, i) \/ Become(c, Finish(i, "ok")) \/ Become(c, e)
    BY <1>3 DEF CountMembers
  <2>2. /\ i.pc = "count" /\ i.req = m.req /\ i.new = m.new /\ i.some = m.some /\ i.upd = m.upd
        /\ i.drop = (IF Members(g) = {} THEN m.drop \union {g} ELSE m.drop)
        /\ e.pc = "dropgroups" /\ e.req = m.req /\ e.new = m.new /\ e.some = m.some /\ e.upd = m.upd
        /\ e.drop = i.drop
    BY <1>1, <2>1 DEF State
  <2> HIDE DEF e, i
  <2>3. Plot(e) /\ Unlinked(e) = {} /\ Plot(i) /\ Unlinked(i) = {}
    BY <1>1, <2>2, LeavingPlot DEF Leaving
  <2>4. \A h \in i.drop, n \in NodeId : node[n] # Absent => assign[n] # h
    BY <1>1, <2>1, <2>2 DEF Rests, Members
  <2>5. Rests(e, node, assign, group, config) /\ Rests(i, node, assign, group, config)
    BY <2>2, <2>3, <2>4 DEF Rests
  <2>6. PICK f : Become(c, f) /\ f.req = m.req /\ Plot(f) /\ Rests(f, node, assign, group, config)
    BY <2>1, <2>2, <2>3, <2>5, FinishPlot DEF Done
  <2>7. Rests(f, node', assign', group', config')
    BY <2>1, <2>6 DEF tables
  <2>8. QED
    BY <2>1, <2>6, <2>7, SameRows, QuietStep
<1>4. CASE DropGroups(c)
  <2> DEFINE gone == m.drop \intersect group
             e == [m EXCEPT !.pc = "dropconfigs", !.drop = gone]
  <2>1. /\ m.pc = "dropgroups" /\ UNCHANGED <<node, assign, config>> /\ group' = group \ gone
        /\ Become(c, e) \/ Become(c, Finish(m, "failed"))
    BY <1>4 DEF DropGroups
  <2>2. \A h \in gone, n \in NodeId : node[n] # Absent => assign[n] # h
    BY <1>1, <2>1 DEF Rests
  <2> HIDE DEF gone
  <2>3. /\ e.pc = "dropconfigs" /\ e.req = m.req /\ e.new = m.new /\ e.some = m.some /\ e.upd = m.upd
        /\ e.drop = gone
    BY <1>1 DEF State
  <2> HIDE DEF e
  <2>4. Plot(e) /\ Unlinked(e) = {}
    BY <1>1, <2>3, LeavingPlot DEF Leaving
  <2>5. Rests(e, node, assign, group', config)
    BY <2>2, <2>3, <2>4 DEF Rests
  <2>6. Rests(e, node', assign', group', config')
    BY <2>1, <2>5
  <2>7. \A n \in NodeId : Row(n)' = Row(n)
    BY <2>1, <2>2 DEF Row, Joined
  <2>8. QED
    BY <2>1, <2>3, <2>4, <2>6, <2>7, FinishPlot, OwnState, QuietStep
<1>5. CASE DropConfigs(c)
  <2>1. /\ m.pc = "dropconfigs" /\ UNCHANGED <<node, assign, group>>
        /\ config' = [g \in GroupId |-> IF g \in m.drop THEN Absent ELSE config[g]]
        /\ Become(c, Finish(m, "ok"))
    BY <1>5 DEF DropConfigs
  <2>2. \A h \in m.drop, n \in NodeId : node[n] # Absent => assign[n] # h
    BY <1>1, <2>1 DEF Rests
  <2>3. \A n \in NodeId : node[n] # Absent /\ assign[n] \in group => config'[assign[n]] = config[assign[n]]
    BY <2>1, <2>2 DEF TypeInv, TypeOK
  <2>4. \A n \in NodeId : Row(n)' = Row(n)
    BY <2>1, <2>3 DEF Row, Joined
  <2>5. QED
    BY <2>1, <2>4, FinishPlot, OwnState, QuietStep
<1>6. QED
  BY <1>2, <1>3, <1>4, <1>5

(* Delete, by configs.  The first statement takes the rows from the table, *)
(* and the others remove what nothing is read from.                        *)
LEMMA DeleteConfigsTable ==
  ASSUME TypeInv, TableInv, NoZeroNid, NoDuplicateNodes, NoDuplicateNodes', NEW c \in Client, Alone(c),
         DeleteConfigs(c)
  PROVE  Follows
<1> DEFINE m == cl[c]
           gone == {g \in GroupId : config[g] # Absent /\ HasItems(config[g], m.req)}
           e == [m EXCEPT !.pc = "delgroups", !.drop = gone]
           set == {n \in NodeId : Row(n) # NoRow /\ HasItems(Row(n).rec, m.req)}
<1>1. /\ m \in State /\ m.pc = "delconfigs" /\ Plot(m) /\ m.pc \notin Done
      /\ UNCHANGED <<node, assign, group>> /\ Become(c, e)
      /\ config' = [g \in GroupId |-> IF g \in gone THEN Absent ELSE config[g]]
  BY OwnTable DEF DeleteConfigs, Done
<1>2. m.req.method = "DELETE" /\ AllNames(m.req) = {}
  BY <1>1 DEF Plot
<1>3. /\ gone \subseteq GroupId
      /\ \A g \in GroupId : g \in gone <=> config[g] # Absent /\ HasItems(config[g], m.req)
  OBVIOUS
<1> HIDE DEF gone
<1>4. /\ e.pc = "delgroups" /\ e.req = m.req /\ e.new = m.new /\ e.some = m.some /\ e.upd = m.upd
      /\ e.drop = gone
  BY <1>1 DEF State
<1> HIDE DEF e
<1>5. Plot(e) /\ Unlinked(e) = {}
  BY <1>1, <1>4, LeavingPlot DEF Leaving
<1>6. \A g \in gone : config'[g] = Absent
  BY <1>1, <1>3
<1>7. Rests(e, node', assign', group', config')
  BY <1>4, <1>5, <1>6 DEF Rests
<1>8. ASSUME NEW n \in NodeId
      PROVE  /\ Row(n) = NoRow => Row(n)' = NoRow
             /\ Row(n) # NoRow /\ HasItems(Row(n).rec, m.req) => Row(n)' = NoRow
             /\ Row(n) # NoRow /\ ~HasItems(Row(n).rec, m.req) => Row(n)' = Row(n)
  <2>1. CASE node[n] # Absent /\ Joined(n)
    <3> DEFINE g == assign[n]
    <3>1. g \in GroupId /\ g \in group /\ config[g] # Absent
      BY <2>1 DEF Joined, TypeInv, TypeOK
    <3>2. Row(n) = [name |-> node[n], rec |-> config[g]] /\ Row(n) # NoRow
      BY <2>1 DEF Row, NoRow
    <3>3. config'[g] = IF HasItems(config[g], m.req) THEN Absent ELSE config[g]
      BY <1>1, <1>3, <3>1
    <3>4. HasItems(config[g], m.req) => Row(n)' = NoRow
      BY <1>1, <3>3 DEF Row, Joined
    <3>5. ~HasItems(config[g], m.req) => Row(n)' = Row(n)
      BY <1>1, <3>3 DEF Row, Joined
    <3>6. QED
      BY <3>2, <3>4, <3>5
  <2>2. CASE node[n] = Absent
    BY <1>1, <2>2 DEF Row
  <2>3. CASE node[n] # Absent /\ ~Joined(n)
    <3>1. Row(n) = NoRow
      BY <2>3 DEF Row
    <3>2. ~Joined(n)'
      BY <1>1, <1>3, <2>3 DEF Joined, TypeInv, TypeOK
    <3>3. Row(n)' = NoRow
      BY <3>2 DEF Row
    <3>4. QED
      BY <3>1, <3>3
  <2>4. QED
    BY <2>1, <2>2, <2>3
<1>9. /\ \A n \in NodeId : n \notin set => Row(n)' = Row(n)
      /\ \A n \in set : Row(n)' = NoRow
      /\ set \in SUBSET NodeId
  BY <1>8
<1>10. cl'[c].req = m.req
  BY <1>1, <1>4, OthersStay
<1>11. TableNext
  BY <1>2, <1>9, <1>10, RemoveRows DEF TypeInv
<1>12. QED
  BY <1>1, <1>5, <1>7, <1>11, TableStep DEF Follows

LEMMA ClearTable ==
  ASSUME TypeInv, TableInv, NoZeroNid, NEW c \in Client, Alone(c),
         DeleteGroups(c) \/ DeleteGroupLinks(c) \/ DeleteMembers(c)
  PROVE  Follows
<1> DEFINE m == cl[c]
<1>1. /\ m \in State /\ m.req \in Request /\ Plot(m) /\ Rests(m, node, assign, group, config)
      /\ m.pc \notin Done
  BY OwnTable DEF DeleteGroups, DeleteGroupLinks, DeleteMembers, Done
<1>2. CASE DeleteGroups(c)
  <2> DEFINE e == [m EXCEPT !.pc = "dellinks", !.drop = @ \intersect group]
  <2>1. /\ m.pc = "delgroups" /\ UNCHANGED <<node, assign, config>> /\ group' = group \ m.drop
        /\ Become(c, e)
    BY <1>2 DEF DeleteGroups
  <2>2. \A g \in m.drop : config[g] = Absent
    BY <1>1, <2>1 DEF Rests
  <2>3. /\ e.pc = "dellinks" /\ e.req = m.req /\ e.new = m.new /\ e.some = m.some /\ e.upd = m.upd
        /\ e.drop \subseteq m.drop
    BY <1>1 DEF State
  <2> HIDE DEF e
  <2>4. Plot(e) /\ Unlinked(e) = {}
    BY <1>1, <2>3, LeavingPlot DEF Leaving
  <2>5. Rests(e, node', assign', group', config')
    BY <2>1, <2>2, <2>3, <2>4 DEF Rests
  <2>6. \A n \in NodeId : Row(n)' = Row(n)
    BY <2>1, <2>2 DEF Row, Joined
  <2>7. QED
    BY <2>1, <2>3, <2>4, <2>5, <2>6, QuietStep
<1>3. CASE DeleteGroupLinks(c)
  <2> DEFINE gone == {n \in NodeId : assign[n] \in m.drop}
             e == [m EXCEPT !.pc = "delmembers", !.drop = {}, !.held = gone]
  <2>1. /\ m.pc = "dellinks" /\ UNCHANGED <<node, group, config>> /\ Become(c, e)
        /\ assign' = [n \in NodeId |-> IF n \in gone THEN Absent ELSE assign[n]]
    BY <1>3 DEF DeleteGroupLinks
  <2>2. \A g \in m.drop : config[g] = Absent
    BY <1>1, <2>1 DEF Rests
  <2>3. \A n \in gone : n \in NodeId /\ assign'[n] = Absent
    BY <2>1
  <2>4. \A n \in NodeId : Row(n)' = Row(n)
    <3> SUFFICES ASSUME NEW n \in NodeId PROVE Row(n)' = Row(n)
      OBVIOUS
    <3>1. CASE n \notin gone
      BY <2>1, <3>1 DEF Row, Joined
    <3>2. CASE n \in gone
      <4>1. ~Joined(n)
        BY <2>2, <3>2 DEF Joined
      <4>2. assign'[n] \notin group'
        BY <2>1, <2>3, <3>2, SqlAssumption DEF TypeInv, TypeOK
      <4>3. ~Joined(n)'
        BY <4>2 DEF Joined
      <4>4. QED
        BY <4>1, <4>3 DEF Row
    <3>3. QED
      BY <3>1, <3>2
  <2> HIDE DEF gone
  <2>5. /\ e.pc = "delmembers" /\ e.req = m.req /\ e.new = m.new /\ e.some = m.some /\ e.upd = m.upd
        /\ e.held = gone
    BY <1>1 DEF State
  <2> HIDE DEF e
  <2>6. Plot(e) /\ Unlinked(e) = {}
    BY <1>1, <2>5, LeavingPlot DEF Leaving
  <2>7. Rests(e, node', assign', group', config')
    BY <2>3, <2>5, <2>6 DEF Rests
  <2>8. QED
    BY <2>1, <2>4, <2>5, <2>6, <2>7, QuietStep
<1>4. CASE DeleteMembers(c)
  <2>1. /\ m.pc = "delmembers" /\ UNCHANGED <<assign, group, config>>
        /\ node' = [n \in NodeId |-> IF n \in m.held THEN Absent ELSE node[n]]
        /\ Become(c, Finish(m, "ok"))
    BY <1>4 DEF DeleteMembers
  <2>2. \A n \in m.held : assign[n] = Absent
    BY <1>1, <2>1 DEF Rests
  <2>3. \A n \in m.held : ~Joined(n)
    BY <2>2, SqlAssumption DEF Joined, TypeInv, TypeOK
  <2>4. \A n \in NodeId : Row(n)' = Row(n)
    BY <2>1, <2>3 DEF Row, Joined
  <2>5. QED
    BY <2>1, <2>4, FinishPlot, OwnState, QuietStep
<1>5. QED
  BY <1>2, <1>3, <1>4

LEMMA StepTable ==
  ASSUME NoZeroNid, NEW c \in Client, Alone(c), TypeInv, NamesInv, TableInv, [Next]_vars
  PROVE  Follows
<1>1. \A d \in Client : d = c
  BY AloneIs
<1>2. NoDuplicateNodes /\ NoDuplicateNodes'
  <2>1. LoneAdder
    BY <1>1 DEF LoneAdder
  <2>2. NamesInv'
    BY <2>1, StepNames
  <2>3. QED
    BY <2>2 DEF NamesInv
<1>3. CASE UNCHANGED vars
  <2>1. UNCHANGED tables /\ cl' = cl
    BY <1>3 DEF vars
  <2>2. TableInv'
    <3>1. \A d \in Client : Plot(cl'[d]) /\ Rests(cl'[d], node', assign', group', config')
      BY <2>1 DEF TableInv, tables
    <3>2. QED
      BY <3>1, Zenon DEF TableInv, Plot, Rests
  <2>3. \A n \in NodeId : Row(n)' = Row(n)
    BY <2>1, SameRows
  <2>4. QED
    BY <2>1, <2>2, <2>3, QuietRows DEF Follows
<1>4. CASE Begin(c) \/ StatementFails(c) \/ CheckSet(c) \/ ListSet(c)
  BY <1>4, BeginTable, FailTable, SetTable
<1>5. CASE AddStep(c)
  BY <1>2, <1>5, FindTable, SimilarTable, InsertConfigTable, InsertGroupTable, InsertNodeTable,
     InsertLinkTable DEF AddStep
<1>6. CASE UpdateStep(c)
  BY <1>2, <1>6, CheckUpdateTable, ReadTable, MembersTable, PlanTable, PurgeTable, PointTable
  DEF UpdateStep
<1>7. CASE DeleteStep(c)
  BY <1>2, <1>7, DropTable, DeleteNodesTable, DeleteConfigsTable, ClearTable DEF DeleteStep
<1>8. QED
  BY <1>1, <1>3, <1>4, <1>5, <1>6, <1>7 DEF Next

LEMMA InitTable ==
  ASSUME NEW c \in Client, Alone(c), Init
  PROVE  TableInv /\ Table!Init
<1>1. TableInv
  <2>1. \A d \in Client : cl[d].pc \in Done
    BY NoRequestTyped, BlankTyped DEF Init, Blank, Done
  <2>2. QED
    BY <2>1, DonePlot DEF TableInv
<1>2. \A n \in NodeId : node[n] = Absent
  BY DEF Init
<1>3. \A x \in Name : Served(x) = {}
  BY <1>2 DEF Served, Rows
<1>4. Held = [x \in Name |-> Absent]
  BY <1>3 DEF Held
<1>5. Lone = NoRequest
  BY AloneIs DEF Lone, Init, Blank
<1>6. Table!Request = Request
  BY DEF Table!Request, Request, Table!Method, Method
<1>7. Lone \in Table!Request /\ Held = [x \in Table!Name |-> Absent]
  BY <1>4, <1>5, <1>6, NoRequestTyped, TableWords
<1>8. QED
  BY <1>1, <1>7, Zenon DEF Table!Init, Lone, Held

(* A lone client, whose statements may fail, sees one table of the nodes'  *)
(* configurations, that changes as NodeTable says: a row that a request    *)
(* adds appears with its assignment, rows that it changes or removes do so *)
(* in a single statement, and the other statements are not seen, nor is    *)
(* what a handler that gave up between two of them left behind.            *)
THEOREM TableImplemented ==
  ASSUME NEW c \in Client, Client = {c}, ZeroNid \notin Nid
  PROVE  Spec => ImplementsNodeTable
<1>1. Alone(c) /\ NoZeroNid
  BY DEF Alone, NoZeroNid
<1> DEFINE Inv == TypeInv /\ NamesInv /\ TableInv
<1>2. Init => Inv /\ Table!Init
  BY <1>1, InitTyped, InitNames, InitTable
<1>3. Inv /\ [Next]_vars => Inv' /\ TableNext
  <2>1. LoneAdder
    BY <1>1, AloneIs DEF LoneAdder
  <2>2. QED
    BY <1>1, <2>1, StepTyped, StepNames, StepTable DEF Follows
<1>4. TableNext => [Table!Next]_<<Lone, Held>>
  <2>1. Lone = cl[CHOOSE d \in Client : TRUE].req /\ Lone' = cl'[CHOOSE d \in Client : TRUE].req
    BY DEF Lone
  <2>2. Held = [x \in Name |-> Conf(x)] /\ Held' = [x \in Name |-> Conf(x)']
    BY <1>1, HeldIs
  <2>3. QED
    BY <2>1, <2>2 DEF TableNext
<1>5. Inv /\ [Next]_vars => [Table!Next]_<<Lone, Held>>
  BY <1>3, <1>4
<1> HIDE DEF Inv
<1>6. Init => Table!Init
  BY <1>2
<1>7. QED
  BY <1>2, <1>3, <1>5, <1>6, PTL DEF Spec, ImplementsNodeTable, Table!Spec, Lone, Held

-----------------------------------------------------------------------------
(* What is left of the lone client's request.  A row awaits it if what it  *)
(* asks is not so, and until the request ends the row is among those that  *)
(* it has still to come to: all of them before it has read any, those of   *)
(* the names it will update, those that it read, those whose group it is   *)
(* to visit, or those planned to move.                                     *)
Awaits(r, n, nd, as, gr, cf) ==
  /\ nd[n] # Absent /\ as[n] \in gr /\ cf[as[n]] # Absent
  /\ Undone(r, nd[n], cf[as[n]])

Adding(m) ==
  \/ m.pc \in {"find", "similar", "node", "link"}
  \/ m.pc \in {"config", "group"} /\ NewNodes(m) # {}
Named(m, x) == m.upd = {} \/ x \in m.upd

Left(m, n, nd, as) ==
  \/ m.pc \in {"check", "list", "delnodes", "delconfigs"}
  \/ (m.pc \in {"exist", "old"} \/ (m.some /\ Adding(m))) /\ Named(m, nd[n])
  \/ m.pc = "groups" /\ n \in m.held
  \/ m.pc = "members" /\ n \in m.held /\ as[n] \in m.todo
  \/ m.pc = "reuse" /\ n \in m.held /\ \E g \in GroupId : n \in m.plan[g]
  \/ /\ m.pc = "purge" \/ (m.pc \in {"config", "group"} /\ NewNodes(m) = {})
     /\ \E g \in GroupId : n \in m.plan[g]
  \/ m.pc = "point" /\ \E g \in m.todo : n \in m.plan[g]

Thorough(m, nd, as, gr, cf) ==
  /\ m.pc = "similar" => NewNodes(m) # {}
  /\ m.pc = "delnodes" => m.upd = Targets(m.req)
  /\ m.pc \notin {"idle", "failed"} =>
       \A n \in NodeId : Awaits(m.req, n, nd, as, gr, cf) => Left(m, n, nd, as)

ThoroughInv == \A c \in Client : Thorough(cl[c], node, assign, group, config)

(* A row awaits the request now, or after the step.                        *)
Waits(r, n) == Awaits(r, n, node, assign, group, config)
Still(r, n) == Awaits(r, n, node', assign', group', config')
Thorough1(m) == Thorough(m, node', assign', group', config')

LEMMA OwnThorough ==
  ASSUME TypeInv, TableInv, ThoroughInv, NEW c \in Client
  PROVE  /\ cl[c] \in State /\ cl[c].req \in Request /\ Phased(cl[c])
         /\ Plot(cl[c]) /\ Rests(cl[c], node, assign, group, config)
         /\ Thorough(cl[c], node, assign, group, config)
BY OwnTable DEF ThoroughInv

LEMMA ThoroughStep ==
  ASSUME TypeInv, NEW c \in Client, Alone(c), NEW m, Become(c, m), Thorough1(m)
  PROVE  ThoroughInv'
<1>1. \A d \in Client : cl'[d] = m
  BY OthersStay, AloneIs
<1>2. \A d \in Client : Thorough(cl'[d], node', assign', group', config')
  BY <1>1 DEF Thorough1
<1>3. QED
  BY <1>2, Zenon DEF ThoroughInv, Thorough

(* Rows that await the request after the step did so before it, and were   *)
(* left then.                                                              *)
LEMMA WaitsLeft ==
  ASSUME NEW m, Thorough(m, node, assign, group, config), m.pc \notin {"idle", "failed"}
  PROVE  \A n \in NodeId : Waits(m.req, n) => Left(m, n, node, assign)
BY DEF Thorough, Waits

LEMMA SameWaits ==
  ASSUME UNCHANGED tables PROVE \A r, n : Still(r, n) <=> Waits(r, n)
BY DEF tables, Still, Waits

LEMMA FinishThorough ==
  ASSUME NEW m, NEW pc \in {"ok", "failed"},
         pc = "ok" => \A n \in NodeId : ~Still(m.req, n)
  PROVE  Thorough1(Finish(m, pc))
<1>1. Finish(m, pc).pc = pc /\ Finish(m, pc).req = m.req
  BY DEF Finish, Blank
<1>2. QED
  BY <1>1 DEF Thorough1, Thorough, Still

LEMMA AfterAddThorough ==
  ASSUME NEW m \in State, \A n \in NodeId : Still(m.req, n) => m.some /\ Named(m, node'[n])
  PROVE  Thorough1(AfterAdd(m))
<1>1. CASE m.some
  <2> DEFINE e == [Blank(m.req) EXCEPT !.pc = "exist", !.upd = m.upd]
  <2>1. AfterAdd(m) = e
    BY <1>1 DEF AfterAdd
  <2>2. e.pc = "exist" /\ e.req = m.req /\ e.upd = m.upd
    BY DEF Blank
  <2> HIDE DEF e
  <2>3. Thorough1(e)
    BY <2>2 DEF Thorough1, Thorough, Still, Left, Named
  <2>4. QED
    BY <2>1, <2>3
<1>2. CASE ~m.some
  BY <1>2, FinishThorough DEF AfterAdd
<1>3. QED
  BY <1>1, <1>2

LEMMA ToPointThorough ==
  ASSUME NEW m \in State, \A n \in NodeId : Still(m.req, n) => \E g \in GroupId : n \in m.plan[g]
  PROVE  Thorough1(ToPoint(m))
<1> DEFINE groups == {g \in GroupId : m.plan[g] # {}}
           e == [m EXCEPT !.pc = "point", !.todo = groups]
<1>1. CASE groups = {}
  <2>1. \A n \in NodeId : ~Still(m.req, n)
    BY <1>1
  <2>2. ToPoint(m) = Finish(m, "ok")
    BY <1>1 DEF ToPoint
  <2>3. QED
    BY <2>1, <2>2, FinishThorough
<1>2. CASE groups # {}
  <2>1. ToPoint(m) = e
    BY <1>2 DEF ToPoint
  <2>2. \A n \in NodeId : Still(m.req, n) => \E g \in groups : n \in m.plan[g]
    OBVIOUS
  <2> HIDE DEF groups
  <2>3. e.pc = "point" /\ e.req = m.req /\ e.plan = m.plan /\ e.todo = groups
    BY DEF State
  <2> HIDE DEF e
  <2>4. Thorough1(e)
    BY <2>2, <2>3 DEF Thorough1, Thorough, Still, Left
  <2>5. QED
    BY <2>1, <2>4
<1>3. QED
  BY <1>1, <1>2

(* What Add and Update write is what was asked.                            *)
LEMMA WrittenHasItems ==
  ASSUME NEW r, NEW rec PROVE HasItems(Asked(r), r) /\ HasItems(Patched(rec, r, r), r)
BY DEF HasItems, Asked, Patched

(* A request, when it begins, awaits nothing if it is not to be done.      *)
LEMMA StartThorough ==
  ASSUME NEW r \in Request PROVE Thorough1(Start(r))
<1> DEFINE m == Blank(r)
           names == AllNames(r)
           L(e, pc) == /\ e.pc = pc /\ e.req = r
                       /\ pc = "exist" => e.upd = names
                       /\ pc = "delnodes" => e.upd = Targets(r)
           Right(pc) ==
             \/ pc = "find" /\ r.method = "POST"
             \/ pc \in {"check", "delnodes", "delconfigs"}
             \/ pc = "exist" /\ r.method = "PATCH"
<1>1. m \in State /\ m.req = r
  BY BlankTyped DEF Blank
<1>2. m.pc = "idle"
  BY DEF Blank
<1> HIDE DEF m, names
<1>3. /\ \A pc \in {"check", "delconfigs"} : L([m EXCEPT !.pc = pc], pc)
      /\ L([m EXCEPT !.pc = "find", !.add = names], "find")
      /\ L([m EXCEPT !.pc = "exist", !.upd = names], "exist")
      /\ L([m EXCEPT !.pc = "delnodes", !.upd = Targets(r)], "delnodes")
  BY <1>1 DEF State
<1>4. ASSUME NEW e, NEW pc, L(e, pc), Right(pc) PROVE Thorough1(e)
  <2>1. e.pc = pc /\ e.req = r
    BY <1>4
  <2>2. CASE pc = "find"
    BY <1>4, <2>1, <2>2 DEF Thorough1, Thorough, Awaits, Undone
  <2>3. CASE pc \in {"check", "delnodes", "delconfigs"}
    BY <1>4, <2>1, <2>3 DEF Thorough1, Thorough, Left
  <2>4. CASE pc = "exist"
    <3>1. e.upd = names /\ r.method = "PATCH"
      BY <1>4, <2>4
    <3>2. \A n \in NodeId : Still(r, n) => Left(e, n, node', assign')
      BY <2>1, <2>4, <3>1 DEF Still, Awaits, Undone, Left, Named, names
    <3>3. QED
      BY <2>1, <2>4, <3>2 DEF Thorough1, Thorough, Still
  <2>5. QED
    BY <1>4, <2>2, <2>3, <2>4
<1> HIDE DEF L
<1> DEFINE Nothing == r.method = "GET" \/ (r.method = "DELETE" /\ Targets(r) = {} /\ Empty(r))
<1>5. Thorough1(Finish(m, "failed")) /\ (Nothing => Thorough1(Finish(m, "ok")))
  <2>1. Nothing => \A n \in NodeId : ~Still(m.req, n)
    BY <1>1 DEF Still, Awaits, Undone
  <2>2. QED
    BY <2>1, FinishThorough
<1>6. PICK e : e = Start(r)
  OBVIOUS
<1>7. \/ e = Finish(m, "failed")
      \/ e = Finish(m, "ok") /\ Nothing
      \/ \E pc \in {"find", "check", "exist", "delnodes", "delconfigs"} : L(e, pc) /\ Right(pc)
  <2>1. r.method \in Method
    BY DEF Request
  <2>2. QED
    BY <1>3, <1>6, <2>1 DEF Start, m, names, Method
<1> HIDE DEF Right
<1>8. QED
  BY <1>4, <1>5, <1>6, <1>7

LEMMA BeginThorough ==
  ASSUME TypeInv, NEW c \in Client, Alone(c), Begin(c) PROVE ThoroughInv'
<1>1. PICK r \in May[c] : Become(c, Start(r))
  BY DEF Begin
<1>2. r \in Request
  BY SqlAssumption, RequestAssumption
<1>3. QED
  BY <1>1, <1>2, StartThorough, ThoroughStep

LEMMA FailThorough ==
  ASSUME TypeInv, NEW c \in Client, Alone(c), StatementFails(c) PROVE ThoroughInv'
BY FinishThorough, ThoroughStep DEF StatementFails

(* Set, and Add: what Set found waits for Update, and what it adds is done *)
(* when it is assigned.                                                    *)
LEMMA SetThorough ==
  ASSUME TypeInv, TableInv, ThoroughInv, NoZeroNid, NEW c \in Client, Alone(c),
         CheckSet(c) \/ ListSet(c)
  PROVE  ThoroughInv'
<1> DEFINE m == cl[c]
           names == AllNames(m.req)
<1>1. m \in State /\ names \subseteq Name /\ Plot(m)
  BY OwnThorough, RequestTyped
<1>2. CASE CheckSet(c)
  <2> DEFINE e == [m EXCEPT !.pc = "list", !.add = Missing(names)]
  <2>1. Become(c, e)
    BY <1>2 DEF CheckSet
  <2>2. e.pc = "list"
    BY <1>1 DEF State
  <2> HIDE DEF e
  <2>3. Thorough1(e)
    BY <2>2 DEF Thorough1, Thorough, Left
  <2>4. QED
    BY <2>1, <2>3, ThoroughStep
<1>3. CASE ListSet(c)
  <2> DEFINE found == Rows(names)
             e == [m EXCEPT !.upd = {node[n] : n \in found} \ {ZeroNid}, !.some = found # {}]
             f == [e EXCEPT !.pc = "find"]
  <2>1. m.pc = "list" /\ UNCHANGED tables /\ (Become(c, f) \/ Become(c, AfterAdd(e)))
    BY <1>3 DEF ListSet
  <2>2. \A n \in found : node[n] \in Name /\ node[n] # ZeroNid
    BY <1>1, RowsNamed
  <2>3. m.req.method = "PUT"
    BY <1>1, <2>1 DEF Plot
  <2>4. ASSUME NEW n \in NodeId, Still(m.req, n) PROVE n \in found /\ node'[n] = node[n]
    <3>1. node[n] # Absent /\ (names = {} \/ node[n] \in names)
      BY <2>1, <2>3, <2>4, SameWaits DEF Waits, Awaits, Undone
    <3>2. QED
      BY <2>1, <3>1 DEF Rows, RowMatch, tables
  <2>5. /\ e \in State /\ e.req = m.req /\ e.some = (found # {})
        /\ e.upd = {node[n] : n \in found} \ {ZeroNid}
    <3>1. {node[n] : n \in found} \ {ZeroNid} \subseteq Name /\ (found # {}) \in BOOLEAN
      BY <2>2
    <3> HIDE DEF found
    <3>2. QED
      BY <1>1, <3>1 DEF State
  <2> HIDE DEF e
  <2>6. \A n \in NodeId : Still(m.req, n) => e.some /\ Named(e, node'[n])
    BY <2>2, <2>4, <2>5 DEF Named
  <2>7. f.pc = "find" /\ f.req = m.req /\ f.upd = e.upd /\ f.some = e.some
    BY <2>5 DEF State
  <2> HIDE DEF f
  <2>8. Thorough1(f)
    BY <2>6, <2>7 DEF Thorough1, Thorough, Still, Left, Adding, Named
  <2>9. Thorough1(AfterAdd(e))
    BY <2>5, <2>6, AfterAddThorough
  <2>10. QED
    BY <2>1, <2>8, <2>9, ThoroughStep
<1>4. QED
  BY <1>2, <1>3

(* A handler that is adding nodes has left what Update will come to.       *)
LEMMA AddingLeft ==
  ASSUME NEW m, Thorough(m, node, assign, group, config),
         m.pc \in {"find", "similar", "node", "link"}
           \/ (m.pc \in {"config", "group"} /\ NewNodes(m) # {})
  PROVE  \A n \in NodeId : Waits(m.req, n) => m.some /\ Named(m, node[n])
BY DEF Thorough, Waits, Left, Adding

LEMMA FindThorough ==
  ASSUME TypeInv, TableInv, ThoroughInv, NEW c \in Client, Alone(c), FindNodes(c)
  PROVE  ThoroughInv'
<1> DEFINE m == cl[c]
           names == Missing(AddPart(m.add))
           ids == Fresh(names, NodeId \ UsedNodes)
           new == NewOf(names, ids)
           e == [m EXCEPT !.pc = "similar", !.new = new]
<1>1. m \in State /\ m.add \in SUBSET Name /\ m.pc = "find" /\ UNCHANGED tables
  BY OwnThorough, FindIs DEF State
<1>2. names \in SUBSET Name
  BY <1>1, MissingNames
<1>3. \A n \in NodeId : Still(m.req, n) => m.some /\ Named(m, node'[n])
  BY <1>1, OwnThorough, AddingLeft, SameWaits DEF tables
<1>4. Thorough1(AfterAdd(m)) /\ Thorough1(Finish(m, "failed"))
  BY <1>1, <1>3, AfterAddThorough, FinishThorough
<1>5. ASSUME FindNodes(c), ~Become(c, AfterAdd(m)), ~Become(c, Finish(m, "failed"))
      PROVE  names # {} /\ Enough(names, NodeId \ UsedNodes) /\ Become(c, e)
  BY <1>5 DEF FindNodes, NewOf
<1>6. ASSUME names # {}, Enough(names, NodeId \ UsedNodes) PROVE Thorough1(e)
  <2>1. ids \in [names -> NodeId \ UsedNodes]
    BY <1>6, FreshIs
  <2>2. PICK x : x \in names
    BY <1>6
  <2>3. x # None /\ ids[x] \in NodeId
    BY <1>2, <2>1, <2>2, NameAssumption
  <2> HIDE DEF names, ids
  <2>4. new[ids[x]] # None
    <3>1. new[ids[x]] = CHOOSE y \in names : ids[y] = ids[x]
      BY <2>2, <2>3 DEF NewOf
    <3>2. new[ids[x]] \in names
      BY <2>2, <3>1
    <3>3. QED
      BY <1>2, <3>2, NameAssumption
  <2>5. new \in [NodeId -> Name \union {None}]
    BY <1>2, NewTyped
  <2> HIDE DEF new
  <2>6. /\ e.pc = "similar" /\ e.req = m.req /\ e.new = new /\ e.some = m.some /\ e.upd = m.upd
    BY <1>1 DEF State
  <2> HIDE DEF e
  <2>7. NewNodes(e) # {}
    BY <2>3, <2>4, <2>6 DEF NewNodes
  <2>8. QED
    BY <1>3, <2>6, <2>7 DEF Thorough1, Thorough, Still, Left, Adding, Named
<1>7. QED
  BY <1>4, <1>5, <1>6, ThoroughStep

LEMMA SimilarThorough ==
  ASSUME TypeInv, TableInv, ThoroughInv, NEW c \in Client, Alone(c), FindSimilar(c)
  PROVE  ThoroughInv'
<1> DEFINE m == cl[c]
<1>1. /\ m \in State /\ m.pc = "similar" /\ UNCHANGED tables /\ NewNodes(m) # {}
      /\ Thorough(m, node, assign, group, config)
  BY OwnThorough, SimilarIs DEF Thorough
<1>2. \A n \in NodeId : Still(m.req, n) => m.some /\ Named(m, node'[n])
  BY <1>1, AddingLeft, SameWaits DEF tables
<1>3. ASSUME NEW e, Become(c, e), e.pc \in {"node", "config"}, e.req = m.req, e.new = m.new,
             e.some = m.some, e.upd = m.upd
      PROVE  ThoroughInv'
  <2>1. Adding(e)
    BY <1>1, <1>3 DEF Adding, NewNodes
  <2>2. Thorough1(e)
    BY <1>2, <1>3, <2>1 DEF Thorough1, Thorough, Still, Left, Named
  <2>3. QED
    BY <1>3, <2>2, ThoroughStep
<1>4. Become(c, Finish(m, "failed")) => ThoroughInv'
  BY FinishThorough, ThoroughStep
<1>5. ASSUME NEW g \in GroupId
      PROVE  LET f == PlanFor(m, g) IN
             f \in State /\ f.req = m.req /\ f.new = m.new /\ f.some = m.some /\ f.upd = m.upd
  <2>1. PlanFor(m, g).some = m.some /\ PlanFor(m, g).upd = m.upd
    BY <1>1 DEF PlanFor, State
  <2>2. QED
    BY <1>1, <2>1, PlanForTyped
<1>6. ASSUME NEW g \in GroupId, Become(c, [PlanFor(m, g) EXCEPT !.pc = "node"])
      PROVE  ThoroughInv'
  <2> DEFINE f == PlanFor(m, g)
             e == [f EXCEPT !.pc = "node"]
  <2>1. f \in State /\ f.req = m.req /\ f.new = m.new /\ f.some = m.some /\ f.upd = m.upd
    BY <1>5
  <2>2. Become(c, e)
    BY <1>6
  <2> HIDE DEF f
  <2>3. e.pc = "node" /\ e.req = m.req /\ e.new = m.new /\ e.some = m.some /\ e.upd = m.upd
    BY <2>1 DEF State
  <2> HIDE DEF e
  <2>4. QED
    BY <1>3, <2>2, <2>3
<1>7. ASSUME NEW g \in GroupId,
             Become(c, [PlanFor(m, g) EXCEPT !.pc = "config", !.todo = {g},
                                             !.cfg[g] = Asked(m.req)])
      PROVE  ThoroughInv'
  <2> DEFINE f == PlanFor(m, g)
             e == [f EXCEPT !.pc = "config", !.todo = {g}, !.cfg[g] = Asked(m.req)]
  <2>1. f \in State /\ f.req = m.req /\ f.new = m.new /\ f.some = m.some /\ f.upd = m.upd
    BY <1>5
  <2>2. Become(c, e)
    BY <1>7
  <2> HIDE DEF f
  <2>3. e.pc = "config" /\ e.req = m.req /\ e.new = m.new /\ e.some = m.some /\ e.upd = m.upd
    BY <2>1 DEF State
  <2> HIDE DEF e
  <2>4. QED
    BY <1>3, <2>2, <2>3
<1>8. \A g \in Similar(Asked(m.req)) : g \in GroupId
  BY DEF Similar, TypeInv, TypeOK
<1>9. QED
  BY <1>4, <1>6, <1>7, <1>8, SimilarIs

LEMMA InsertConfigThorough ==
  ASSUME TypeInv, TableInv, ThoroughInv, NEW c \in Client, Alone(c),
         NEW g \in GroupId, InsertConfig(c, g)
  PROVE  ThoroughInv'
<1> DEFINE i == cl[c]
           m == [i EXCEPT !.todo = @ \ {g}]
           f == [m EXCEPT !.pc = "group", !.todo = Made(m)]
<1>1. /\ i \in State /\ i.pc = "config" /\ g \in i.todo /\ Plot(i)
      /\ Rests(i, node, assign, group, config) /\ Thorough(i, node, assign, group, config)
      /\ UNCHANGED <<node, assign, group>>
      /\ Become(c, m) \/ Become(c, f)
      /\ config' = [config EXCEPT ![g] = m.cfg[g]]
  BY OwnThorough DEF InsertConfig
<1>2. /\ m \in State /\ m.pc = "config" /\ m.req = i.req /\ m.new = i.new
      /\ m.some = i.some /\ m.upd = i.upd /\ m.plan = i.plan
  BY <1>1 DEF State
<1>3. \A h \in GroupId : h # g => config'[h] = config[h]
  BY <1>1 DEF TypeInv, TypeOK
<1>4. \A n \in NodeId : assign[n] # g
  BY <1>1 DEF Plot, Rests
<1> HIDE DEF m, i
<1>5. /\ f.pc = "group" /\ f.req = i.req /\ f.new = i.new
      /\ f.some = i.some /\ f.upd = i.upd /\ f.plan = i.plan
  BY <1>2 DEF State
<1> HIDE DEF f
<1>6. \A n \in NodeId : Still(i.req, n) => Waits(i.req, n)
  BY <1>1, <1>3, <1>4 DEF Still, Waits, Awaits, TypeInv, TypeOK
<1>7. \A n \in NodeId : Waits(i.req, n) => Left(i, n, node, assign)
  BY <1>1, WaitsLeft
<1>8. \A e \in {m, f}, n \in NodeId : Left(i, n, node, assign) => Left(e, n, node', assign')
  BY <1>1, <1>2, <1>5 DEF Left, Adding, NewNodes, Named
<1>9. \A e \in {m, f} : Thorough1(e)
  BY <1>2, <1>5, <1>6, <1>7, <1>8 DEF Thorough1, Thorough, Still
<1>10. QED
  BY <1>1, <1>9, ThoroughStep

LEMMA InsertGroupThorough ==
  ASSUME TypeInv, TableInv, ThoroughInv, NEW c \in Client, Alone(c),
         NEW g \in GroupId, InsertGroup(c, g)
  PROVE  ThoroughInv'
<1> DEFINE i == cl[c]
           m == [i EXCEPT !.todo = @ \ {g}]
           f == [m EXCEPT !.pc = "node"]
<1>1. /\ i \in State /\ i.pc = "group" /\ g \in i.todo /\ Plot(i)
      /\ Rests(i, node, assign, group, config) /\ Thorough(i, node, assign, group, config)
      /\ UNCHANGED <<node, assign, config>>
      /\ group' = group \union {g}
  BY OwnThorough DEF InsertGroup
<1>2. /\ m \in State /\ m.pc = "group" /\ m.req = i.req /\ m.new = i.new
      /\ m.some = i.some /\ m.upd = i.upd /\ m.plan = i.plan
  BY <1>1 DEF State
<1>3. Become(c, m) \/ (NewNodes(m) # {} /\ Become(c, f)) \/ (NewNodes(m) = {} /\ Become(c, ToPoint(m)))
  BY DEF InsertGroup
<1>4. \A n \in NodeId : assign[n] # g
  BY <1>1 DEF Plot, Rests
<1> HIDE DEF m, i
<1>5. /\ f.pc = "node" /\ f.req = i.req /\ f.new = i.new /\ f.some = i.some /\ f.upd = i.upd
  BY <1>2 DEF State
<1> HIDE DEF f
<1>6. \A n \in NodeId : Still(i.req, n) => Left(i, n, node, assign)
  BY <1>1, <1>4, WaitsLeft DEF Still, Waits, Awaits
<1>7. NewNodes(m) = NewNodes(i) /\ NewNodes(f) = NewNodes(i)
  BY <1>2, <1>5 DEF NewNodes
<1>8. \A n \in NodeId : Left(i, n, node, assign) =>
        /\ Left(m, n, node', assign')
        /\ NewNodes(i) # {} => Left(f, n, node', assign')
        /\ NewNodes(i) = {} => \E h \in GroupId : n \in i.plan[h]
  BY <1>1, <1>2, <1>5, <1>7 DEF Left, Adding, Named
<1>9. Thorough1(m) /\ (NewNodes(i) # {} => Thorough1(f))
  BY <1>2, <1>5, <1>6, <1>8 DEF Thorough1, Thorough, Still
<1>10. NewNodes(i) = {} => Thorough1(ToPoint(m))
  BY <1>2, <1>6, <1>8, ToPointThorough
<1>11. QED
  BY <1>3, <1>7, <1>9, <1>10, ThoroughStep

LEMMA InsertNodeThorough ==
  ASSUME TypeInv, TableInv, ThoroughInv, NEW c \in Client, Alone(c),
         NEW n \in NodeId, InsertNode(c, n)
  PROVE  ThoroughInv'
<1> DEFINE i == cl[c]
           m == [i EXCEPT !.held = @ \ {n}]
           f == [m EXCEPT !.pc = "link", !.held = NewNodes(m)]
<1>1. /\ i \in State /\ i.pc = "node" /\ n \in i.held /\ Phased(i)
      /\ Rests(i, node, assign, group, config) /\ Thorough(i, node, assign, group, config)
      /\ UNCHANGED <<assign, group, config>>
      /\ Become(c, m) \/ Become(c, f)
      /\ node' = [node EXCEPT ![n] = m.new[n]]
  BY OwnThorough DEF InsertNode
<1>2. m \in State /\ m.pc = "node" /\ m.req = i.req /\ m.some = i.some /\ m.upd = i.upd
  BY <1>1 DEF State
<1>3. f.pc = "link" /\ f.req = i.req /\ f.some = i.some /\ f.upd = i.upd
  BY <1>2 DEF State
<1>4. assign[n] = Absent
  BY <1>1 DEF Phased, Rests, Unlinked
<1> HIDE DEF m, i, f
<1>5. \A k \in NodeId : Still(i.req, k) => Waits(i.req, k) /\ node'[k] = node[k]
  <2>1. ~Still(i.req, n)
    BY <1>1, <1>4, SqlAssumption DEF Still, Awaits, TypeInv, TypeOK
  <2>2. \A k \in NodeId : k # n => node'[k] = node[k]
    BY <1>1 DEF TypeInv, TypeOK
  <2>3. QED
    BY <1>1, <2>1, <2>2 DEF Still, Waits, Awaits
<1>6. \A k \in NodeId : Still(i.req, k) => i.some /\ Named(i, node'[k])
  BY <1>1, <1>5, AddingLeft
<1>7. \A e \in {m, f} : Thorough1(e)
  BY <1>2, <1>3, <1>6 DEF Thorough1, Thorough, Still, Left, Adding, Named
<1>8. QED
  BY <1>1, <1>7, ThoroughStep

LEMMA InsertLinkThorough ==
  ASSUME TypeInv, TableInv, ThoroughInv, NEW c \in Client, Alone(c),
         NEW n \in NodeId, InsertLink(c, n)
  PROVE  ThoroughInv'
<1> DEFINE i == cl[c]
           m == [i EXCEPT !.held = @ \ {n}]
<1>1. /\ i \in State /\ i.pc = "link" /\ n \in i.held /\ Plot(i)
      /\ Rests(i, node, assign, group, config) /\ Thorough(i, node, assign, group, config)
      /\ UNCHANGED <<node, group, config>>
      /\ Become(c, m) \/ Become(c, AfterAdd(m))
  BY OwnThorough DEF InsertLink
<1>2. /\ m \in State /\ m.pc = "link" /\ m.req = i.req /\ m.some = i.some /\ m.upd = i.upd
      /\ m.plan = i.plan
  BY <1>1 DEF State
<1>3. PICK g \in GroupId : n \in i.plan[g] /\ assign' = [assign EXCEPT ![n] = g]
  BY <1>2 DEF InsertLink
<1>4. config[g] = Asked(i.req) /\ n \in NewNodes(i) /\ i.req.method \in {"POST", "PUT"}
  BY <1>1, <1>3 DEF Plot, Rests, Done
<1> HIDE DEF m, i
<1>5. \A k \in NodeId : assign'[k] = IF k = n THEN g ELSE assign[k]
  BY <1>3 DEF TypeInv, TypeOK
<1>6. ~Still(i.req, n)
  BY <1>1, <1>4, <1>5, WrittenHasItems DEF Still, Awaits, Undone
<1>7. \A k \in NodeId : Still(i.req, k) => Waits(i.req, k)
  BY <1>1, <1>5, <1>6 DEF Still, Waits, Awaits
<1>8. \A k \in NodeId : Still(i.req, k) => i.some /\ Named(i, node'[k])
  BY <1>1, <1>7, AddingLeft
<1>9. Thorough1(m)
  BY <1>2, <1>8 DEF Thorough1, Thorough, Still, Left, Adding, Named
<1>10. Thorough1(AfterAdd(m))
  BY <1>2, <1>8, AfterAddThorough DEF Named
<1>11. QED
  BY <1>1, <1>9, <1>10, ThoroughStep

(* Update: the rows that it will read, has read, and has planned to move.  *)
LEMMA CheckUpdateThorough ==
  ASSUME TypeInv, TableInv, ThoroughInv, NEW c \in Client, Alone(c), CheckUpdate(c)
  PROVE  ThoroughInv'
<1> DEFINE m == cl[c]
           e == [m EXCEPT !.pc = "old"]
<1>1. /\ m \in State /\ m.pc = "exist" /\ UNCHANGED tables
      /\ Thorough(m, node, assign, group, config) /\ Phased(m)
      /\ Become(c, e) \/ Become(c, Finish(m, "failed"))
  BY OwnThorough DEF CheckUpdate
<1>2. e.pc = "old" /\ e.req = m.req /\ e.upd = m.upd
  BY <1>1 DEF State
<1> HIDE DEF e
<1>3. \A n \in NodeId : Still(m.req, n) => Named(m, node'[n])
  BY <1>1, WaitsLeft, SameWaits DEF Left, tables
<1>4. Thorough1(e)
  BY <1>2, <1>3 DEF Thorough1, Thorough, Still, Left, Named
<1>5. QED
  BY <1>1, <1>4, FinishThorough, ThoroughStep

LEMMA ReadThorough ==
  ASSUME TypeInv, TableInv, ThoroughInv, NEW c \in Client, Alone(c), ReadOld(c) \/ ReadGroups(c)
  PROVE  ThoroughInv'
<1> DEFINE m == cl[c]
<1>1. /\ m \in State /\ Phased(m) /\ Thorough(m, node, assign, group, config) /\ UNCHANGED tables
  BY OwnThorough DEF ReadOld, ReadGroups
<1>2. CASE ReadOld(c)
  <2> DEFINE old == {n \in Rows(m.upd) : Joined(n)}
             e == [m EXCEPT !.pc = "groups", !.held = old]
  <2>1. m.pc = "old" /\ (Become(c, e) \/ Become(c, Finish(m, "failed")))
    BY <1>2 DEF ReadOld
  <2>2. ASSUME NEW n \in NodeId, Still(m.req, n) PROVE n \in old
    <3>1. Waits(m.req, n) /\ Left(m, n, node, assign)
      BY <1>1, <2>1, <2>2, SameWaits, WaitsLeft
    <3>2. Named(m, node[n])
      BY <2>1, <3>1 DEF Left
    <3>3. QED
      BY <3>1, <3>2 DEF Named, Waits, Awaits, Rows, RowMatch, Joined
  <2> HIDE DEF old
  <2>3. e.pc = "groups" /\ e.req = m.req /\ e.held = old
    BY <1>1 DEF State
  <2> HIDE DEF e
  <2>4. Thorough1(e)
    BY <2>2, <2>3 DEF Thorough1, Thorough, Still, Left
  <2>5. QED
    BY <2>1, <2>4, FinishThorough, ThoroughStep
<1>3. CASE ReadGroups(c)
  <2> DEFINE todo == {assign[n] : n \in m.held} \intersect group
             e == [m EXCEPT !.pc = "members", !.todo = todo]
  <2>1. m.pc = "groups" /\ Become(c, e)
    BY <1>3 DEF ReadGroups
  <2>2. ASSUME NEW n \in NodeId, Still(m.req, n) PROVE n \in m.held /\ assign'[n] \in todo
    <3>1. Waits(m.req, n) /\ Left(m, n, node, assign)
      BY <1>1, <2>1, <2>2, SameWaits, WaitsLeft
    <3>2. n \in m.held
      BY <1>1, <2>1, <3>1 DEF Left, Adding, Phased, Updating
    <3>3. QED
      BY <1>1, <3>1, <3>2 DEF Waits, Awaits, tables
  <2> HIDE DEF todo
  <2>3. e.pc = "members" /\ e.req = m.req /\ e.held = m.held /\ e.todo = todo
    BY <1>1 DEF State
  <2> HIDE DEF e
  <2>4. Thorough1(e)
    BY <2>2, <2>3 DEF Thorough1, Thorough, Still, Left
  <2>5. QED
    BY <2>1, <2>4, ThoroughStep
<1>4. QED
  BY <1>2, <1>3

LEMMA MembersThorough ==
  ASSUME TypeInv, TableInv, ThoroughInv, NEW c \in Client, Alone(c), ReadMembers(c)
  PROVE  ThoroughInv'
<1> DEFINE m == cl[c]
           joined == {g \in m.todo \intersect group : config[g] # Absent /\ Members(g) # {}}
           plan == [g \in GroupId |-> IF g \in joined THEN Members(g) ELSE {}]
           cfg == [g \in GroupId |-> IF g \in joined THEN config[g] ELSE Absent]
           e == [m EXCEPT !.pc = "reuse", !.todo = {}, !.plan = plan, !.cfg = cfg]
<1>1. /\ m \in State /\ Phased(m) /\ m.pc = "members" /\ Become(c, e) /\ UNCHANGED tables
      /\ Thorough(m, node, assign, group, config)
  BY OwnThorough DEF ReadMembers
<1>2. ASSUME NEW n \in NodeId, Still(m.req, n)
      PROVE  n \in m.held /\ \E g \in GroupId : n \in plan[g]
  <2>1. Waits(m.req, n) /\ Left(m, n, node, assign)
    BY <1>1, <1>2, SameWaits, WaitsLeft
  <2>2. n \in m.held /\ assign[n] \in m.todo
    BY <1>1, <2>1 DEF Left, Adding, Phased, Updating
  <2>3. n \in Members(assign[n]) /\ assign[n] \in joined
    BY <2>1, <2>2 DEF Waits, Awaits, Members
  <2>4. assign[n] \in GroupId
    BY <2>3 DEF TypeInv, TypeOK
  <2>5. plan[assign[n]] = Members(assign[n])
    BY <2>3, <2>4
  <2> HIDE DEF plan
  <2>6. QED
    BY <2>2, <2>3, <2>4, <2>5
<1> HIDE DEF plan, cfg, joined
<1>3. e.pc = "reuse" /\ e.req = m.req /\ e.held = m.held /\ e.plan = plan
  BY <1>1 DEF State
<1> HIDE DEF e
<1>4. Thorough1(e)
  BY <1>2, <1>3 DEF Thorough1, Thorough, Still, Left
<1>5. QED
  BY <1>1, <1>4, ThoroughStep

LEMMA PlanThorough ==
  ASSUME TypeInv, TableInv, ThoroughInv, NEW c \in Client, Alone(c), PlanUpdate(c)
  PROVE  ThoroughInv'
<1> DEFINE m == cl[c]
<1>1. /\ m \in State /\ Phased(m) /\ m.pc = "reuse" /\ UNCHANGED tables
      /\ Thorough(m, node, assign, group, config) /\ Enough(Unmet(m), GroupId \ UsedGroups)
  BY OwnThorough, PlanIs
<1>2. PICK same : /\ \A g \in Old(m) \ Unmet(m) : same[Due(m, g)] \in Similar(Due(m, g))
                  /\ Become(c, Planned(m, same))
  BY PlanIs
<1> DEFINE e == Planned(m, same)
<1>3. /\ e.pc = "purge" /\ e.req = m.req
      /\ \A g \in GroupId : e.plan[g] = m.plan[g] \intersect m.held
  BY <1>1, <1>2, PlannedFields DEF TypeInv, TypeOK
<1>4. Become(c, e)
  BY <1>2
<1> HIDE DEF e
<1>5. ASSUME NEW n \in NodeId, Still(m.req, n) PROVE \E g \in GroupId : n \in e.plan[g]
  <2>1. Left(m, n, node, assign)
    BY <1>1, <1>5, SameWaits, WaitsLeft
  <2>2. n \in m.held /\ \E g \in GroupId : n \in m.plan[g]
    BY <1>1, <2>1 DEF Left, Adding, Phased, Updating
  <2>3. QED
    BY <1>3, <2>2
<1>6. Thorough1(e)
  BY <1>3, <1>5 DEF Thorough1, Thorough, Still, Left
<1>7. QED
  BY <1>4, <1>6, ThoroughStep

LEMMA PurgeThorough ==
  ASSUME TypeInv, TableInv, ThoroughInv, NEW c \in Client, Alone(c), Purge(c)
  PROVE  ThoroughInv'
<1> DEFINE i == cl[c]
           m == [i EXCEPT !.drop = {}]
           e == [m EXCEPT !.pc = "config", !.todo = Made(m)]
<1>1. /\ i \in State /\ i.pc = "purge" /\ Phased(i) /\ i.drop = {}
      /\ Thorough(i, node, assign, group, config)
  BY OwnThorough DEF Purge, Plot
<1>2. UNCHANGED tables
  BY <1>1 DEF Purge, TypeInv, TypeOK, tables
<1>3. Become(c, e) \/ Become(c, ToPoint(m))
  BY Zenon DEF Purge
<1>4. m \in State /\ m.req = i.req /\ m.new = i.new /\ m.plan = i.plan
  BY <1>1 DEF State
<1> HIDE DEF m, i
<1>5. e.pc = "config" /\ e.req = i.req /\ e.new = i.new /\ e.plan = i.plan
  BY <1>4 DEF State
<1> HIDE DEF e
<1>6. NewNodes(e) = {} /\ NewNodes(i) = {}
  BY <1>1, <1>5 DEF NewNodes, Phased, Updating
<1>7. \A n \in NodeId : Still(i.req, n) => \E g \in GroupId : n \in i.plan[g]
  BY <1>1, <1>2, <1>6, SameWaits, WaitsLeft DEF Left, Adding
<1>8. Thorough1(e)
  BY <1>5, <1>6, <1>7 DEF Thorough1, Thorough, Still, Left
<1>9. Thorough1(ToPoint(m))
  BY <1>4, <1>7, ToPointThorough
<1>10. QED
  BY <1>3, <1>8, <1>9, ThoroughStep DEF i

LEMMA PointThorough ==
  ASSUME TypeInv, TableInv, ThoroughInv, NEW c \in Client, Alone(c),
         NEW g \in GroupId, Point(c, g)
  PROVE  ThoroughInv'
<1> DEFINE i == cl[c]
           m == [i EXCEPT !.todo = @ \ {g}]
<1>1. /\ i \in State /\ i.pc = "point" /\ g \in i.todo /\ Plot(i)
      /\ Rests(i, node, assign, group, config) /\ Thorough(i, node, assign, group, config)
      /\ UNCHANGED <<node, group, config>>
      /\ Become(c, m) \/ (m.todo = {} /\ Become(c, Finish(m, "ok")))
  BY OwnThorough DEF Point
<1>2. /\ m.pc = "point" /\ m.todo = i.todo \ {g} /\ m.req = i.req /\ m.plan = i.plan
      /\ m.to = i.to
  BY <1>1 DEF State
<1>3. assign' = [n \in NodeId |->
                  IF n \in i.plan[g] /\ assign[n] # Absent THEN i.to[g] ELSE assign[n]]
  BY <1>2 DEF Point
<1> HIDE DEF m, i
<1>4. /\ \A n \in i.plan[g] : assign[n] = g
      /\ config[i.to[g]] = Patched(config[g], i.req, i.req)
  BY <1>1 DEF Rests, From, Onto
<1>5. \A n \in NodeId : assign'[n] = IF n \in i.plan[g] THEN i.to[g] ELSE assign[n]
  BY <1>3, <1>4, SqlAssumption
<1>6. i.req.method \in {"PUT", "PATCH"}
  BY <1>1, UpdatePlot
<1>7. \A n \in i.plan[g] \intersect NodeId : ~Still(i.req, n)
  BY <1>1, <1>4, <1>5, <1>6, WrittenHasItems DEF Still, Awaits, Undone
<1>8. ASSUME NEW n \in NodeId, Still(i.req, n) PROVE \E h \in m.todo : n \in m.plan[h]
  <2>1. n \notin i.plan[g] /\ assign'[n] = assign[n]
    BY <1>5, <1>7, <1>8
  <2>2. Waits(i.req, n)
    BY <1>1, <1>8, <2>1 DEF Still, Waits, Awaits
  <2>3. QED
    BY <1>1, <1>2, <2>1, <2>2, WaitsLeft DEF Left, Adding
<1>9. Thorough1(m)
  BY <1>2, <1>8 DEF Thorough1, Thorough, Still, Left
<1>10. m.todo = {} => Thorough1(Finish(m, "ok"))
  BY <1>2, <1>8, FinishThorough
<1>11. QED
  BY <1>1, <1>9, <1>10, ThoroughStep

(* Delete: no row is left to wait after the statement that deletes the     *)
(* nodes or the configs, and the others only take rows away.               *)
LEMMA FewerWaits ==
  ASSUME TypeInv, NEW c \in Client, Alone(c), NEW e, Become(c, e),
         e.pc \notin {"similar", "delnodes"},
         \A n \in NodeId : ~Waits(e.req, n), \A n \in NodeId : Still(e.req, n) => Waits(e.req, n)
  PROVE  ThoroughInv'
<1>1. Thorough1(e)
  BY DEF Thorough1, Thorough, Still
<1>2. QED
  BY <1>1, ThoroughStep

LEMMA DeleteNodesThorough ==
  ASSUME TypeInv, TableInv, ThoroughInv, NEW c \in Client, Alone(c), DeleteNodes(c)
  PROVE  ThoroughInv'
<1> DEFINE m == cl[c]
           gone == Rows(m.upd)
           e == [m EXCEPT !.pc = "unlink", !.held = gone]
<1>1. /\ m \in State /\ m.pc = "delnodes" /\ Plot(m)
      /\ Thorough(m, node, assign, group, config)
      /\ UNCHANGED <<assign, group, config>>
      /\ node' = [n \in NodeId |-> IF n \in gone THEN Absent ELSE node[n]]
      /\ Become(c, e) \/ Become(c, Finish(m, "failed"))
  BY OwnThorough DEF DeleteNodes
<1>2. m.req.method = "DELETE" /\ m.upd = Targets(m.req) /\ m.upd # {}
  BY <1>1 DEF Plot, Thorough
<1>3. \A n \in NodeId : n \in gone <=> node[n] # Absent /\ RowMatch(node[n], m.upd)
  BY <1>2 DEF Rows
<1> HIDE DEF gone
<1>4. e.pc = "unlink" /\ e.req = m.req
  BY <1>1 DEF State
<1> HIDE DEF e
<1>5. ASSUME NEW n \in NodeId PROVE ~Still(m.req, n)
  <2>1. CASE n \in gone
    BY <1>1, <2>1 DEF Still, Awaits
  <2>2. CASE n \notin gone
    <3>1. node'[n] = node[n] /\ (node[n] = Absent \/ node[n] \notin m.upd)
      BY <1>1, <1>3, <2>2 DEF RowMatch
    <3>2. QED
      BY <1>2, <3>1 DEF Still, Awaits, Undone
  <2>3. QED
    BY <2>1, <2>2
<1>6. Thorough1(e)
  BY <1>4, <1>5 DEF Thorough1, Thorough, Still
<1>7. QED
  BY <1>1, <1>6, FinishThorough, ThoroughStep

LEMMA DeleteConfigsThorough ==
  ASSUME TypeInv, TableInv, ThoroughInv, NEW c \in Client, Alone(c), DeleteConfigs(c)
  PROVE  ThoroughInv'
<1> DEFINE m == cl[c]
           gone == {g \in GroupId : config[g] # Absent /\ HasItems(config[g], m.req)}
           e == [m EXCEPT !.pc = "delgroups", !.drop = gone]
<1>1. /\ m \in State /\ m.req \in Request /\ m.pc = "delconfigs" /\ Plot(m)
      /\ UNCHANGED <<node, assign, group>> /\ Become(c, e)
      /\ config' = [g \in GroupId |-> IF g \in gone THEN Absent ELSE config[g]]
  BY OwnThorough DEF DeleteConfigs
<1>2. m.req.method = "DELETE" /\ Targets(m.req) = {}
  BY <1>1, RequestTyped DEF Plot
<1>3. \A g \in GroupId : g \in gone <=> config[g] # Absent /\ HasItems(config[g], m.req)
  OBVIOUS
<1> HIDE DEF gone
<1>4. e.pc = "delgroups" /\ e.req = m.req
  BY <1>1 DEF State
<1> HIDE DEF e
<1>5. ASSUME NEW n \in NodeId PROVE ~Still(m.req, n)
  <2> SUFFICES ASSUME assign[n] \in group, config'[assign[n]] # Absent PROVE ~Still(m.req, n)
    BY <1>1 DEF Still, Awaits
  <2>1. assign[n] \in GroupId
    BY DEF TypeInv, TypeOK
  <2>2. config'[assign[n]] = config[assign[n]] /\ ~HasItems(config[assign[n]], m.req)
    BY <1>1, <1>3, <2>1
  <2>3. QED
    BY <1>1, <1>2, <2>2 DEF Still, Awaits, Undone
<1>6. Thorough1(e)
  BY <1>4, <1>5 DEF Thorough1, Thorough, Still
<1>7. QED
  BY <1>1, <1>6, ThoroughStep

LEMMA DropThorough ==
  ASSUME TypeInv, TableInv, ThoroughInv, NEW c \in Client, Alone(c),
         \/ DeleteLinks(c) \/ DropGroups(c) \/ DropConfigs(c)
         \/ \E g \in GroupId : CountMembers(c, g)
         \/ DeleteGroups(c) \/ DeleteGroupLinks(c) \/ DeleteMembers(c)
  PROVE  ThoroughInv'
<1> DEFINE m == cl[c]
           Shrunk == /\ \A n \in NodeId : node'[n] \in {Absent, node[n]}
                     /\ \A n \in NodeId : assign'[n] \in {Absent, assign[n]}
                     /\ group' \subseteq group
                     /\ \A g \in GroupId : config'[g] \in {Absent, config[g]}
           Goes(e) == /\ Become(c, e) /\ e.req = m.req
                      /\ e.pc \in {"ok", "failed", "count", "dropgroups", "dropconfigs", "dellinks",
                                   "delmembers"}
<1>1. m \in State /\ Thorough(m, node, assign, group, config)
  BY OwnThorough
<1>2. m.pc \in {"unlink", "count", "dropgroups", "dropconfigs", "delgroups", "dellinks", "delmembers"}
  BY DEF DeleteLinks, DropGroups, DropConfigs, CountMembers, DeleteGroups, DeleteGroupLinks,
         DeleteMembers
<1>3. \A n \in NodeId : ~Waits(m.req, n)
  BY <1>1, <1>2 DEF Thorough, Waits, Left, Adding
<1>4. \A i, pc : Finish(i, pc).pc = pc /\ Finish(i, pc).req = i.req
  BY DEF Finish, Blank
<1>5. Shrunk /\ \E e : Goes(e)
  <2>1. CASE DeleteLinks(c)
    <3> DEFINE e == [m EXCEPT !.pc = "count", !.todo = {assign[n] : n \in m.held} \ {Absent}]
    <3>1. Shrunk /\ (Become(c, e) \/ Become(c, Finish(m, "ok")))
      BY <2>1 DEF DeleteLinks
    <3>2. e.pc = "count" /\ e.req = m.req
      BY <1>1 DEF State
    <3> HIDE DEF e, m
    <3>3. QED
      BY <1>4, <3>1, <3>2
  <2>2. CASE DropGroups(c)
    <3> DEFINE e == [m EXCEPT !.pc = "dropconfigs", !.drop = m.drop \intersect group]
    <3>1. Shrunk /\ (Become(c, e) \/ Become(c, Finish(m, "failed")))
      BY <2>2 DEF DropGroups
    <3>2. e.pc = "dropconfigs" /\ e.req = m.req
      BY <1>1 DEF State
    <3> HIDE DEF e, m
    <3>3. QED
      BY <1>4, <3>1, <3>2
  <2>3. CASE DropConfigs(c) \/ DeleteMembers(c)
    <3>1. Shrunk /\ Become(c, Finish(m, "ok"))
      BY <2>3 DEF DropConfigs, DeleteMembers
    <3> HIDE DEF m
    <3>2. QED
      BY <1>4, <3>1
  <2>4. ASSUME NEW g \in GroupId, CountMembers(c, g) PROVE Shrunk /\ \E e : Goes(e)
    <3> DEFINE i == [m EXCEPT !.todo = @ \ {g},
                              !.drop = IF Members(g) = {} THEN @ \union {g} ELSE @]
               e == [i EXCEPT !.pc = "dropgroups"]
    <3>1. /\ Shrunk /\ m.pc = "count"
          /\ Become(c, i) \/ Become(c, Finish(i, "ok")) \/ Become(c, e)
      BY <2>4 DEF CountMembers, tables
    <3>2. i.pc = m.pc /\ i.req = m.req /\ e.pc = "dropgroups" /\ e.req = m.req
      BY <1>1 DEF State
    <3> HIDE DEF e, i, m
    <3>3. QED
      BY <1>4, <3>1, <3>2
  <2>5. CASE DeleteGroups(c)
    <3> DEFINE e == [m EXCEPT !.pc = "dellinks", !.drop = @ \intersect group]
    <3>1. Shrunk /\ Become(c, e)
      BY <2>5 DEF DeleteGroups
    <3>2. e.pc = "dellinks" /\ e.req = m.req
      BY <1>1 DEF State
    <3> HIDE DEF e, m
    <3>3. QED
      BY <3>1, <3>2
  <2>6. CASE DeleteGroupLinks(c)
    <3> DEFINE e == [m EXCEPT !.pc = "delmembers", !.drop = {},
                              !.held = {n \in NodeId : assign[n] \in m.drop}]
    <3>1. Shrunk /\ Become(c, e)
      BY <2>6 DEF DeleteGroupLinks
    <3>2. e.pc = "delmembers" /\ e.req = m.req
      BY <1>1 DEF State
    <3> HIDE DEF e, m
    <3>3. QED
      BY <3>1, <3>2
  <2>7. QED
    BY <2>1, <2>2, <2>3, <2>4, <2>5, <2>6
<1>6. PICK e : Goes(e)
  BY <1>5
<1>7. ASSUME NEW n \in NodeId, Still(m.req, n) PROVE Waits(m.req, n)
  <2>1. node'[n] = node[n] /\ assign'[n] \in group
    BY <1>5, <1>7 DEF Still, Awaits
  <2>2. assign[n] \in GroupId /\ assign'[n] = assign[n]
    BY <1>5, <2>1, SqlAssumption DEF TypeInv, TypeOK
  <2>3. config'[assign[n]] = config[assign[n]]
    BY <1>5, <1>7, <2>2 DEF Still, Awaits
  <2>4. QED
    BY <1>7, <2>1, <2>2, <2>3 DEF Still, Waits, Awaits
<1>8. QED
  BY <1>3, <1>6, <1>7, FewerWaits

LEMMA StepThorough ==
  ASSUME NoZeroNid, NEW c \in Client, Alone(c), TypeInv, TableInv, ThoroughInv, [Next]_vars
  PROVE  ThoroughInv'
<1>1. \A d \in Client : d = c
  BY AloneIs
<1>2. CASE UNCHANGED vars
  <2>1. \A d \in Client : Thorough(cl'[d], node', assign', group', config')
    BY <1>2 DEF vars, tables, ThoroughInv
  <2>2. QED
    BY <2>1, Zenon DEF ThoroughInv, Thorough
<1>3. CASE Begin(c) \/ StatementFails(c) \/ CheckSet(c) \/ ListSet(c)
  BY <1>3, BeginThorough, FailThorough, SetThorough
<1>4. CASE AddStep(c)
  BY <1>4, FindThorough, SimilarThorough, InsertConfigThorough, InsertGroupThorough,
     InsertNodeThorough, InsertLinkThorough DEF AddStep
<1>5. CASE UpdateStep(c)
  BY <1>5, CheckUpdateThorough, ReadThorough, MembersThorough, PlanThorough, PurgeThorough,
     PointThorough DEF UpdateStep
<1>6. CASE DeleteStep(c)
  BY <1>6, DeleteNodesThorough, DeleteConfigsThorough, DropThorough DEF DeleteStep
<1>7. QED
  BY <1>1, <1>2, <1>3, <1>4, <1>5, <1>6 DEF Next

-----------------------------------------------------------------------------
(* What the lone client's request is owed: a row by each name, or the name *)
(* is among those that it has still to come to; and, of a POST, a row with *)
(* what it gives once it is done.                                          *)
HasRow(x, nd) == \E n \in NodeId : nd[n] = x

Coming(m, x) ==
  \/ m.pc = "check"
  \/ m.pc \in {"list", "find"} /\ x \in m.add
  \/ \E n \in Waiting(m) : m.new[n] = x
  \/ m.pc = "exist" /\ x \in m.upd

Deleting == {"delnodes", "unlink", "count", "dropgroups", "dropconfigs",
             "delconfigs", "delgroups", "dellinks", "delmembers"}

PostGoes(m) ==
  /\ m.req.hosts \subseteq Xname
  /\ \/ m.pc = "find" /\ m.add = AllNames(m.req)
     \/ /\ m.pc # "find" /\ Adding(m) /\ NewNodes(m) # {}
        /\ \A n \in NewNodes(m) : m.new[n] \in Owed(m.req)

Posted(r, nd, as, gr, cf) ==
  \E n \in NodeId : nd[n] \in Owed(r) /\ as[n] \in gr /\ cf[as[n]] = Asked(r)

Granted(m, nd, as, gr, cf) ==
  /\ \A n \in Waiting(m) : nd[n] = Absent
  /\ m.pc \in Deleting => m.req.method = "DELETE"
  /\ m.req.method = "POST" /\ m.pc \notin Done => PostGoes(m)
  /\ m.req.method = "POST" /\ m.pc = "ok" => Posted(m.req, nd, as, gr, cf)
  /\ m.pc \notin {"idle", "failed"} => \A x \in Owed(m.req) : HasRow(x, nd) \/ Coming(m, x)

GrantedInv == \A c \in Client : Granted(cl[c], node, assign, group, config)
Granted1(m) == Granted(m, node', assign', group', config')
Posted1(r) == Posted(r, node', assign', group', config')

LEMMA OwedIs ==
  ASSUME NEW r \in Request
  PROVE  /\ Owed(r) \subseteq AllNames(r) /\ Owed(r) \subseteq Name
         /\ r.method \notin {"POST", "PUT", "PATCH"} => Owed(r) = {}
         /\ AllNames(r) \intersect Host = r.hosts
BY NameAssumption DEF Owed, AddPart, AllNames, Request, Name, Alias

LEMMA OwnGranted ==
  ASSUME TypeInv, TableInv, GrantedInv, NEW c \in Client
  PROVE  /\ cl[c] \in State /\ cl[c].req \in Request /\ Phased(cl[c])
         /\ Plot(cl[c]) /\ Rests(cl[c], node, assign, group, config)
         /\ Granted(cl[c], node, assign, group, config)
BY OwnTable DEF GrantedInv

LEMMA GrantedStep ==
  ASSUME TypeInv, NEW c \in Client, Alone(c), NEW m, Become(c, m), Granted1(m)
  PROVE  GrantedInv'
<1>1. \A d \in Client : cl'[d] = m
  BY OthersStay, AloneIs
<1>2. \A d \in Client : Granted(cl'[d], node', assign', group', config')
  BY <1>1 DEF Granted1
<1>3. QED
  BY <1>2, Zenon DEF GrantedInv, Granted

(* Nothing is waiting to be inserted when a request ends.                  *)
LEMMA FinishGranted ==
  ASSUME NEW m
  PROVE  /\ Granted1(Finish(m, "failed"))
         /\ (\A x \in Owed(m.req) : HasRow(x, node')) /\ (m.req.method = "POST" => Posted1(m.req))
              => Granted1(Finish(m, "ok"))
<1>1. \A pc : Finish(m, pc).pc = pc /\ Finish(m, pc).req = m.req
  BY DEF Finish, Blank
<1>2. \A pc \in {"ok", "failed"} : Waiting(Finish(m, pc)) = {}
  BY <1>1 DEF Waiting
<1>3. QED
  BY <1>1, <1>2 DEF Granted1, Granted, Posted1, Deleting, Done

LEMMA AfterAddGranted ==
  ASSUME NEW m \in State, \A x \in Owed(m.req) : HasRow(x, node'),
         m.req.method = "POST" => ~m.some /\ Posted1(m.req)
  PROVE  Granted1(AfterAdd(m))
<1>1. CASE m.some
  <2> DEFINE e == [Blank(m.req) EXCEPT !.pc = "exist", !.upd = m.upd]
  <2>1. AfterAdd(m) = e
    BY <1>1 DEF AfterAdd
  <2>2. e.pc = "exist" /\ e.req = m.req
    BY DEF Blank
  <2> HIDE DEF e
  <2>3. Granted1(e)
    BY <1>1, <2>2 DEF Granted1, Granted, Waiting, Deleting
  <2>4. QED
    BY <2>1, <2>3
<1>2. CASE ~m.some
  BY <1>2, FinishGranted DEF AfterAdd
<1>3. QED
  BY <1>1, <1>2

(* Update adds nothing: when it has found its nodes, they are there.       *)
Later(m) ==
  \/ m.pc \in {"old", "groups", "members", "reuse", "purge", "point"}
  \/ m.pc \in {"config", "group"} /\ NewNodes(m) = {}

LEMMA LaterIs ==
  ASSUME NEW m, Granted(m, node, assign, group, config), Later(m), UNCHANGED node
  PROVE  m.req.method # "POST" /\ \A x \in Owed(m.req) : HasRow(x, node')
<1>1. m.pc \notin Done /\ ~(Adding(m) \/ m.pc = "find") /\ m.pc \notin {"idle", "failed"}
  BY DEF Later, Adding, Done
<1>2. m.req.method # "POST"
  BY <1>1 DEF Granted, PostGoes
<1>3. \A x : ~Coming(m, x)
  BY DEF Coming, Later, Waiting
<1>4. QED
  BY <1>1, <1>2, <1>3 DEF Granted, HasRow

LEMMA LaterGranted ==
  ASSUME NEW e, Later(e), e.req.method # "POST", \A x \in Owed(e.req) : HasRow(x, node')
  PROVE  Granted1(e)
<1>1. Waiting(e) = {}
  BY DEF Later, Waiting
<1>2. e.pc \notin Deleting /\ e.pc \notin Done
  BY DEF Later, Deleting, Done
<1>3. QED
  BY <1>1, <1>2 DEF Granted1, Granted, Done

LEMMA ToPointGranted ==
  ASSUME NEW m \in State, m.req.method # "POST", \A x \in Owed(m.req) : HasRow(x, node')
  PROVE  Granted1(ToPoint(m))
<1> DEFINE groups == {g \in GroupId : m.plan[g] # {}}
           e == [m EXCEPT !.pc = "point", !.todo = groups]
<1>1. ToPoint(m) \in {Finish(m, "ok"), e}
  BY DEF ToPoint
<1> HIDE DEF groups
<1>2. e.pc = "point" /\ e.req = m.req
  BY DEF State
<1> HIDE DEF e
<1>3. QED
  BY <1>1, <1>2, FinishGranted, LaterGranted DEF Later

(* A request, when it begins, has everything still to come.                *)
LEMMA StartGranted ==
  ASSUME NEW r \in Request PROVE Granted1(Start(r))
<1> DEFINE m == Blank(r)
           names == AllNames(r)
           L(e, pc) == /\ e.pc = pc /\ e.req = r
                       /\ pc = "find" => e.add = names
                       /\ pc = "exist" => e.upd = names
           Right(pc) ==
             \/ pc = "find" /\ r.method = "POST" /\ r.hosts \subseteq Xname
             \/ pc = "check" /\ r.method = "PUT"
             \/ pc = "exist" /\ r.method = "PATCH"
             \/ pc \in {"delnodes", "delconfigs"} /\ r.method = "DELETE"
<1>1. m \in State /\ m.req = r
  BY BlankTyped DEF Blank
<1> HIDE DEF m, names
<1>2. /\ \A pc \in {"check", "delconfigs"} : L([m EXCEPT !.pc = pc], pc)
      /\ L([m EXCEPT !.pc = "find", !.add = names], "find")
      /\ L([m EXCEPT !.pc = "exist", !.upd = names], "exist")
      /\ L([m EXCEPT !.pc = "delnodes", !.upd = Targets(r)], "delnodes")
  BY <1>1 DEF State
<1>3. ASSUME NEW e, NEW pc, L(e, pc), Right(pc) PROVE Granted1(e)
  <2>1. e.pc = pc /\ e.req = r /\ Waiting(e) = {}
    BY <1>3 DEF Waiting
  <2>2. \A x \in Owed(r) : Coming(e, x)
    BY <1>3, <2>1, OwedIs DEF Coming, names
  <2>3. r.method = "POST" => PostGoes(e)
    BY <1>3, <2>1 DEF PostGoes, names
  <2>4. pc \in Deleting => r.method = "DELETE"
    BY <1>3 DEF Deleting
  <2>5. pc # "ok"
    BY <1>3
  <2>6. QED
    BY <2>1, <2>2, <2>3, <2>4, <2>5 DEF Granted1, Granted
<1> HIDE DEF L
<1>4. Granted1(Finish(m, "failed")) /\ (r.method \notin {"POST", "PUT", "PATCH"} => Granted1(Finish(m, "ok")))
  BY <1>1, OwedIs, FinishGranted
<1>5. PICK e : e = Start(r)
  OBVIOUS
<1>6. \/ e = Finish(m, "failed")
      \/ e = Finish(m, "ok") /\ r.method \notin {"POST", "PUT", "PATCH"}
      \/ \E pc \in {"find", "check", "exist", "delnodes", "delconfigs"} : L(e, pc) /\ Right(pc)
  BY <1>2, <1>5 DEF Start, m, names
<1> HIDE DEF Right
<1>7. QED
  BY <1>3, <1>4, <1>5, <1>6

LEMMA BeginGranted ==
  ASSUME TypeInv, NEW c \in Client, Alone(c), Begin(c) \/ StatementFails(c) PROVE GrantedInv'
<1>1. CASE Begin(c)
  <2>1. PICK r \in May[c] : Become(c, Start(r))
    BY <1>1 DEF Begin
  <2>2. r \in Request
    BY SqlAssumption, RequestAssumption
  <2>3. QED
    BY <2>1, <2>2, StartGranted, GrantedStep
<1>2. CASE StatementFails(c)
  BY <1>2, FinishGranted, GrantedStep DEF StatementFails
<1>3. QED
  BY <1>1, <1>2

(* The rows by a name, for a name that no row without a NID goes by.       *)
LEMMA RowsOf ==
  ASSUME NoZeroNid, NEW x \in Name
  PROVE  Rows({x}) # {} <=> HasRow(x, node)
<1>1. x # ZeroNid /\ x # Absent
  BY NamesAre
<1>2. QED
  BY <1>1 DEF Rows, RowMatch, HasRow

LEMMA SetGranted ==
  ASSUME TypeInv, TableInv, GrantedInv, NoZeroNid, NEW c \in Client, Alone(c),
         CheckSet(c) \/ ListSet(c)
  PROVE  GrantedInv'
<1> DEFINE m == cl[c]
           names == AllNames(m.req)
<1>1. /\ m \in State /\ m.req \in Request /\ names \subseteq Name /\ Plot(m)
      /\ Granted(m, node, assign, group, config) /\ Owed(m.req) \subseteq names
  BY OwnGranted, RequestTyped, OwedIs
<1>2. CASE CheckSet(c)
  <2> DEFINE e == [m EXCEPT !.pc = "list", !.add = Missing(names)]
  <2>1. Become(c, e) /\ m.pc = "check" /\ UNCHANGED tables
    BY <1>2 DEF CheckSet
  <2>2. m.req.method = "PUT"
    BY <1>1, <2>1 DEF Plot
  <2>3. e.pc = "list" /\ e.req = m.req /\ e.add = Missing(names)
    BY <1>1 DEF State, Missing
  <2>4. \A x \in Owed(m.req) : HasRow(x, node') \/ x \in Missing(names)
    BY <1>1, <2>1, RowsOf DEF Missing, tables, HasRow
  <2> HIDE DEF e
  <2>5. Granted1(e)
    BY <2>2, <2>3, <2>4 DEF Granted1, Granted, Coming, Waiting, Deleting
  <2>6. QED
    BY <2>1, <2>5, GrantedStep
<1>3. CASE ListSet(c)
  <2> DEFINE found == Rows(names)
             upd == {node[n] : n \in found} \ {ZeroNid}
             some == found # {}
             e == [m EXCEPT !.upd = upd, !.some = some]
             f == [e EXCEPT !.pc = "find"]
  <2>1. /\ m.pc = "list" /\ UNCHANGED tables
        /\ (m.add # {} /\ Become(c, f)) \/ (m.add = {} /\ Become(c, AfterAdd(e)))
    <3>1. e.add = m.add
      BY <1>1 DEF State
    <3>2. Become(c, IF e.add # {} THEN f ELSE AfterAdd(e))
      BY <1>3 DEF ListSet
    <3> HIDE DEF e
    <3>3. QED
      BY <1>3, <3>1, <3>2 DEF ListSet
  <2>2. m.req.method = "PUT"
    BY <1>1, <2>1 DEF Plot
  <2>3. e \in State /\ e.req = m.req /\ e.add = m.add
    <3>1. upd \subseteq Name /\ some \in BOOLEAN
      BY <1>1, RowsNamed
    <3> HIDE DEF upd, some
    <3>2. QED
      BY <1>1, <3>1 DEF State
  <2>4. \A x \in Owed(m.req) : HasRow(x, node') \/ x \in m.add
    BY <1>1, <2>1 DEF Granted, Coming, Waiting, HasRow, tables
  <2> HIDE DEF e
  <2>5. f.pc = "find" /\ f.req = m.req /\ f.add = m.add
    BY <2>3 DEF State
  <2> HIDE DEF f
  <2>6. Granted1(f)
    BY <2>2, <2>4, <2>5 DEF Granted1, Granted, Coming, Waiting, Deleting
  <2>7. m.add = {} => Granted1(AfterAdd(e))
    BY <2>2, <2>3, <2>4, AfterAddGranted
  <2>8. QED
    BY <2>1, <2>6, <2>7, GrantedStep
<1>4. QED
  BY <1>2, <1>3

(* What is owed and has no row is among the names that Add makes nodes of. *)
LEMMA FindGranted ==
  ASSUME TypeInv, TableInv, GrantedInv, NoZeroNid, NEW c \in Client, Alone(c), FindNodes(c)
  PROVE  GrantedInv'
<1> DEFINE m == cl[c]
           r == m.req
           part == AddPart(m.add)
           names == Missing(part)
           ids == Fresh(names, NodeId \ UsedNodes)
           new == NewOf(names, ids)
           e == [m EXCEPT !.pc = "similar", !.new = new]
<1>1. /\ m \in State /\ r \in Request /\ m.add \in SUBSET Name /\ m.pc = "find" /\ UNCHANGED tables
      /\ Plot(m) /\ Granted(m, node, assign, group, config)
  <2>1. m.pc = "find" /\ UNCHANGED tables
    BY DEF FindNodes
  <2>2. m \in State /\ r \in Request /\ Plot(m) /\ Granted(m, node, assign, group, config)
    BY OwnGranted
  <2>3. m.add \in SUBSET Name
    BY <2>2 DEF State
  <2>4. QED
    BY <2>1, <2>2, <2>3
<1>2. /\ m.add \subseteq AllNames(r) /\ r.method \in {"POST", "PUT"}
      /\ m.some => r.method # "POST"
      /\ r.method = "POST" => r.hosts \subseteq Xname /\ m.add = AllNames(r)
  BY <1>1 DEF Plot, Granted, PostGoes, Done
<1>3. \/ Become(c, Finish(m, "failed"))
      \/ ~(part \intersect Host \subseteq Xname) /\ Become(c, AfterAdd(m))
      \/ names # {} /\ Enough(names, NodeId \ UsedNodes) /\ Become(c, e)
  BY DEF FindNodes, NewOf
<1>4. ASSUME NEW x \in Owed(r), ~HasRow(x, node) PROVE x \in names
  <2>1. x \in m.add /\ x \in Name
    BY <1>1, <1>4, OwedIs DEF Granted, Coming, Waiting
  <2>2. x \in AddPart(AllNames(r))
    BY <1>2, <1>4 DEF Owed
  <2>3. x \in part
    BY <1>2, <2>1, <2>2 DEF AddPart
  <2> HIDE DEF part
  <2>4. QED
    BY <1>4, <2>1, <2>3, RowsOf DEF Missing
<1>5. ASSUME ~(part \intersect Host \subseteq Xname) PROVE Granted1(AfterAdd(m))
  <2>1. ~(r.hosts \subseteq Xname)
    BY <1>1, <1>2, <1>5, OwedIs DEF AddPart
  <2>2. Owed(r) = {} /\ r.method # "POST"
    BY <1>2, <2>1 DEF Owed
  <2>3. QED
    BY <1>1, <2>2, AfterAddGranted
<1>6. r.method = "POST" => part = Owed(r)
  BY <1>2 DEF Owed
<1>7. names \subseteq part /\ part \subseteq Name
  BY <1>1 DEF Missing, AddPart
<1> HIDE DEF part
<1>8. ASSUME names # {}, Enough(names, NodeId \ UsedNodes) PROVE Granted1(e)
  <2>1. /\ ids \in [names -> NodeId \ UsedNodes]
        /\ \A x, y \in names : ids[x] = ids[y] => x = y
    BY <1>8, FreshIs
  <2> HIDE DEF ids, names
  <2>2. /\ new \in [NodeId -> Name \union {None}]
        /\ \A n \in NodeId : new[n] # None => new[n] \in names /\ ids[new[n]] = n
    BY <1>7, NewTyped
  <2>3. \A x \in names : ids[x] \in NodeId /\ new[ids[x]] = x
    <3> SUFFICES ASSUME NEW x \in names PROVE ids[x] \in NodeId /\ new[ids[x]] = x
      OBVIOUS
    <3>1. ids[x] \in NodeId
      BY <2>1
    <3>2. new[ids[x]] = CHOOSE y \in names : ids[y] = ids[x]
      BY <3>1 DEF NewOf
    <3>3. new[ids[x]] \in names /\ ids[new[ids[x]]] = ids[x]
      BY <3>2
    <3>4. QED
      BY <2>1, <3>1, <3>3
  <2> HIDE DEF new
  <2>4. e.pc = "similar" /\ e.req = r /\ e.new = new
    BY <1>1 DEF State
  <2> HIDE DEF e
  <2>5. Waiting(e) = NewNodes(e) /\ NewNodes(e) = {n \in NodeId : new[n] # None}
    BY <2>4 DEF Waiting, NewNodes
  <2>6. \A n \in Waiting(e) : node'[n] = Absent /\ new[n] \in names
    <3>1. \A n \in Waiting(e) : n \in NodeId \ UsedNodes /\ new[n] \in names
      BY <2>1, <2>2, <2>5
    <3>2. QED
      BY <1>1, <3>1 DEF UsedNodes, tables
  <2>7. \A x \in names : Coming(e, x)
    <3>1. \A x \in names : x # None /\ ids[x] \in Waiting(e)
      BY <1>7, <2>3, <2>5, NameAssumption
    <3>2. QED
      BY <2>3, <2>4, <3>1 DEF Coming
  <2>8. r.method = "POST" => PostGoes(e)
    <3>1. NewNodes(e) # {}
      BY <1>7, <1>8, <2>3, <2>5, NameAssumption
    <3>2. r.method = "POST" => \A n \in NewNodes(e) : new[n] \in Owed(r)
      BY <1>6, <1>7, <2>5, <2>6
    <3>3. QED
      BY <1>2, <2>4, <3>1, <3>2 DEF PostGoes, Adding
  <2>9. \A x \in Owed(r) : HasRow(x, node') \/ Coming(e, x)
    BY <1>1, <1>4, <2>7 DEF HasRow, tables
  <2>10. QED
    BY <2>4, <2>6, <2>8, <2>9 DEF Granted1, Granted, Deleting
<1>9. QED
  BY <1>3, <1>5, <1>8, FinishGranted, GrantedStep

(* Until the nodes are inserted, they are all to come.                     *)
LEMMA InsertingGranted ==
  ASSUME NEW m, Granted(m, node, assign, group, config), UNCHANGED node,
         m.pc \in {"similar", "config", "group"},
         NEW e, e.req = m.req, e.new = m.new, e.pc \in {"config", "group", "node"},
         e.pc = "node" => e.held = NewNodes(m)
  PROVE  Granted1(e)
<1>1. NewNodes(e) = NewNodes(m) /\ Waiting(m) = NewNodes(m) /\ Waiting(e) = NewNodes(m)
  BY DEF NewNodes, Waiting
<1>2. \A x : Coming(m, x) => Coming(e, x)
  BY <1>1 DEF Coming
<1>3. m.req.method = "POST" => PostGoes(e)
  BY <1>1 DEF Granted, PostGoes, Adding, Done
<1>4. \A x \in Owed(m.req) : HasRow(x, node) \/ Coming(e, x)
  BY <1>2 DEF Granted
<1>5. \A n \in NewNodes(m) : node[n] = Absent
  BY <1>1 DEF Granted
<1>6. QED
  BY <1>1, <1>3, <1>4, <1>5 DEF Granted1, Granted, Deleting, HasRow

LEMMA SimilarGranted ==
  ASSUME TypeInv, TableInv, GrantedInv, NEW c \in Client, Alone(c), FindSimilar(c)
  PROVE  GrantedInv'
<1> DEFINE m == cl[c]
<1>1. /\ m \in State /\ m.pc = "similar" /\ UNCHANGED tables
      /\ Granted(m, node, assign, group, config)
  <2>1. m.pc = "similar" /\ UNCHANGED tables
    BY SimilarIs, Zenon
  <2>2. QED
    BY <2>1, OwnGranted
<1>2. ASSUME NEW g \in GroupId
      PROVE  LET f == PlanFor(m, g) IN
             /\ f \in State /\ f.req = m.req /\ f.new = m.new /\ f.held = NewNodes(m)
  BY <1>1, <1>2, PlanForTyped
<1>3. ASSUME NEW g \in GroupId, Become(c, [PlanFor(m, g) EXCEPT !.pc = "node"])
      PROVE  GrantedInv'
  <2> DEFINE f == PlanFor(m, g)
             e == [f EXCEPT !.pc = "node"]
  <2>1. f \in State /\ f.req = m.req /\ f.new = m.new /\ f.held = NewNodes(m) /\ Become(c, e)
    BY <1>2, <1>3
  <2> HIDE DEF f
  <2>2. e.pc = "node" /\ e.req = m.req /\ e.new = m.new /\ e.held = NewNodes(m)
    BY <2>1 DEF State
  <2> HIDE DEF e
  <2>3. Granted1(e)
    BY <1>1, <2>2, InsertingGranted DEF tables
  <2>4. QED
    BY <2>1, <2>3, GrantedStep
<1>4. ASSUME NEW g \in GroupId,
             Become(c, [PlanFor(m, g) EXCEPT !.pc = "config", !.todo = {g},
                                             !.cfg[g] = Asked(m.req)])
      PROVE  GrantedInv'
  <2> DEFINE f == PlanFor(m, g)
             e == [f EXCEPT !.pc = "config", !.todo = {g}, !.cfg[g] = Asked(m.req)]
  <2>1. f \in State /\ f.req = m.req /\ f.new = m.new /\ Become(c, e)
    BY <1>2, <1>4
  <2> HIDE DEF f
  <2>2. e.pc = "config" /\ e.req = m.req /\ e.new = m.new
    BY <2>1 DEF State
  <2> HIDE DEF e
  <2>3. Granted1(e)
    BY <1>1, <2>2, InsertingGranted DEF tables
  <2>4. QED
    BY <2>1, <2>3, GrantedStep
<1>5. \A g \in Similar(Asked(m.req)) : g \in GroupId
  BY DEF Similar, TypeInv, TypeOK
<1>6. Become(c, Finish(m, "failed")) => GrantedInv'
  BY FinishGranted, GrantedStep
<1>7. \/ Become(c, Finish(m, "failed"))
      \/ \E g \in GroupId : Become(c, [PlanFor(m, g) EXCEPT !.pc = "node"])
      \/ \E g \in GroupId :
           Become(c, [PlanFor(m, g) EXCEPT !.pc = "config", !.todo = {g},
                                           !.cfg[g] = Asked(m.req)])
  BY <1>5, SimilarIs, Zenon
<1>8. QED
  BY <1>3, <1>4, <1>6, <1>7, Zenon

LEMMA InsertGroupsGranted ==
  ASSUME TypeInv, TableInv, GrantedInv, NEW c \in Client, Alone(c),
         NEW g \in GroupId, InsertConfig(c, g) \/ InsertGroup(c, g)
  PROVE  GrantedInv'
<1> DEFINE i == cl[c]
           m == [i EXCEPT !.todo = @ \ {g}]
<1>1. /\ i \in State /\ i.pc \in {"config", "group"} /\ Plot(i) /\ UNCHANGED node
      /\ Granted(i, node, assign, group, config)
  BY OwnGranted DEF InsertConfig, InsertGroup
<1>2. /\ m \in State /\ m.pc = i.pc /\ m.req = i.req /\ m.new = i.new /\ m.held = i.held
  BY <1>1 DEF State
<1>3. CASE InsertConfig(c, g)
  <2> DEFINE f == [m EXCEPT !.pc = "group", !.todo = Made(m)]
  <2>1. Become(c, m) \/ Become(c, f)
    BY <1>3 DEF InsertConfig
  <2> HIDE DEF m, i
  <2>2. f.pc = "group" /\ f.req = i.req /\ f.new = i.new
    BY <1>2 DEF State
  <2> HIDE DEF f
  <2>3. Granted1(m) /\ Granted1(f)
    BY <1>1, <1>2, <2>2, InsertingGranted
  <2>4. QED
    BY <2>1, <2>3, GrantedStep
<1>4. CASE InsertGroup(c, g)
  <2> DEFINE f == [m EXCEPT !.pc = "node"]
  <2>1. \/ Become(c, m) \/ (NewNodes(m) # {} /\ Become(c, f))
        \/ (NewNodes(m) = {} /\ Become(c, ToPoint(m)))
    BY <1>4 DEF InsertGroup
  <2> HIDE DEF m, i
  <2>2. f.pc = "node" /\ f.req = i.req /\ f.new = i.new /\ f.held = i.held
    BY <1>2 DEF State
  <2> HIDE DEF f
  <2>3. NewNodes(m) = NewNodes(i)
    BY <1>2 DEF NewNodes
  <2>4. NewNodes(i) # {} => i.held = NewNodes(i)
    BY <1>1 DEF Plot
  <2>5. Granted1(m) /\ (NewNodes(i) # {} => Granted1(f))
    BY <1>1, <1>2, <2>2, <2>4, InsertingGranted
  <2>6. NewNodes(i) = {} => Granted1(ToPoint(m))
    BY <1>1, <1>2, LaterIs, ToPointGranted DEF Later
  <2>7. QED
    BY <2>1, <2>3, <2>5, <2>6, GrantedStep
<1>5. QED
  BY <1>3, <1>4

LEMMA InsertNodeGranted ==
  ASSUME TypeInv, TableInv, GrantedInv, NoZeroNid, NEW c \in Client, Alone(c),
         NEW n \in NodeId, InsertNode(c, n)
  PROVE  GrantedInv'
<1> DEFINE i == cl[c]
           m == [i EXCEPT !.held = @ \ {n}]
           f == [m EXCEPT !.pc = "link", !.held = NewNodes(m)]
<1>1. /\ i \in State /\ i.req \in Request /\ i.pc = "node" /\ n \in i.held /\ Phased(i)
      /\ Granted(i, node, assign, group, config)
      /\ Become(c, IF m.held # {} THEN m ELSE f)
      /\ node' = [node EXCEPT ![n] = m.new[n]]
  BY OwnGranted DEF InsertNode
<1>2. /\ m \in State /\ m.pc = "node" /\ m.held = i.held \ {n} /\ m.req = i.req /\ m.new = i.new
  BY <1>1 DEF State
<1>3. \A k \in NodeId : node'[k] = IF k = n THEN i.new[n] ELSE node[k]
  BY <1>1, <1>2 DEF TypeInv, TypeOK
<1>4. Become(c, m) \/ (m.held = {} /\ Become(c, f))
  BY <1>1, Zenon
<1> HIDE DEF m, i
<1>5. NewNodes(m) \in SUBSET NodeId
  BY DEF NewNodes
<1>6. f.pc = "link" /\ f.req = i.req /\ f.new = i.new
  BY <1>2, <1>5 DEF State
<1> HIDE DEF f
<1>7. /\ NewNodes(m) = NewNodes(i) /\ NewNodes(f) = NewNodes(i) /\ NewNodes(i) \subseteq NodeId
      /\ n \in Waiting(i) /\ Waiting(m) = Waiting(i) \ {n} /\ Waiting(f) = {}
      /\ m.held = {} => Waiting(m) = {}
  BY <1>1, <1>2, <1>6 DEF NewNodes, Waiting, Phased
<1>8. \A k \in Waiting(m) : node'[k] = Absent
  BY <1>1, <1>3, <1>7 DEF Granted, Waiting
<1>9. \A x \in Owed(i.req) : HasRow(x, node') \/ \E k \in Waiting(m) : m.new[k] = x
  <2> SUFFICES ASSUME NEW x \in Owed(i.req)
               PROVE  HasRow(x, node') \/ \E k \in Waiting(m) : m.new[k] = x
    OBVIOUS
  <2>1. node[n] = Absent /\ (HasRow(x, node) \/ Coming(i, x))
    BY <1>1, <1>7 DEF Granted
  <2>2. x \in Name
    BY <1>1, OwedIs
  <2>3. x # Absent
    BY <2>2, NamesAre
  <2>4. CASE HasRow(x, node)
    BY <1>3, <2>1, <2>3, <2>4 DEF HasRow
  <2>5. CASE Coming(i, x)
    <3>1. PICK k \in Waiting(i) : i.new[k] = x
      BY <1>1, <2>5 DEF Coming
    <3>2. QED
      BY <1>2, <1>3, <1>7, <3>1 DEF HasRow
  <2>6. QED
    BY <2>1, <2>4, <2>5
<1>10. i.req.method = "POST" => PostGoes(m) /\ PostGoes(f)
  BY <1>1, <1>2, <1>6, <1>7 DEF Granted, PostGoes, Adding, Done
<1>11. Granted1(m)
  BY <1>2, <1>8, <1>9, <1>10 DEF Granted1, Granted, Coming, Deleting
<1>12. m.held = {} => Granted1(f)
  BY <1>6, <1>7, <1>9, <1>10 DEF Granted1, Granted, Deleting
<1>13. QED
  BY <1>4, <1>11, <1>12, GrantedStep

(* The last assignment is that of a row with what the POST gave.           *)
LEMMA InsertLinkGranted ==
  ASSUME TypeInv, TableInv, GrantedInv, NEW c \in Client, Alone(c),
         NEW n \in NodeId, InsertLink(c, n)
  PROVE  GrantedInv'
<1> DEFINE i == cl[c]
           m == [i EXCEPT !.held = @ \ {n}]
<1>1. /\ i \in State /\ i.pc = "link" /\ n \in i.held /\ Plot(i)
      /\ Rests(i, node, assign, group, config) /\ Granted(i, node, assign, group, config)
      /\ UNCHANGED <<node, group, config>>
      /\ Become(c, m) \/ Become(c, AfterAdd(m))
  BY OwnGranted DEF InsertLink
<1>2. /\ m \in State /\ m.pc = "link" /\ m.req = i.req /\ m.new = i.new /\ m.some = i.some
      /\ m.plan = i.plan
  BY <1>1 DEF State
<1>3. PICK g \in GroupId : n \in i.plan[g] /\ assign' = [assign EXCEPT ![n] = g]
  BY <1>2 DEF InsertLink
<1>4. /\ g \in group /\ config[g] = Asked(i.req) /\ n \in NewNodes(i) /\ node[n] = i.new[n]
      /\ i.some => i.req.method # "POST"
  BY <1>1, <1>3 DEF Plot, Rests, Done
<1> HIDE DEF m, i
<1>5. assign'[n] = g
  BY <1>3 DEF TypeInv, TypeOK
<1>6. \A x \in Owed(i.req) : HasRow(x, node')
  BY <1>1 DEF Granted, Coming, Waiting, HasRow
<1>7. i.req.method = "POST" => PostGoes(i)
  BY <1>1 DEF Granted, Done
<1>8. i.req.method = "POST" => PostGoes(m) /\ Posted1(i.req)
  <2>1. i.req.method = "POST" => PostGoes(m)
    BY <1>1, <1>2, <1>7 DEF PostGoes, Adding, NewNodes
  <2>2. i.req.method = "POST" => node'[n] \in Owed(i.req) /\ n \in NodeId
    BY <1>1, <1>4, <1>7 DEF PostGoes
  <2>3. i.req.method = "POST" => Posted1(i.req)
    BY <1>1, <1>4, <1>5, <2>2 DEF Posted1, Posted
  <2>4. QED
    BY <2>1, <2>3
<1>9. Granted1(m)
  BY <1>2, <1>6, <1>8 DEF Granted1, Granted, Waiting, Deleting
<1>10. Granted1(AfterAdd(m))
  BY <1>2, <1>4, <1>6, <1>8, AfterAddGranted
<1>11. QED
  BY <1>1, <1>9, <1>10, GrantedStep

(* Update goes on when none of its nodes is missing.                       *)
LEMMA CheckUpdateGranted ==
  ASSUME TypeInv, TableInv, GrantedInv, NoZeroNid, NEW c \in Client, Alone(c), CheckUpdate(c)
  PROVE  GrantedInv'
<1> DEFINE m == cl[c]
           e == [m EXCEPT !.pc = "old"]
<1>1. /\ m \in State /\ m.req \in Request /\ m.pc = "exist" /\ UNCHANGED tables
      /\ Granted(m, node, assign, group, config)
      /\ Become(c, Finish(m, "failed")) \/ (Missing(m.upd) = {} /\ Become(c, e))
  BY OwnGranted DEF CheckUpdate
<1>2. e.pc = "old" /\ e.req = m.req
  BY <1>1 DEF State
<1> HIDE DEF e
<1>3. m.req.method # "POST"
  BY <1>1 DEF Granted, PostGoes, Adding, Done
<1>4. ASSUME Missing(m.upd) = {}, NEW x \in Owed(m.req) PROVE HasRow(x, node')
  <2>1. x \in Name /\ (HasRow(x, node) \/ x \in m.upd)
    BY <1>1, OwedIs DEF Granted, Coming, Waiting
  <2>2. x \in m.upd => Rows({x}) # {}
    BY <1>4 DEF Missing
  <2>3. HasRow(x, node)
    BY <2>1, <2>2, RowsOf
  <2>4. QED
    BY <1>1, <2>3 DEF HasRow, tables
<1>5. Missing(m.upd) = {} => Granted1(e)
  BY <1>2, <1>3, <1>4, LaterGranted DEF Later
<1>6. QED
  BY <1>1, <1>5, FinishGranted, GrantedStep

LEMMA UpdateGranted ==
  ASSUME TypeInv, TableInv, GrantedInv, NEW c \in Client, Alone(c),
         \/ ReadOld(c) \/ ReadGroups(c) \/ ReadMembers(c) \/ PlanUpdate(c) \/ Purge(c)
         \/ \E g \in GroupId : Point(c, g)
  PROVE  GrantedInv'
<1> DEFINE m == cl[c]
           Goes(e) == /\ Become(c, e) /\ e.req = m.req
                      /\ e.pc \in {"groups", "members", "reuse", "purge", "point"}
                           \/ (e.pc = "config" /\ NewNodes(e) = {})
<1>1. /\ m \in State /\ Phased(m) /\ Granted(m, node, assign, group, config)
      /\ m.pc \in {"old", "groups", "members", "reuse", "purge", "point"} /\ UNCHANGED node
  <2>1. m.pc \in {"old", "groups", "members", "reuse", "purge", "point"} /\ UNCHANGED node
    BY Zenon DEF ReadOld, ReadGroups, ReadMembers, PlanUpdate, Purge, Point, tables
  <2>2. QED
    BY <2>1, OwnGranted
<1>2. m.req.method # "POST" /\ \A x \in Owed(m.req) : HasRow(x, node')
  BY <1>1, LaterIs DEF Later
<1>3. Granted1(Finish(m, "failed"))
  BY FinishGranted
<1>4. \A e : Goes(e) => GrantedInv'
  BY <1>2, LaterGranted, GrantedStep DEF Later
<1>5. CASE ReadOld(c)
  <2> DEFINE e == [m EXCEPT !.pc = "groups", !.held = {n \in Rows(m.upd) : Joined(n)}]
  <2>1. Become(c, e) \/ Become(c, Finish(m, "failed"))
    BY <1>5 DEF ReadOld
  <2>2. e.pc = "groups" /\ e.req = m.req
    BY <1>1 DEF State
  <2> HIDE DEF e
  <2>3. QED
    BY <1>3, <1>4, <2>1, <2>2, GrantedStep
<1>6. CASE ReadGroups(c)
  <2> DEFINE e == [m EXCEPT !.pc = "members", !.todo = {assign[n] : n \in m.held} \intersect group]
  <2>1. Become(c, e)
    BY <1>6 DEF ReadGroups
  <2>2. e.pc = "members" /\ e.req = m.req
    BY <1>1 DEF State
  <2> HIDE DEF e
  <2>3. QED
    BY <1>4, <2>1, <2>2
<1>7. CASE ReadMembers(c)
  <2> DEFINE joined == {g \in m.todo \intersect group : config[g] # Absent /\ Members(g) # {}}
             plan == [g \in GroupId |-> IF g \in joined THEN Members(g) ELSE {}]
             cfg == [g \in GroupId |-> IF g \in joined THEN config[g] ELSE Absent]
             e == [m EXCEPT !.pc = "reuse", !.todo = {}, !.plan = plan, !.cfg = cfg]
  <2>1. Become(c, e)
    BY <1>7 DEF ReadMembers
  <2> HIDE DEF joined, plan, cfg
  <2>2. e.pc = "reuse" /\ e.req = m.req
    BY <1>1 DEF State
  <2> HIDE DEF e
  <2>3. QED
    BY <1>4, <2>1, <2>2
<1>8. CASE PlanUpdate(c)
  <2>1. PICK same : /\ \A g \in Old(m) \ Unmet(m) : same[Due(m, g)] \in Similar(Due(m, g))
                    /\ Become(c, Planned(m, same))
    BY <1>8, PlanIs
  <2>2. m.pc = "reuse" /\ Enough(Unmet(m), GroupId \ UsedGroups) /\ group \subseteq GroupId
    BY <1>8, PlanIs DEF TypeInv, TypeOK
  <2>3. Planned(m, same).pc = "purge" /\ Planned(m, same).req = m.req
    BY <1>1, <2>1, <2>2, PlannedFields
  <2>4. QED
    BY <1>4, <2>1, <2>3
<1>9. CASE Purge(c)
  <2> DEFINE i == [m EXCEPT !.drop = {}]
             e == [i EXCEPT !.pc = "config", !.todo = Made(i)]
  <2>1. Become(c, e) \/ Become(c, ToPoint(i))
    BY <1>9, Zenon DEF Purge
  <2>2. i \in State /\ i.req = m.req /\ i.new = m.new
    BY <1>1 DEF State
  <2>3. m.pc = "purge"
    BY <1>9 DEF Purge
  <2> HIDE DEF i
  <2>4. e.pc = "config" /\ e.req = m.req /\ e.new = m.new
    BY <2>2 DEF State
  <2> HIDE DEF e
  <2>5. NewNodes(e) = {}
    BY <1>1, <2>3, <2>4 DEF NewNodes, Phased, Updating
  <2>6. Granted1(ToPoint(i))
    BY <1>2, <2>2, ToPointGranted
  <2>7. QED
    BY <1>4, <2>1, <2>4, <2>5, <2>6, GrantedStep
<1>10. ASSUME NEW g \in GroupId, Point(c, g) PROVE GrantedInv'
  <2> DEFINE i == [m EXCEPT !.todo = @ \ {g}]
  <2>1. m.pc = "point" /\ (Become(c, i) \/ Become(c, Finish(i, "ok")))
    BY <1>10 DEF Point
  <2>2. i.pc = m.pc /\ i.req = m.req
    BY <1>1 DEF State
  <2> HIDE DEF i
  <2>3. Granted1(Finish(i, "ok"))
    BY <1>2, <2>2, FinishGranted
  <2>4. QED
    BY <1>4, <2>1, <2>2, <2>3, GrantedStep
<1>11. QED
  BY <1>5, <1>6, <1>7, <1>8, <1>9, <1>10

(* A request to delete is owed nothing.                                    *)
LEMMA DeleteGranted ==
  ASSUME TypeInv, TableInv, GrantedInv, NEW c \in Client, Alone(c), DeleteStep(c)
  PROVE  GrantedInv'
<1> DEFINE m == cl[c]
           Goes(e) == /\ Become(c, e) /\ e.req = m.req
                      /\ e.pc \in Deleting \union {"ok", "failed"}
<1>1. m \in State /\ m.req \in Request /\ Granted(m, node, assign, group, config)
  BY OwnGranted
<1>2. m.pc \in Deleting
  BY Zenon DEF DeleteStep, DeleteNodes, DeleteLinks, DropGroups, DropConfigs, CountMembers, DeleteConfigs,
         DeleteGroups, DeleteGroupLinks, DeleteMembers, Deleting
<1>3. m.req.method = "DELETE" /\ Owed(m.req) = {}
  BY <1>1, <1>2, OwedIs DEF Granted
<1>4. \A i, pc : Finish(i, pc).pc = pc /\ Finish(i, pc).req = i.req
  BY DEF Finish, Blank
<1>5. ASSUME NEW e, Goes(e) PROVE GrantedInv'
  <2>1. Waiting(e) = {}
    BY <1>5 DEF Waiting, Deleting
  <2>2. Granted1(e)
    BY <1>3, <1>5, <2>1 DEF Granted1, Granted
  <2>3. QED
    BY <1>5, <2>2, GrantedStep
<1>6. \E e : Goes(e)
  <2>1. CASE DeleteNodes(c)
    <3> DEFINE e == [m EXCEPT !.pc = "unlink", !.held = Rows(m.upd)]
    <3>1. Become(c, e) \/ Become(c, Finish(m, "failed"))
      BY <2>1 DEF DeleteNodes
    <3>2. e.pc = "unlink" /\ e.req = m.req
      BY <1>1 DEF State
    <3> HIDE DEF e, m
    <3>3. QED
      BY <1>4, <3>1, <3>2 DEF Deleting
  <2>2. CASE DeleteLinks(c)
    <3> DEFINE e == [m EXCEPT !.pc = "count", !.todo = {assign[n] : n \in m.held} \ {Absent}]
    <3>1. Become(c, e) \/ Become(c, Finish(m, "ok"))
      BY <2>2 DEF DeleteLinks
    <3>2. e.pc = "count" /\ e.req = m.req
      BY <1>1 DEF State
    <3> HIDE DEF e, m
    <3>3. QED
      BY <1>4, <3>1, <3>2 DEF Deleting
  <2>3. CASE DropGroups(c)
    <3> DEFINE e == [m EXCEPT !.pc = "dropconfigs", !.drop = m.drop \intersect group]
    <3>1. Become(c, e) \/ Become(c, Finish(m, "failed"))
      BY <2>3 DEF DropGroups
    <3>2. e.pc = "dropconfigs" /\ e.req = m.req
      BY <1>1 DEF State
    <3> HIDE DEF e, m
    <3>3. QED
      BY <1>4, <3>1, <3>2 DEF Deleting
  <2>4. CASE DropConfigs(c) \/ DeleteMembers(c)
    <3>1. Become(c, Finish(m, "ok"))
      BY <2>4 DEF DropConfigs, DeleteMembers
    <3> HIDE DEF m
    <3>2. QED
      BY <1>4, <3>1
  <2>5. ASSUME NEW g \in GroupId, CountMembers(c, g) PROVE \E e : Goes(e)
    <3> DEFINE i == [m EXCEPT !.todo = @ \ {g},
                              !.drop = IF Members(g) = {} THEN @ \union {g} ELSE @]
               e == [i EXCEPT !.pc = "dropgroups"]
    <3>1. m.pc = "count" /\ (Become(c, i) \/ Become(c, Finish(i, "ok")) \/ Become(c, e))
      BY <2>5 DEF CountMembers
    <3>2. i.pc = m.pc /\ i.req = m.req /\ e.pc = "dropgroups" /\ e.req = m.req
      BY <1>1 DEF State
    <3> HIDE DEF e, i, m
    <3>3. QED
      BY <1>4, <3>1, <3>2 DEF Deleting
  <2>6. CASE DeleteConfigs(c)
    <3> DEFINE gone == {g \in GroupId : config[g] # Absent /\ HasItems(config[g], m.req)}
               e == [m EXCEPT !.pc = "delgroups", !.drop = gone]
    <3>1. Become(c, e)
      BY <2>6 DEF DeleteConfigs
    <3> HIDE DEF gone
    <3>2. e.pc = "delgroups" /\ e.req = m.req
      BY <1>1 DEF State
    <3> HIDE DEF e, m
    <3>3. QED
      BY <3>1, <3>2 DEF Deleting
  <2>7. CASE DeleteGroups(c)
    <3> DEFINE e == [m EXCEPT !.pc = "dellinks", !.drop = @ \intersect group]
    <3>1. Become(c, e)
      BY <2>7 DEF DeleteGroups
    <3>2. e.pc = "dellinks" /\ e.req = m.req
      BY <1>1 DEF State
    <3> HIDE DEF e, m
    <3>3. QED
      BY <3>1, <3>2 DEF Deleting
  <2>8. CASE DeleteGroupLinks(c)
    <3> DEFINE e == [m EXCEPT !.pc = "delmembers", !.drop = {},
                              !.held = {n \in NodeId : assign[n] \in m.drop}]
    <3>1. Become(c, e)
      BY <2>8 DEF DeleteGroupLinks
    <3>2. e.pc = "delmembers" /\ e.req = m.req
      BY <1>1 DEF State
    <3> HIDE DEF e, m
    <3>3. QED
      BY <3>1, <3>2 DEF Deleting
  <2>9. QED
    BY <2>1, <2>2, <2>3, <2>4, <2>5, <2>6, <2>7, <2>8 DEF DeleteStep
<1>7. QED
  BY <1>5, <1>6

LEMMA StepGranted ==
  ASSUME NoZeroNid, NEW c \in Client, Alone(c), TypeInv, TableInv, GrantedInv, [Next]_vars
  PROVE  GrantedInv'
<1>1. \A d \in Client : d = c
  BY AloneIs
<1>2. CASE UNCHANGED vars
  <2>1. \A d \in Client : Granted(cl'[d], node', assign', group', config')
    BY <1>2 DEF vars, tables, GrantedInv
  <2>2. QED
    BY <2>1, Zenon DEF GrantedInv, Granted
<1>3. CASE Begin(c) \/ StatementFails(c) \/ CheckSet(c) \/ ListSet(c)
  BY <1>3, BeginGranted, SetGranted
<1>4. CASE AddStep(c)
  BY <1>4, FindGranted, SimilarGranted, InsertGroupsGranted, InsertNodeGranted, InsertLinkGranted
  DEF AddStep
<1>5. CASE UpdateStep(c)
  BY <1>5, CheckUpdateGranted, UpdateGranted DEF UpdateStep
<1>6. CASE DeleteStep(c)
  BY <1>6, DeleteGranted
<1>7. QED
  BY <1>1, <1>2, <1>3, <1>4, <1>5, <1>6 DEF Next

-----------------------------------------------------------------------------
(* While no statement of the lone client has failed, a node that is there  *)
(* is assigned to a group that has a config, or the request under way is   *)
(* between the statements that add it, or that delete it.                  *)
Settled(n, as, gr, cf) == as[n] \in gr /\ cf[as[n]] # Absent

Busy(m, n, as, gr) ==
  \/ m.pc = "node" /\ n \in NewNodes(m) \ m.held
  \/ m.pc = "link" /\ n \in m.held
  \/ m.pc = "delgroups" /\ as[n] \in m.drop \intersect gr
  \/ m.pc = "dellinks" /\ as[n] \in m.drop
  \/ m.pc = "delmembers" /\ n \in m.held

Half(m, n, nd, as, gr, cf) == nd[n] # Absent => Settled(n, as, gr, cf) \/ Busy(m, n, as, gr)
Halves(m, nd, as, gr, cf) == faults = 0 => \A n \in NodeId : Half(m, n, nd, as, gr, cf)

HalvesInv == \A c \in Client : Halves(cl[c], node, assign, group, config)

LEMMA HalvesStep ==
  ASSUME TypeInv, HalvesInv, NEW c \in Client, Alone(c), NEW m, Become(c, m), UNCHANGED faults,
         \A n \in NodeId : Half(cl[c], n, node, assign, group, config) /\ node'[n] # Absent =>
           Settled(n, assign', group', config') \/ Busy(m, n, assign', group')
  PROVE  HalvesInv'
<1>1. \A d \in Client : cl'[d] = m
  BY OthersStay, AloneIs
<1>2. faults = 0 => \A n \in NodeId : Half(m, n, node', assign', group', config')
  BY DEF HalvesInv, Halves, Half
<1>3. \A d \in Client : faults' = 0 =>
        \A n \in NodeId : Half(cl'[d], n, node', assign', group', config')
  BY <1>1, <1>2
<1>4. QED
  BY <1>3, Zenon DEF HalvesInv, Halves, Half, Settled, Busy, NewNodes

(* Steps that only read, and those of requests that begin or fail.         *)
BusyAt == {"node", "link", "delgroups", "dellinks", "delmembers"}

LEMMA QuietHalves ==
  ASSUME TypeInv, HalvesInv, NEW c \in Client, Alone(c), NEW m, Become(c, m),
         UNCHANGED <<tables, faults>>, cl[c].pc \notin BusyAt
  PROVE  HalvesInv'
<1>1. ASSUME NEW n \in NodeId, Half(cl[c], n, node, assign, group, config), node'[n] # Absent
      PROVE  Settled(n, assign', group', config') \/ Busy(m, n, assign', group')
  BY <1>1 DEF Half, Settled, Busy, BusyAt, tables
<1>2. QED
  BY <1>1, HalvesStep

LEMMA FailHalves ==
  ASSUME TypeInv, NEW c \in Client, StatementFails(c) PROVE HalvesInv'
<1>1. faults' # 0
  BY DEF StatementFails, TypeInv, TypeOK
<1>2. QED
  BY <1>1, Zenon DEF HalvesInv, Halves

LEMMA ReadHalves ==
  ASSUME TypeInv, TableInv, HalvesInv, NEW c \in Client, Alone(c),
         \/ Begin(c) \/ CheckSet(c) \/ ListSet(c) \/ FindNodes(c) \/ FindSimilar(c)
         \/ CheckUpdate(c) \/ ReadOld(c) \/ ReadGroups(c) \/ ReadMembers(c) \/ PlanUpdate(c)
         \/ Purge(c) \/ \E g \in GroupId : CountMembers(c, g)
  PROVE  HalvesInv'
<1>1. CASE Begin(c)
  <2>1. cl[c].pc \notin BusyAt
    BY <1>1 DEF Begin, Done, BusyAt
  <2>2. QED
    BY <1>1, <2>1, QuietHalves DEF Begin
<1>2. CASE \/ CheckSet(c) \/ ListSet(c) \/ FindNodes(c) \/ FindSimilar(c)
           \/ CheckUpdate(c) \/ ReadOld(c) \/ ReadGroups(c) \/ ReadMembers(c) \/ PlanUpdate(c)
           \/ \E g \in GroupId : CountMembers(c, g)
  <2>1. cl[c].pc \in {"check", "list", "find", "similar", "exist", "old", "groups", "members",
                      "reuse", "count"}
    BY <1>2, Zenon DEF CheckSet, ListSet, FindNodes, FindSimilar, CheckUpdate, ReadOld, ReadGroups,
       ReadMembers, PlanUpdate, CountMembers
  <2>2. UNCHANGED <<tables, faults>> /\ \E m : Become(c, m)
    BY <1>2, Zenon DEF CheckSet, ListSet, FindNodes, FindSimilar, CheckUpdate, ReadOld, ReadGroups,
       ReadMembers, PlanUpdate, CountMembers
  <2>3. QED
    BY <2>1, <2>2, QuietHalves DEF BusyAt
<1>3. CASE Purge(c)
  <2>1. cl[c].drop = {} /\ cl[c].pc = "purge"
    BY <1>3, OwnTable DEF Purge, Plot
  <2>2. UNCHANGED <<tables, faults>> /\ \E m : Become(c, m)
    BY <1>3, <2>1 DEF Purge, TypeInv, TypeOK, tables
  <2>3. QED
    BY <2>1, <2>2, QuietHalves DEF BusyAt
<1>4. QED
  BY <1>1, <1>2, <1>3

(* Inserts: groups become whole, and the new nodes are busy in between.    *)
LEMMA InsertGroupsHalves ==
  ASSUME TypeInv, TableInv, HalvesInv, NEW c \in Client, Alone(c),
         NEW g \in GroupId, InsertConfig(c, g) \/ InsertGroup(c, g)
  PROVE  HalvesInv'
<1> DEFINE i == cl[c]
           m == [i EXCEPT !.todo = @ \ {g}]
<1>1. /\ i \in State /\ i.pc \in {"config", "group"} /\ g \in i.todo /\ Plot(i)
      /\ UNCHANGED <<node, assign, faults>> /\ \E e : Become(c, e)
  BY OwnTable, Zenon DEF InsertConfig, InsertGroup
<1>2. m.cfg = i.cfg
  BY <1>1 DEF State
<1>3. \A h \in group : h \in group' /\ (config[h] # Absent => config'[h] # Absent)
  <2>1. i.cfg[g] # Absent
    BY <1>1 DEF Plot, Made
  <2>2. CASE InsertConfig(c, g)
    <3>1. config' = [config EXCEPT ![g] = i.cfg[g]] /\ group' = group
      BY <1>2, <2>2 DEF InsertConfig
    <3>2. QED
      BY <2>1, <3>1 DEF TypeInv, TypeOK
  <2>3. CASE InsertGroup(c, g)
    BY <2>3 DEF InsertGroup
  <2>4. QED
    BY <2>2, <2>3
<1>4. PICK e : Become(c, e)
  BY <1>1
<1>5. ASSUME NEW n \in NodeId, Half(i, n, node, assign, group, config), node'[n] # Absent
      PROVE  Settled(n, assign', group', config') \/ Busy(e, n, assign', group')
  BY <1>1, <1>3, <1>5 DEF Half, Settled, Busy
<1>6. QED
  BY <1>1, <1>4, <1>5, HalvesStep

LEMMA InsertNodeHalves ==
  ASSUME TypeInv, TableInv, HalvesInv, NEW c \in Client, Alone(c),
         NEW n \in NodeId, InsertNode(c, n)
  PROVE  HalvesInv'
<1> DEFINE i == cl[c]
           m == [i EXCEPT !.held = @ \ {n}]
           f == [m EXCEPT !.pc = "link", !.held = NewNodes(m)]
<1>1. /\ i \in State /\ i.pc = "node" /\ n \in i.held /\ Phased(i)
      /\ UNCHANGED <<assign, group, config, faults>>
      /\ Become(c, IF m.held # {} THEN m ELSE f)
      /\ node' = [node EXCEPT ![n] = m.new[n]]
  BY OwnTable DEF InsertNode
<1>2. m \in State /\ m.pc = "node" /\ m.held = i.held \ {n} /\ m.new = i.new
  BY <1>1 DEF State
<1>3. \A k \in NodeId : k # n => node'[k] = node[k]
  BY <1>1 DEF TypeInv, TypeOK
<1>4. Become(c, m) \/ Become(c, f)
  BY <1>1, Zenon
<1> HIDE DEF m, i
<1>5. NewNodes(m) \in SUBSET NodeId
  BY DEF NewNodes
<1>6. f.pc = "link" /\ f.held = NewNodes(i)
  BY <1>2, <1>5 DEF State, NewNodes
<1> HIDE DEF f
<1>7. NewNodes(m) = NewNodes(i) /\ n \in NewNodes(i)
  BY <1>1, <1>2 DEF NewNodes, Phased
<1>8. PICK e \in {m, f} : Become(c, e)
  BY <1>4
<1>9. ASSUME NEW k \in NodeId, Half(i, k, node, assign, group, config), node'[k] # Absent
      PROVE  Settled(k, assign', group', config') \/ Busy(e, k, assign', group')
  <2>1. CASE k = n
    BY <1>2, <1>6, <1>7, <2>1 DEF Busy
  <2>2. CASE k # n
    <3>1. Settled(k, assign, group, config) \/ k \in NewNodes(i) \ i.held
      BY <1>1, <1>3, <1>9, <2>2 DEF Half, Busy
    <3>2. QED
      BY <1>1, <1>2, <1>6, <1>7, <3>1 DEF Settled, Busy
  <2>3. QED
    BY <2>1, <2>2
<1>10. QED
  BY <1>1, <1>8, <1>9, HalvesStep DEF i

LEMMA InsertLinkHalves ==
  ASSUME TypeInv, TableInv, HalvesInv, NEW c \in Client, Alone(c),
         NEW n \in NodeId, InsertLink(c, n)
  PROVE  HalvesInv'
<1> DEFINE i == cl[c]
           m == [i EXCEPT !.held = @ \ {n}]
<1>1. /\ i \in State /\ i.req \in Request /\ i.pc = "link" /\ n \in i.held
      /\ Rests(i, node, assign, group, config)
      /\ UNCHANGED <<node, group, config, faults>>
      /\ Become(c, IF m.held # {} THEN m ELSE AfterAdd(m))
  BY OwnTable DEF InsertLink
<1>2. m.pc = "link" /\ m.held = i.held \ {n} /\ m.plan = i.plan
  BY <1>1 DEF State
<1>3. PICK g \in GroupId : n \in i.plan[g] /\ assign' = [assign EXCEPT ![n] = g]
  BY <1>2 DEF InsertLink
<1>4. Become(c, m) \/ (m.held = {} /\ Become(c, AfterAdd(m)))
  BY <1>1, Zenon
<1>5. g \in group /\ config[g] = Asked(i.req) /\ Asked(i.req) # Absent
  BY <1>1, <1>3, RequestTyped DEF Rests
<1> HIDE DEF m, i
<1>6. \A k \in NodeId : assign'[k] = IF k = n THEN g ELSE assign[k]
  BY <1>3 DEF TypeInv, TypeOK
<1>7. PICK e : Become(c, e) /\ (e = m \/ m.held = {})
  BY <1>4
<1>8. ASSUME NEW k \in NodeId, Half(i, k, node, assign, group, config), node'[k] # Absent
      PROVE  Settled(k, assign', group', config') \/ Busy(e, k, assign', group')
  <2>1. CASE k = n
    BY <1>1, <1>5, <1>6, <2>1 DEF Settled
  <2>2. CASE k # n
    <3>1. Settled(k, assign, group, config) \/ k \in i.held
      BY <1>1, <1>8 DEF Half, Busy
    <3>2. QED
      BY <1>1, <1>2, <1>6, <1>7, <2>2, <3>1 DEF Settled, Busy
  <2>3. QED
    BY <2>1, <2>2
<1>9. QED
  BY <1>1, <1>7, <1>8, HalvesStep DEF i

(* Update moves a node to a group that is there and has a config.          *)
LEMMA PointHalves ==
  ASSUME TypeInv, TableInv, HalvesInv, NEW c \in Client, Alone(c),
         NEW g \in GroupId, Point(c, g)
  PROVE  HalvesInv'
<1> DEFINE i == cl[c]
           m == [i EXCEPT !.todo = @ \ {g}]
<1>1. /\ i \in State /\ i.req \in Request /\ i.pc = "point" /\ g \in i.todo
      /\ Rests(i, node, assign, group, config)
      /\ UNCHANGED <<node, group, config, faults>> /\ \E e : Become(c, e)
  BY OwnTable, Zenon DEF Point
<1>2. m.plan = i.plan /\ m.to = i.to
  BY <1>1 DEF State
<1>3. assign' = [n \in NodeId |->
                  IF n \in i.plan[g] /\ assign[n] # Absent THEN i.to[g] ELSE assign[n]]
  BY <1>2 DEF Point
<1>4. config[g] \in Record /\ i.to[g] \in group /\ config[i.to[g]] = Patched(config[g], i.req, i.req)
  <2>1. g \in GroupId /\ config[g] # Absent
    BY <1>1 DEF Rests, From
  <2>2. config[g] \in Record
    BY <2>1 DEF TypeInv, TypeOK
  <2>3. QED
    BY <1>1, <2>2 DEF Rests, Onto
<1>5. config[i.to[g]] # Absent
  BY <1>1, <1>4, PatchedTyped
<1>6. PICK e : Become(c, e)
  BY <1>1
<1>7. ASSUME NEW n \in NodeId, Half(i, n, node, assign, group, config), node'[n] # Absent
      PROVE  Settled(n, assign', group', config') \/ Busy(e, n, assign', group')
  <2>1. assign'[n] \in {i.to[g], assign[n]}
    BY <1>3
  <2>2. Settled(n, assign, group, config)
    BY <1>1, <1>7 DEF Half, Busy
  <2>3. QED
    BY <1>1, <1>4, <1>5, <2>1, <2>2 DEF Settled
<1>8. QED
  BY <1>1, <1>6, <1>7, HalvesStep

(* By nodes: the nodes go first, and groups that no node is assigned to.   *)
LEMMA DeleteNodesHalves ==
  ASSUME TypeInv, TableInv, HalvesInv, NEW c \in Client, Alone(c),
         DeleteNodes(c) \/ DeleteLinks(c) \/ DropGroups(c) \/ DropConfigs(c)
  PROVE  HalvesInv'
<1> DEFINE m == cl[c]
<1>1. /\ m.pc \in {"delnodes", "unlink", "dropgroups", "dropconfigs"}
      /\ Rests(m, node, assign, group, config) /\ UNCHANGED faults
  BY OwnTable DEF DeleteNodes, DeleteLinks, DropGroups, DropConfigs
<1>2. PICK e : Become(c, e)
  BY Zenon DEF DeleteNodes, DeleteLinks, DropGroups, DropConfigs
<1>3. ASSUME NEW n \in NodeId, Half(m, n, node, assign, group, config), node'[n] # Absent
      PROVE  Settled(n, assign', group', config') \/ Busy(e, n, assign', group')
  <2>1. node'[n] = node[n]
    BY <1>3 DEF DeleteNodes, DeleteLinks, DropGroups, DropConfigs
  <2>2. Settled(n, assign, group, config)
    BY <1>1, <1>3, <2>1 DEF Half, Busy
  <2>3. CASE DeleteNodes(c)
    BY <2>2, <2>3 DEF DeleteNodes, Settled
  <2>4. CASE DeleteLinks(c)
    <3>1. n \notin m.held
      BY <1>3, <2>1, <2>4, <1>1 DEF DeleteLinks, Rests
    <3>2. assign'[n] = assign[n]
      BY <2>4, <3>1 DEF DeleteLinks
    <3>3. QED
      BY <2>2, <2>4, <3>2 DEF DeleteLinks, Settled
  <2>5. CASE DropGroups(c)
    <3>1. assign[n] \notin m.drop
      BY <1>1, <1>3, <2>1, <2>5 DEF DropGroups, Rests
    <3>2. QED
      BY <2>2, <2>5, <3>1 DEF DropGroups, Settled
  <2>6. CASE DropConfigs(c)
    <3>1. assign[n] \notin m.drop
      BY <1>1, <1>3, <2>1, <2>6 DEF DropConfigs, Rests
    <3>2. assign[n] \in GroupId
      BY <2>2 DEF Settled, TypeInv, TypeOK
    <3>3. config'[assign[n]] = config[assign[n]]
      BY <2>6, <3>1, <3>2 DEF DropConfigs
    <3>4. QED
      BY <2>2, <2>6, <3>3 DEF DropConfigs, Settled
  <2>7. QED
    BY <2>3, <2>4, <2>5, <2>6
<1>4. QED
  BY <1>1, <1>2, <1>3, HalvesStep

(* By configs: the nodes go last.                                          *)
LEMMA DeleteConfigsHalves ==
  ASSUME TypeInv, TableInv, HalvesInv, NEW c \in Client, Alone(c),
         DeleteConfigs(c) \/ DeleteGroups(c) \/ DeleteGroupLinks(c) \/ DeleteMembers(c)
  PROVE  HalvesInv'
<1> DEFINE m == cl[c]
<1>1. m \in State /\ UNCHANGED faults
  BY OwnTable DEF DeleteConfigs, DeleteGroups, DeleteGroupLinks, DeleteMembers
<1>2. CASE DeleteConfigs(c)
  <2> DEFINE gone == {g \in GroupId : config[g] # Absent /\ HasItems(config[g], m.req)}
             e == [m EXCEPT !.pc = "delgroups", !.drop = gone]
  <2>1. /\ m.pc = "delconfigs" /\ UNCHANGED <<node, assign, group>> /\ Become(c, e)
        /\ config' = [g \in GroupId |-> IF g \in gone THEN Absent ELSE config[g]]
    BY <1>2 DEF DeleteConfigs
  <2> HIDE DEF gone
  <2>2. e.pc = "delgroups" /\ e.drop = gone
    BY <1>1 DEF State
  <2> HIDE DEF e
  <2>3. ASSUME NEW n \in NodeId, Half(m, n, node, assign, group, config), node'[n] # Absent
        PROVE  Settled(n, assign', group', config') \/ Busy(e, n, assign', group')
    <3>1. Settled(n, assign, group, config)
      BY <2>1, <2>3 DEF Half, Busy
    <3>2. assign[n] \in GroupId
      BY <3>1 DEF Settled, TypeInv, TypeOK
    <3>3. QED
      BY <2>1, <2>2, <3>1, <3>2 DEF Settled, Busy
  <2>4. QED
    BY <1>1, <2>1, <2>3, HalvesStep
<1>3. CASE DeleteGroups(c)
  <2> DEFINE e == [m EXCEPT !.pc = "dellinks", !.drop = @ \intersect group]
  <2>1. /\ m.pc = "delgroups" /\ UNCHANGED <<node, assign, config>> /\ Become(c, e)
        /\ group' = group \ m.drop
    BY <1>3 DEF DeleteGroups
  <2>2. e.pc = "dellinks" /\ e.drop = m.drop \intersect group
    BY <1>1 DEF State
  <2> HIDE DEF e
  <2>3. ASSUME NEW n \in NodeId, Half(m, n, node, assign, group, config), node'[n] # Absent
        PROVE  Settled(n, assign', group', config') \/ Busy(e, n, assign', group')
    <3>1. Settled(n, assign, group, config) \/ assign[n] \in m.drop \intersect group
      BY <2>1, <2>3 DEF Half, Busy
    <3>2. QED
      BY <2>1, <2>2, <3>1 DEF Settled, Busy
  <2>4. QED
    BY <1>1, <2>1, <2>3, HalvesStep
<1>4. CASE DeleteGroupLinks(c)
  <2> DEFINE gone == {n \in NodeId : assign[n] \in m.drop}
             e == [m EXCEPT !.pc = "delmembers", !.drop = {}, !.held = gone]
  <2>1. /\ m.pc = "dellinks" /\ UNCHANGED <<node, group, config>> /\ Become(c, e)
        /\ assign' = [n \in NodeId |-> IF n \in gone THEN Absent ELSE assign[n]]
    BY <1>4 DEF DeleteGroupLinks
  <2>2. e.pc = "delmembers" /\ e.held = gone
    BY <1>1 DEF State
  <2>3. \A n \in NodeId : n \in gone <=> assign[n] \in m.drop
    OBVIOUS
  <2> HIDE DEF e, gone
  <2>4. ASSUME NEW n \in NodeId, Half(m, n, node, assign, group, config), node'[n] # Absent
        PROVE  Settled(n, assign', group', config') \/ Busy(e, n, assign', group')
    <3>1. Settled(n, assign, group, config) \/ n \in gone
      BY <2>1, <2>3, <2>4 DEF Half, Busy
    <3>2. QED
      BY <2>1, <2>2, <3>1 DEF Settled, Busy
  <2>5. QED
    BY <1>1, <2>1, <2>4, HalvesStep
<1>5. CASE DeleteMembers(c)
  <2> DEFINE e == Finish(m, "ok")
  <2>1. /\ m.pc = "delmembers" /\ UNCHANGED <<assign, group, config>> /\ Become(c, e)
        /\ node' = [n \in NodeId |-> IF n \in m.held THEN Absent ELSE node[n]]
    BY <1>5 DEF DeleteMembers
  <2>2. ASSUME NEW n \in NodeId, Half(m, n, node, assign, group, config), node'[n] # Absent
        PROVE  Settled(n, assign', group', config') \/ Busy(e, n, assign', group')
    <3>1. n \notin m.held /\ node'[n] = node[n]
      BY <2>1, <2>2
    <3>2. Settled(n, assign, group, config)
      BY <2>1, <2>2, <3>1 DEF Half, Busy
    <3>3. QED
      BY <2>1, <3>2 DEF Settled
  <2> HIDE DEF e
  <2>3. QED
    BY <1>1, <2>1, <2>2, HalvesStep
<1>6. QED
  BY <1>2, <1>3, <1>4, <1>5

LEMMA StepHalves ==
  ASSUME NEW c \in Client, Alone(c), TypeInv, TableInv, HalvesInv, [Next]_vars
  PROVE  HalvesInv'
<1>1. \A d \in Client : d = c
  BY AloneIs
<1>2. CASE UNCHANGED vars
  <2>1. \A d \in Client : faults' = faults /\ Halves(cl'[d], node', assign', group', config')
    BY <1>2 DEF vars, tables, HalvesInv
  <2>2. QED
    BY <2>1, Zenon DEF HalvesInv, Halves, Half, Settled, Busy, NewNodes
<1>3. CASE Begin(c) \/ StatementFails(c) \/ CheckSet(c) \/ ListSet(c)
  BY <1>3, ReadHalves, FailHalves
<1>4. CASE AddStep(c)
  BY <1>4, ReadHalves, InsertGroupsHalves, InsertNodeHalves, InsertLinkHalves DEF AddStep
<1>5. CASE UpdateStep(c)
  BY <1>5, ReadHalves, PointHalves DEF UpdateStep
<1>6. CASE DeleteStep(c)
  BY <1>6, ReadHalves, DeleteNodesHalves, DeleteConfigsHalves DEF DeleteStep
<1>7. QED
  BY <1>1, <1>2, <1>3, <1>4, <1>5, <1>6 DEF Next

(* A lone client that is told "ok" got what it asked, whatever failed in   *)
(* requests before it: each name that is owed a node has one, and it is    *)
(* served unless a statement failed; a POST's own configuration is served; *)
(* and no row is left as the request is to change it or take it away.      *)
THEOREM SuccessMeansDone ==
  ASSUME NEW c \in Client, Client = {c}, ZeroNid \notin Nid
  PROVE  Spec => []OkMeansDone
<1>1. Alone(c) /\ NoZeroNid
  BY DEF Alone, NoZeroNid
<1> DEFINE Inv == TypeInv /\ NamesInv /\ TableInv /\ ThoroughInv /\ GrantedInv /\ HalvesInv
<1>2. Init => Inv
  <2>1. Init => \A d \in Client : cl[d].pc = "idle"
    BY DEF Init, Blank
  <2>2. Init => ThoroughInv
    BY <2>1 DEF ThoroughInv, Thorough
  <2>3. Init => GrantedInv
    BY <2>1 DEF GrantedInv, Granted, Waiting, Deleting, Done
  <2>4. Init => HalvesInv
    BY DEF Init, HalvesInv, Halves, Half
  <2>5. QED
    BY <1>1, <2>2, <2>3, <2>4, InitTyped, InitNames, InitTable
<1>3. Inv /\ [Next]_vars => Inv'
  <2>1. LoneAdder
    BY <1>1, AloneIs DEF LoneAdder
  <2>2. QED
    BY <1>1, <2>1, StepTyped, StepNames, StepTable, StepThorough, StepGranted, StepHalves
    DEF Follows
<1>4. Inv => OkMeansDone
  <2> SUFFICES ASSUME Inv, NEW d \in Client, cl[d].pc = "ok"
               PROVE  LET r == cl[d].req IN
                      /\ \A x \in Owed(r) : Rows({x}) # {} /\ (faults = 0 => Served(x) # {})
                      /\ r.method = "POST" => \E x \in Owed(r) : Asked(r) \in Served(x)
                      /\ \A x \in Name : \A rec \in Served(x) : ~Undone(r, x, rec)
    BY DEF OkMeansDone
  <2> DEFINE r == cl[d].req
  <2>1. r \in Request /\ Owed(r) \subseteq Name
    BY OwnState, OwedIs
  <2>2. Granted(cl[d], node, assign, group, config)
    BY DEF GrantedInv
  <2>3. \A x \in Owed(r) : HasRow(x, node)
    BY <2>2 DEF Granted, Coming, Waiting
  <2>4. \A x \in Name : x # Absent /\ \A n \in NodeId : node[n] = x => n \in Rows({x})
    BY <1>1, NamesAre DEF Rows, RowMatch
  <2>5. ASSUME NEW x \in Owed(r) PROVE Rows({x}) # {} /\ (faults = 0 => Served(x) # {})
    <3>1. PICK n \in NodeId : node[n] = x
      BY <2>3 DEF HasRow
    <3>2. n \in Rows({x}) /\ x # Absent
      BY <2>1, <2>4, <3>1
    <3>3. faults = 0 => Joined(n)
      BY <3>1, <3>2 DEF HalvesInv, Halves, Half, Settled, Busy, Joined
    <3>4. QED
      BY <3>2, <3>3 DEF Served
  <2>6. ASSUME r.method = "POST" PROVE \E x \in Owed(r) : Asked(r) \in Served(x)
    <3>1. PICK n \in NodeId : /\ node[n] \in Owed(r) /\ assign[n] \in group
                              /\ config[assign[n]] = Asked(r)
      BY <2>2, <2>6 DEF Granted, Posted
    <3>2. n \in Rows({node[n]}) /\ Joined(n)
      BY <2>1, <2>4, <3>1, RequestTyped DEF Joined
    <3>3. QED
      BY <3>1, <3>2 DEF Served
  <2>7. ASSUME NEW x \in Name, NEW rec \in Served(x) PROVE ~Undone(r, x, rec)
    <3>1. PICK n \in Rows({x}) : Joined(n) /\ rec = config[assign[n]]
      BY DEF Served
    <3>2. n \in NodeId /\ node[n] = x /\ node[n] # Absent
      BY <1>1, <3>1, RowsNamed DEF Rows
    <3>3. ~Awaits(r, n, node, assign, group, config)
      BY <3>2 DEF ThoroughInv, Thorough, Left, Adding
    <3>4. QED
      BY <3>1, <3>2, <3>3 DEF Awaits, Joined
  <2>8. QED
    BY <2>5, <2>6, <2>7
<1> HIDE DEF Inv
<1>5. QED
  BY <1>2, <1>3, <1>4, PTL DEF Spec

=============================================================================
