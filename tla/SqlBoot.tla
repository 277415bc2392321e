------------------------------ MODULE SqlBoot -------------------------------
(***************************************************************************)
(* Boot parameters in Postgres (internal/postgres/bootparams.go): tables   *)
(* of nodes, of boot configs, of boot groups, and of the assignments of    *)
(* nodes to groups, with no constraint between them and no transactions.   *)
(* A handler is a process that steps once per SQL statement.               *)
(*                                                                         *)
(* Abstracted: a boot group and the boot config it was made with have one  *)
(* id here, and the group's name, which spells the config out, is left     *)
(* out.  BSS makes no other groups ("We don't create new boot groups in    *)
(* BSS"), so there is none for addBootConfigByGroup, whose search for a    *)
(* host that is no node's xname finds nothing, nor for                     *)
(* deleteBootConfigByGroup.  The lists of a request are sets.              *)
(***************************************************************************)
EXTENDS BootRequests, FiniteSets, Functions

CONSTANTS
  Client,          \* concurrent handlers
  May,             \* May[c]: the requests that client c sends
  Xname,           \* the hosts that are xnames of nodes
  ZeroNid,         \* NID 0, which the row of a node without a NID holds too
  NodeId, GroupId, \* bound: ids in use at one time
  NodesEach,       \* bound: new nodes of one request
  GroupsEach,      \* bound: new groups of one request
  MaxFaults        \* bound: statements that fail

ASSUME SqlAssumption ==
  /\ May \in [Client -> SUBSET Requests]
  /\ Xname \subseteq Host /\ ZeroNid \notin Host \union Mac
  /\ NodesEach \in Nat /\ GroupsEach \in Nat /\ MaxFaults \in Nat
  /\ Absent \notin Name \union GroupId

VARIABLES
  node,     \* nodes: the name a node was added by, or Absent
  assign,   \* boot_group_assignments: the group of a node, or Absent
  group,    \* boot_groups: the ids
  config,   \* boot_configs: the config of an id, or Absent
  cl,       \* the handlers' local states
  faults    \* failed statements so far

tables == <<node, assign, group, config>>
vars == <<tables, cl, faults>>

Done == {"idle", "ok", "failed"}

(* A handler: its request; the names it adds, and those it updates or      *)
(* deletes; whether Set found nodes to update; its lists of nodes: those   *)
(* to insert, those it has read; the nodes of each group, and the group    *)
(* they are to move to; the configs it read or made; its lists of groups.  *)
Blank(r) == [pc |-> "idle", req |-> r, add |-> {}, upd |-> {}, some |-> FALSE,
             new |-> [n \in NodeId |-> None], held |-> {},
             plan |-> [g \in GroupId |-> {}], to |-> [g \in GroupId |-> Absent],
             cfg |-> [g \in GroupId |-> Absent], todo |-> {}, drop |-> {}]

NoRequest == [method |-> "GET", hosts |-> {}, macs |-> {}, nids |-> {},
              kernel |-> None, initrd |-> None, params |-> None]

Init ==
  /\ node = [n \in NodeId |-> Absent]
  /\ assign = [n \in NodeId |-> Absent]
  /\ group = {}
  /\ config = [g \in GroupId |-> Absent]
  /\ cl = [c \in Client |-> Blank(NoRequest)]
  /\ faults = 0

-----------------------------------------------------------------------------
(* Queries.                                                                *)

(* A row is matched by its name, or by NID 0 if it has no NID.             *)
RowMatch(name, names) == name \in names \/ (ZeroNid \in names /\ name \notin Nid)

(* GetNodesByItems: all of the nodes, if there are no names.               *)
Rows(names) ==
  {n \in NodeId : node[n] # Absent /\ (names = {} \/ RowMatch(node[n], names))}

(* Mutant: all of the names are missing if one of them is.                 *)
MissingAny(names) == {x \in names : \E y \in names : Rows({y}) = {}}

(* CheckNodeExistence.                                                     *)
Missing(names) == {x \in names : Rows({x}) = {}}

(* The joins of nodes, assignments, groups and configs.                    *)
Members(g) == {n \in NodeId : node[n] # Absent /\ assign[n] = g}
Joined(n) == assign[n] \in group /\ config[assign[n]] # Absent

(* GetBootParamsByName, ByMac and ByNid.                                   *)
Served(x) == {config[assign[n]] : n \in {m \in Rows({x}) : Joined(m)}}

(* Groups with a config: GetBootConfigsByItems, and the comparison of its  *)
(* results with the config at hand.                                        *)
Similar(rec) == {g \in group : config[g] = rec}

UsedNodes ==
  {n \in NodeId : \/ node[n] # Absent \/ assign[n] # Absent
                  \/ \E c \in Client : \/ n \in cl[c].held \/ cl[c].new[n] # None
                                       \/ \E g \in GroupId : n \in cl[c].plan[g]}
UsedGroups ==
  {g \in GroupId : \/ g \in group \/ config[g] # Absent
                   \/ \E n \in NodeId : assign[n] = g
                   \/ \E c \in Client : \/ g \in cl[c].todo \union cl[c].drop
                                        \/ cl[c].plan[g] # {} \/ cl[c].cfg[g] # Absent
                                        \/ \E h \in GroupId : cl[c].to[h] = g}

Empty(r) == r.params = None /\ r.kernel = None /\ r.initrd = None

(* Ids for the members of a set: uuid.Generate().                          *)
Fresh(set, ids) == CHOOSE f \in Injection(set, ids) : TRUE

(* Bound: a request begins when there are ids for all it and the others    *)
(* under way may make, and if rows were duplicated, it waits for ids.      *)
Enough(set, ids) == Injection(set, ids) # {}
Room(c, r) ==
  LET busy == Cardinality({d \in Client : cl[d].pc \notin Done} \union {c})
  IN  \/ r.method = "DELETE"
      \/ r.method \in {"PUT", "PATCH"} /\ Empty(r)
      \/ /\ Cardinality(GroupId \ UsedGroups) >= GroupsEach * busy
         /\ \/ r.method = "PATCH"
            \/ Cardinality(NodeId \ UsedNodes) >= NodesEach * busy

-----------------------------------------------------------------------------
Become(c, m) == cl' = [cl EXCEPT ![c] = m]
Finish(m, outcome) == [Blank(m.req) EXCEPT !.pc = outcome]

(* Mutant: the kernel and the params are taken for each other.             *)
AskedSwapped(r) == [params |-> r.kernel, kernel |-> r.params, initrd |-> r.initrd]

Asked(r) == [params |-> r.params, kernel |-> r.kernel, initrd |-> r.initrd]

(* The handlers' checks, and the first statement of Add, Set, Update and   *)
(* Delete.                                                                 *)
Start(r) ==
  LET m == Blank(r)
      names == Targets(r)
  IN  CASE r.method = "POST" ->
             IF r.hosts \subseteq Xname
             THEN [m EXCEPT !.pc = "find", !.add = AllNames(r)] ELSE Finish(m, "failed")
        [] r.method = "PUT" ->
             IF Empty(r) THEN Finish(m, "failed") ELSE [m EXCEPT !.pc = "check"]
        [] r.method = "PATCH" -> [m EXCEPT !.pc = "exist", !.upd = AllNames(r)]
        [] r.method = "DELETE" /\ names # {} ->
             IF names \intersect Host \subseteq Xname
             THEN [m EXCEPT !.pc = "delnodes", !.upd = names] ELSE Finish(m, "failed")
        [] r.method = "DELETE" /\ names = {} /\ ~Empty(r) -> [m EXCEPT !.pc = "delconfigs"]
        [] OTHER -> Finish(m, "ok")

Begin(c) ==
  /\ cl[c].pc \in Done
  /\ \E r \in May[c] : Room(c, r) /\ Become(c, Start(r))
  /\ UNCHANGED <<tables, faults>>

(* A statement fails: the handler gives up where it is.                    *)
StatementFails(c) ==
  /\ cl[c].pc \notin Done
  /\ faults < MaxFaults /\ faults' = faults + 1
  /\ Become(c, Finish(cl[c], "failed"))
  /\ UNCHANGED tables

-----------------------------------------------------------------------------
(* Set.                                                                    *)

CheckSet(c) ==
  /\ cl[c].pc = "check"
  /\ Become(c, [cl[c] EXCEPT !.pc = "list", !.add = Missing(AllNames(cl[c].req))])
  /\ UNCHANGED <<tables, faults>>

(* Mutant: a request is done when it has added its nodes.                  *)
AfterAddNever(m) == Finish(m, "ok")

(* The nodes to update are named by what their rows hold, and no NID is 0. *)
AfterAdd(m) ==
  IF m.some THEN [Blank(m.req) EXCEPT !.pc = "exist", !.upd = m.upd]
  ELSE Finish(m, "ok")

ListSet(c) ==
  LET found == Rows(AllNames(cl[c].req))
      m == [cl[c] EXCEPT !.upd = {node[n] : n \in found} \ {ZeroNid},
                         !.some = found # {}]
  IN  /\ cl[c].pc = "list"
      /\ Become(c, IF m.add # {} THEN [m EXCEPT !.pc = "find"] ELSE AfterAdd(m))
      /\ UNCHANGED <<tables, faults>>

-----------------------------------------------------------------------------
(* Add.                                                                    *)

(* Hosts, else MACs, else NIDs.                                            *)
AddPart(names) ==
  IF names \intersect Host # {} THEN names \intersect Host
  ELSE IF names \intersect Mac # {} THEN names \intersect Mac ELSE names \intersect Nid

(* The nodes to add are those that do not exist.  If a host is no xname,   *)
(* nothing is added, and that is no error.                                 *)
FindNodes(c) ==
  LET m == cl[c]
      part == AddPart(m.add)
      names == Missing(part)
      ids == Fresh(names, NodeId \ UsedNodes)
      new == [n \in NodeId |-> IF \E x \in names : ids[x] = n
                               THEN CHOOSE x \in names : ids[x] = n ELSE None]
  IN  /\ m.pc = "find"
      /\ \/ /\ ~(part \intersect Host \subseteq Xname)
            /\ Become(c, AfterAdd(m))
         \/ /\ part \intersect Host \subseteq Xname
            /\ names = {}
            /\ Become(c, Finish(m, "failed"))
         \/ /\ part \intersect Host \subseteq Xname
            /\ names # {} /\ Enough(names, NodeId \ UsedNodes)
            /\ Become(c, [m EXCEPT !.pc = "similar", !.new = new])
      /\ UNCHANGED <<tables, faults>>

NewNodes(m) == {n \in NodeId : m.new[n] # None}

(* addBootConfigByNode: a group with this config is used if there is one.  *)
FindSimilar(c) ==
  LET m == cl[c]
      free == GroupId \ UsedGroups
      with(g) == [m EXCEPT !.plan[g] = NewNodes(m), !.held = NewNodes(m)]
  IN  /\ m.pc = "similar"
      /\ \/ m.req.kernel = None /\ Become(c, Finish(m, "failed"))
         \/ /\ m.req.kernel # None
            /\ \E g \in Similar(Asked(m.req)) : Become(c, [with(g) EXCEPT !.pc = "node"])
         \/ /\ m.req.kernel # None /\ Similar(Asked(m.req)) = {} /\ free # {}
            /\ LET g == CHOOSE h \in free : TRUE
               IN  Become(c, [with(g) EXCEPT !.pc = "config", !.todo = {g},
                                             !.cfg[g] = Asked(m.req)])
      /\ UNCHANGED <<tables, faults>>

Made(m) == {g \in GroupId : m.cfg[g] # Absent}

(* The nodes are assigned to their groups next.                            *)
ToPoint(m) ==
  LET groups == {g \in GroupId : m.plan[g] # {}}
  IN  IF groups = {} THEN Finish(m, "ok")
      ELSE [m EXCEPT !.pc = "point", !.todo = groups]

(* addBootConfigs and addBootGroups, one row at a time.                    *)
InsertConfig(c, g) ==
  LET m == [cl[c] EXCEPT !.todo = @ \ {g}]
  IN  /\ cl[c].pc = "config" /\ g \in cl[c].todo
      /\ config' = [config EXCEPT ![g] = m.cfg[g]]
      /\ Become(c, IF m.todo # {} THEN m ELSE [m EXCEPT !.pc = "group", !.todo = Made(m)])
      /\ UNCHANGED <<node, assign, group, faults>>

InsertGroup(c, g) ==
  LET m == [cl[c] EXCEPT !.todo = @ \ {g}]
  IN  /\ cl[c].pc = "group" /\ g \in cl[c].todo
      /\ group' = group \union {g}
      /\ Become(c, IF m.todo # {} THEN m
                   ELSE IF NewNodes(m) # {} THEN [m EXCEPT !.pc = "node"] ELSE ToPoint(m))
      /\ UNCHANGED <<node, assign, config, faults>>

(* addNodes and addBootGroupAssignments.                                   *)
InsertNode(c, n) ==
  LET m == [cl[c] EXCEPT !.held = @ \ {n}]
  IN  /\ cl[c].pc = "node" /\ n \in cl[c].held
      /\ node' = [node EXCEPT ![n] = m.new[n]]
      /\ Become(c, IF m.held # {} THEN m
                   ELSE [m EXCEPT !.pc = "link", !.held = NewNodes(m)])
      /\ UNCHANGED <<assign, group, config, faults>>

InsertLink(c, n) ==
  LET m == [cl[c] EXCEPT !.held = @ \ {n}]
  IN  /\ cl[c].pc = "link" /\ n \in cl[c].held
      /\ \E g \in GroupId : n \in m.plan[g] /\ assign' = [assign EXCEPT ![n] = g]
      /\ Become(c, IF m.held # {} THEN m ELSE AfterAdd(m))
      /\ UNCHANGED <<node, group, config, faults>>

-----------------------------------------------------------------------------
(* Update.                                                                 *)

CheckUpdate(c) ==
  LET m == cl[c]
  IN  /\ m.pc = "exist"
      /\ Become(c, IF Missing(m.upd) # {} \/ Empty(m.req) THEN Finish(m, "failed")
                   ELSE [m EXCEPT !.pc = "old"])
      /\ UNCHANGED <<tables, faults>>

(* Mutant: nodes are read as if no names were given.                       *)
ReadOldAll(c) ==
  LET old == {n \in Rows({}) : Joined(n)}
  IN  /\ cl[c].pc = "old"
      /\ Become(c, IF old = {} THEN Finish(cl[c], "failed")
                   ELSE [cl[c] EXCEPT !.pc = "groups", !.held = old])
      /\ UNCHANGED <<tables, faults>>

(* getNodesWithConfigs.                                                    *)
ReadOld(c) ==
  LET old == {n \in Rows(cl[c].upd) : Joined(n)}
  IN  /\ cl[c].pc = "old"
      /\ Become(c, IF old = {} THEN Finish(cl[c], "failed")
                   ELSE [cl[c] EXCEPT !.pc = "groups", !.held = old])
      /\ UNCHANGED <<tables, faults>>

(* getConfigsWithNodes: their groups, and then all nodes of the groups.    *)
ReadGroups(c) ==
  /\ cl[c].pc = "groups"
  /\ Become(c, [cl[c] EXCEPT !.pc = "members",
                             !.todo = {assign[n] : n \in cl[c].held} \intersect group])
  /\ UNCHANGED <<tables, faults>>

ReadMembers(c) ==
  LET joined == {g \in cl[c].todo \intersect group : config[g] # Absent /\ Members(g) # {}}
  IN  /\ cl[c].pc = "members"
      /\ Become(c, [cl[c] EXCEPT
           !.pc = "reuse", !.todo = {},
           !.plan = [g \in GroupId |-> IF g \in joined THEN Members(g) ELSE {}],
           !.cfg = [g \in GroupId |-> IF g \in joined THEN config[g] ELSE Absent]])
      /\ UNCHANGED <<tables, faults>>

(* Mutant: the groups that lose all their nodes are marked for deletion.   *)
UnneededLeft(m) == {g \in GroupId : m.plan[g] # {} /\ m.plan[g] \subseteq m.held}

(* For each old config, the new one and the group that has it or will.     *)
(* A group none of whose nodes are updated is marked for deletion.         *)
Unneeded(m) == {g \in GroupId : m.plan[g] # {} /\ m.plan[g] \intersect m.held = {}}

PlanUpdate(c) ==
  LET m == cl[c]
      old == {g \in GroupId : m.plan[g] \intersect m.held # {}}
      rec(g) == Patched(m.cfg[g], m.req, m.req)
      add == {g \in old : Similar(rec(g)) = {}}
      made == Fresh(add, GroupId \ UsedGroups)
  IN  /\ m.pc = "reuse" /\ Enough(add, GroupId \ UsedGroups)
      /\ \E same \in [{rec(g) : g \in old \ add} -> group] :
           LET target(g) == IF g \in add THEN made[g] ELSE same[rec(g)]
           IN  /\ \A r \in {rec(g) : g \in old \ add} : same[r] \in Similar(r)
               /\ Become(c, [m EXCEPT
                    !.pc = "purge", !.drop = Unneeded(m),
                    !.plan = [g \in GroupId |-> m.plan[g] \intersect m.held],
                    !.to = [g \in GroupId |-> IF g \in old THEN target(g) ELSE Absent],
                    !.cfg = [h \in GroupId |->
                      IF \E g \in add : made[g] = h
                      THEN rec(CHOOSE g \in add : made[g] = h) ELSE Absent]])
      /\ UNCHANGED <<tables, faults>>

(* Both DELETEs go to the database in one Exec, which is a transaction.    *)
Purge(c) ==
  LET m == [cl[c] EXCEPT !.drop = {}]
  IN  /\ cl[c].pc = "purge"
      /\ config' = [g \in GroupId |->
                     IF g \in cl[c].drop \intersect group THEN Absent ELSE config[g]]
      /\ group' = group \ cl[c].drop
      /\ Become(c, IF Made(m) # {} THEN [m EXCEPT !.pc = "config", !.todo = Made(m)]
                   ELSE ToPoint(m))
      /\ UNCHANGED <<node, assign, faults>>

(* updateNodeAssignment for the nodes of each old group, those that move   *)
(* to a group just made and then the others.                               *)
Point(c, g) ==
  LET m == [cl[c] EXCEPT !.todo = @ \ {g}]
  IN  /\ cl[c].pc = "point" /\ g \in cl[c].todo
      /\ m.to[g] \in Made(m) \/ \A h \in m.todo : m.to[h] \notin Made(m)
      /\ assign' = [n \in NodeId |->
                     IF n \in m.plan[g] /\ assign[n] # Absent THEN m.to[g] ELSE assign[n]]
      /\ Become(c, IF m.todo # {} THEN m ELSE Finish(m, "ok"))
      /\ UNCHANGED <<node, group, config, faults>>

-----------------------------------------------------------------------------
(* Delete, by nodes: deleteNodesWithBootConfigs.                           *)

DeleteNodes(c) ==
  LET gone == Rows(cl[c].upd)
  IN  /\ cl[c].pc = "delnodes"
      /\ node' = [n \in NodeId |-> IF n \in gone THEN Absent ELSE node[n]]
      /\ Become(c, IF gone = {} THEN Finish(cl[c], "failed")
                   ELSE [cl[c] EXCEPT !.pc = "unlink", !.held = gone])
      /\ UNCHANGED <<assign, group, config, faults>>

DeleteLinks(c) ==
  LET groups == {assign[n] : n \in cl[c].held} \ {Absent}
  IN  /\ cl[c].pc = "unlink"
      /\ assign' = [n \in NodeId |-> IF n \in cl[c].held THEN Absent ELSE assign[n]]
      /\ Become(c, IF groups = {} THEN Finish(cl[c], "ok")
                   ELSE [cl[c] EXCEPT !.pc = "count", !.todo = groups])
      /\ UNCHANGED <<node, group, config, faults>>

(* Mutant: groups are deleted whether they have members left or not.       *)
CountMembersNever(c, g) ==
  LET m == [cl[c] EXCEPT !.todo = @ \ {g}, !.drop = @ \union {g}]
  IN  /\ cl[c].pc = "count" /\ g \in cl[c].todo
      /\ Become(c, IF m.todo # {} THEN m ELSE [m EXCEPT !.pc = "dropgroups"])
      /\ UNCHANGED <<tables, faults>>

(* GetNodesByBootGroupId, group by group.                                  *)
CountMembers(c, g) ==
  LET m == [cl[c] EXCEPT !.todo = @ \ {g},
                         !.drop = IF Members(g) = {} THEN @ \union {g} ELSE @]
  IN  /\ cl[c].pc = "count" /\ g \in cl[c].todo
      /\ Become(c, IF m.todo # {} THEN m
                   ELSE IF m.drop = {} THEN Finish(m, "ok")
                   ELSE [m EXCEPT !.pc = "dropgroups"])
      /\ UNCHANGED <<tables, faults>>

DropGroups(c) ==
  LET gone == cl[c].drop \intersect group
  IN  /\ cl[c].pc = "dropgroups"
      /\ group' = group \ gone
      /\ Become(c, IF gone = {} THEN Finish(cl[c], "failed")
                   ELSE [cl[c] EXCEPT !.pc = "dropconfigs", !.drop = gone])
      /\ UNCHANGED <<node, assign, config, faults>>

DropConfigs(c) ==
  /\ cl[c].pc = "dropconfigs"
  /\ config' = [g \in GroupId |-> IF g \in cl[c].drop THEN Absent ELSE config[g]]
  /\ Become(c, Finish(cl[c], "ok"))
  /\ UNCHANGED <<node, assign, group, faults>>

-----------------------------------------------------------------------------
(* Delete, by configs: deleteBootConfigsByItems.                           *)

HasItems(rec, r) == \A f \in DOMAIN rec : r[f] # None => rec[f] = r[f]

DeleteConfigs(c) ==
  LET gone == {g \in GroupId : config[g] # Absent /\ HasItems(config[g], cl[c].req)}
  IN  /\ cl[c].pc = "delconfigs"
      /\ config' = [g \in GroupId |-> IF g \in gone THEN Absent ELSE config[g]]
      /\ Become(c, [cl[c] EXCEPT !.pc = "delgroups", !.drop = gone])
      /\ UNCHANGED <<node, assign, group, faults>>

DeleteGroups(c) ==
  /\ cl[c].pc = "delgroups"
  /\ group' = group \ cl[c].drop
  /\ Become(c, [cl[c] EXCEPT !.pc = "dellinks", !.drop = @ \intersect group])
  /\ UNCHANGED <<node, assign, config, faults>>

DeleteGroupLinks(c) ==
  LET gone == {n \in NodeId : assign[n] \in cl[c].drop}
  IN  /\ cl[c].pc = "dellinks"
      /\ assign' = [n \in NodeId |-> IF n \in gone THEN Absent ELSE assign[n]]
      /\ Become(c, [cl[c] EXCEPT !.pc = "delmembers", !.drop = {}, !.held = gone])
      /\ UNCHANGED <<node, group, config, faults>>

DeleteMembers(c) ==
  /\ cl[c].pc = "delmembers"
  /\ node' = [n \in NodeId |-> IF n \in cl[c].held THEN Absent ELSE node[n]]
  /\ Become(c, Finish(cl[c], "ok"))
  /\ UNCHANGED <<assign, group, config, faults>>

-----------------------------------------------------------------------------
AddStep(c) ==
  \/ FindNodes(c) \/ FindSimilar(c)
  \/ \E g \in GroupId : InsertConfig(c, g) \/ InsertGroup(c, g)
  \/ \E n \in NodeId : InsertNode(c, n) \/ InsertLink(c, n)

UpdateStep(c) ==
  \/ CheckUpdate(c) \/ ReadOld(c) \/ ReadGroups(c) \/ ReadMembers(c)
  \/ PlanUpdate(c) \/ Purge(c) \/ \E g \in GroupId : Point(c, g)

DeleteStep(c) ==
  \/ DeleteNodes(c) \/ DeleteLinks(c) \/ DropGroups(c) \/ DropConfigs(c)
  \/ \E g \in GroupId : CountMembers(c, g)
  \/ DeleteConfigs(c) \/ DeleteGroups(c) \/ DeleteGroupLinks(c) \/ DeleteMembers(c)

Next ==
  \E c \in Client :
    \/ Begin(c) \/ StatementFails(c) \/ CheckSet(c) \/ ListSet(c)
    \/ AddStep(c) \/ UpdateStep(c) \/ DeleteStep(c)

Spec == Init /\ [][Next]_vars

-----------------------------------------------------------------------------
State == [pc : Done \union
               {"check", "list", "find", "similar", "config", "group", "node", "link",
                "exist", "old", "groups", "members", "reuse", "purge", "point",
                "delnodes", "unlink", "count", "dropgroups", "dropconfigs",
                "delconfigs", "delgroups", "dellinks", "delmembers"},
          req : Request, add : SUBSET Name, upd : SUBSET Name, some : BOOLEAN,
          new : [NodeId -> Name \union {None}], held : SUBSET NodeId,
          plan : [GroupId -> SUBSET NodeId], to : [GroupId -> GroupId \union {Absent}],
          cfg : [GroupId -> Record \union {Absent}],
          todo : SUBSET GroupId, drop : SUBSET GroupId]

TypeOK ==
  /\ node \in [NodeId -> Name \union {Absent}]
  /\ assign \in [NodeId -> GroupId \union {Absent}]
  /\ group \subseteq GroupId
  /\ config \in [GroupId -> Record \union {Absent}]
  /\ cl \in [Client -> State]
  /\ faults \in 0 .. MaxFaults

(***************************************************************************)
(* A lone client: the four tables are one table of the configurations by   *)
(* name, although each request reads and writes them in several            *)
(* statements, and may give up at any of them.                             *)
(***************************************************************************)
Table == INSTANCE NodeTable
           WITH ask <- cl[CHOOSE c \in Client : TRUE].req,
                conf <- [x \in Name |-> IF Served(x) = {} THEN Absent
                                         ELSE CHOOSE rec \in Served(x) : TRUE]
ImplementsNodeTable == Table!Spec

(* A lone client that is told of success got what it asked.  Each name     *)
(* that is owed a node has one, which is served if no statement failed     *)
(* (one that did may leave a node without its assignment, and the node     *)
(* exists for the requests that follow); POST serves what it gives by one  *)
(* of the names at least.  PUT and PATCH leave no node with another value  *)
(* of an item they give, although Update reads the nodes, plans, and moves *)
(* them in statements of their own, and Set runs Add in between; DELETE    *)
(* leaves no node by a name that it gives or, by config, none with it.     *)
(*                                                                         *)
(* Beside hosts, MACs and NIDs are owed nothing: nodeAdd takes one list of *)
(* names.  Nor is any name, if a host is no xname.                         *)
Owed(r) ==
  IF r.method = "PATCH" THEN AllNames(r)
  ELSE IF r.method \in {"POST", "PUT"} /\ r.hosts \subseteq Xname THEN AddPart(AllNames(r))
  ELSE {}
Undone(r, x, rec) ==
  \/ /\ r.method \in {"PUT", "PATCH"} /\ (AllNames(r) = {} \/ x \in AllNames(r))
     /\ ~HasItems(rec, r)
  \/ /\ r.method = "DELETE"
     /\ IF Targets(r) # {} THEN x \in Targets(r) ELSE ~Empty(r) /\ HasItems(rec, r)
OkMeansDone ==
  \A c \in Client :
    LET r == cl[c].req IN
    cl[c].pc = "ok" =>
      /\ \A x \in Owed(r) : Rows({x}) # {} /\ (faults = 0 => Served(x) # {})
      /\ r.method = "POST" => \E x \in Owed(r) : Asked(r) \in Served(x)
      /\ \A x \in Name : \A rec \in Served(x) : ~Undone(r, x, rec)

(* A request for some nodes leaves what other nodes are served as it was,  *)
(* although nodes share groups and Update may delete the groups it leaves. *)
(* Update: "which cannot (i.e. other nodes not being updated depend on     *)
(* it)"; swagger.yaml, DELETE: "Remove an existing boot parameter settings *)
(* for one or more hosts, as specified by hosts, MACs, or NIDs".           *)
OthersUntouched ==
  [][\A c \in Client, x \in Name \ {ZeroNid} :
       LET names == AllNames(cl[c].req) IN
       cl'[c] # cl[c] /\ names # {} /\ x \notin names /\ cl[c].pc \notin Done
         => Served(x)' = Served(x)]_vars

(* The readers' joins lose no node that is assigned: statements are in an  *)
(* order that never leaves an assignment to a group or config that is not  *)
(* there, even when a handler stops between them.                          *)
LinksResolve ==
  \A n \in NodeId : node[n] # Absent /\ assign[n] # Absent => Joined(n)

(* Add: "If a node or its configuration already exists, it is ignored", so *)
(* there is one row per node.                                              *)
NoDuplicateNodes ==
  \A n, k \in NodeId : node[n] # Absent /\ node[n] = node[k] => n = k

(* Add "adds nodes and their boot configuration to the database": a node   *)
(* that was added, and that no request of anyone deletes, is served one.   *)
Deletable(x) ==
  \E r \in Requests : r.method = "DELETE" /\ (AllNames(r) = {} \/ x \in AllNames(r))
AddedIsServed ==
  \A c \in Client :
    cl[c].pc = "ok" /\ cl[c].req.method = "POST" =>
      \A x \in Targets(cl[c].req) : Deletable(x) \/ Served(x) # {}

(* Add: "It is assumed that existing nodes already have a BootGroup with a *)
(* corresponding BootConfig and a BootGroupAssignment", when no request is *)
(* under way.                                                              *)
ExistingIsConfigured ==
  (\A c \in Client : cl[c].pc \in Done) =>
    \A n \in NodeId : node[n] # Absent => Joined(n)

(* Update, on its search for similar configs: "This is to make sure a      *)
(* duplicate boot config/group is not added".                              *)
NoDuplicateConfig ==
  \A g, h \in group : config[g] # Absent /\ config[g] = config[h] => g = h

(* Set: "The Update() function will take care of the deletion of dangling  *)
(* configs".                                                               *)
NoDanglingConfig ==
  (\A c \in Client : cl[c].pc \in Done) => \A g \in group : Members(g) # {}

(* Set: "any nodes that do not already exist are added".                   *)
SetAddsAll ==
  \A c \in Client :
    cl[c].pc = "ok" /\ cl[c].req.method = "PUT" =>
      \A x \in AllNames(cl[c].req) : Served(x) # {}

(* swagger.yaml, PUT: "If the params value does not specify one or more    *)
(* values, any existing values are removed".                               *)
SetReplacesParams ==
  \A c \in Client :
    cl[c].pc = "ok" /\ cl[c].req.method = "PUT" =>
      \A x \in AllNames(cl[c].req) :
        \A rec \in Served(x) : rec.params = cl[c].req.params

(* swagger.yaml, BootParams: with an image and params, "but no host, MAC,  *)
(* or NID, the boot script service will associate the specified params     *)
(* with the specified kernel or initrd image", so no node's own            *)
(* configuration changes.                                                  *)
NamelessChangesNoNode ==
  [][\A c \in Client, x \in Name :
       cl'[c] # cl[c] /\ cl[c].pc \notin Done
         /\ AllNames(cl[c].req) = {} /\ cl[c].req.method \in {"PUT", "PATCH"}
         => Served(x)' = Served(x)]_vars

=============================================================================
