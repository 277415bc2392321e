----------------------------- MODULE NodeTable ------------------------------
(***************************************************************************)
(* What the Postgres store promises a lone administrator: a table of the   *)
(* boot configurations of nodes, that changes only as the request under    *)
(* way says: nodes that are not in it are added with its configuration,    *)
(* nodes that are in it are changed, any of them if it names none, and     *)
(* they are removed by name, or by what they boot.                         *)
(***************************************************************************)
EXTENDS BootRequests

VARIABLES
  ask,   \* the last request
  conf   \* conf[x]: the configuration of node x, or Absent

Init ==
  /\ ask \in Request
  /\ conf = [x \in Name |-> Absent]

Ask == ask' \in Requests /\ UNCHANGED conf

Add(x) ==
  /\ ask.method \in {"POST", "PUT"} /\ x \in AllNames(ask) /\ ask.kernel # None
  /\ conf[x] = Absent
  /\ conf' = [conf EXCEPT ![x] =
               [params |-> ask.params, kernel |-> ask.kernel, initrd |-> ask.initrd]]
  /\ UNCHANGED ask

Change(set) ==
  /\ ask.method \in {"PUT", "PATCH"}
  /\ AllNames(ask) = {} \/ set \subseteq AllNames(ask)
  /\ \A x \in set : conf[x] # Absent
  /\ conf' = [x \in Name |-> IF x \in set THEN Patched(conf[x], ask, ask) ELSE conf[x]]
  /\ UNCHANGED ask

Remove(set) ==
  /\ ask.method = "DELETE"
  /\ IF AllNames(ask) # {} THEN set \subseteq AllNames(ask)
     ELSE set = {x \in Name : conf[x] # Absent /\
                   \A f \in DOMAIN conf[x] : ask[f] # None => conf[x][f] = ask[f]}
  /\ conf' = [x \in Name |-> IF x \in set THEN Absent ELSE conf[x]]
  /\ UNCHANGED ask

Next ==
  \/ Ask
  \/ \E x \in Name : Add(x)
  \/ \E set \in SUBSET Name : Change(set) \/ Remove(set)

Spec == Init /\ [][Next]_<<ask, conf>>

=============================================================================
