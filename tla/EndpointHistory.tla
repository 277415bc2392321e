-------------------------- MODULE EndpointHistory ---------------------------
(***************************************************************************)
(* When a node last asked for its boot script or its user-data             *)
(* (updateEndpointAccessed and its searches): a key per name and endpoint  *)
(* in the key-value store, or a table in Postgres that gains a row with    *)
(* each access.  The handlers that record an access are in CloudInit.      *)
(***************************************************************************)
EXTENDS Naturals

CONSTANTS
  Node,      \* xnames of nodes
  NoName,    \* the empty name: the node is not known, or not asked for
  MaxClock   \* bound: seconds

ASSUME HistoryAssumption == NoName \notin Node /\ MaxClock \in Nat \ {0}

VARIABLES
  useSQL,    \* which of the two backends is in use, chosen at start-up
  clock,     \* time.Now().Unix()
  epochs,    \* /endpoint-access/<name>/<endpoint>: a second, 0 for no key
  rows       \* table endpoint_access; rows that are alike count once

historyVars == <<useSQL, clock, epochs, rows>>

Endpoint == {"bootscript", "user-data"}
NoEndpoint == ""
Time == 1 .. MaxClock
Access == [name : Node \union {NoName}, endpoint : Endpoint, last : 0 .. MaxClock]

HistoryInit ==
  /\ useSQL \in BOOLEAN
  /\ clock = 1
  /\ epochs = [n \in Node \union {NoName} |-> [e \in Endpoint |-> 0]]
  /\ rows = {}

Tick == clock < MaxClock /\ clock' = clock + 1 /\ UNCHANGED <<useSQL, epochs, rows>>

-----------------------------------------------------------------------------
(* The store or the INSERT of an access by n at second t.  Postgres takes  *)
(* no empty name.                                                          *)

Record(n, e, t) ==
  /\ \/ /\ useSQL /\ n # NoName
        /\ rows' = rows \union {[name |-> n, endpoint |-> e, last |-> t]}
        /\ UNCHANGED epochs
     \/ useSQL /\ n = NoName /\ UNCHANGED <<epochs, rows>>
     \/ ~useSQL /\ epochs' = [epochs EXCEPT ![n][e] = t] /\ UNCHANGED rows
  /\ UNCHANGED <<useSQL, clock>>

(* GET /endpoint-history?name=n&endpoint=e, either of which may be empty.  *)
(* The range of keys under "<name>/" is that name's.  A key that is asked  *)
(* for and is not there is answered with epoch 0, and an endpoint alone is *)
(* refused, as {}.                                                         *)
SearchEndpointAccessed(n, e) ==
  LET stored == {a \in Access : a.last > 0 /\ a.last = epochs[a.name][a.endpoint]}
  IN  CASE n = NoName /\ e = NoEndpoint -> stored
        [] n # NoName /\ e = NoEndpoint -> {a \in stored : a.name = n}
        [] n # NoName /\ e # NoEndpoint ->
             {[name |-> n, endpoint |-> e, last |-> epochs[n][e]]}
        [] OTHER -> {}

(* Postgres filters the rows by what is not empty.                         *)
SearchEndpointAccesses(n, e) ==
  {a \in rows : n \in {NoName, a.name} /\ e \in {NoEndpoint, a.endpoint}}

EndpointHistoryGet(n, e) ==
  IF useSQL THEN SearchEndpointAccesses(n, e) ELSE SearchEndpointAccessed(n, e)

HistoryOK ==
  /\ useSQL \in BOOLEAN /\ clock \in Time
  /\ epochs \in [Node \union {NoName} -> [Endpoint -> 0 .. MaxClock]]
  /\ rows \subseteq Access

=============================================================================
