----------------------------- MODULE MCSqlBoot ------------------------------
(* Instances of SqlBoot for TLC. *)
EXTENDS SqlBoot, TLC

CONSTANTS c1, c2, x1, x2, tag, m1, zero, k1, k2, p1, b1, b2, b3, b4, g1, g2, g3, g4, g5

RoleDef == [h \in Host |-> None]

Req(method, hosts, macs, nids, kernel, params) ==
  [method |-> method, hosts |-> hosts, macs |-> macs, nids |-> nids,
   kernel |-> kernel, initrd |-> None, params |-> params]

(* A request that is refused.                                              *)
Refused == Req("PUT", {x1}, {}, {}, None, None)

Everyone == [c \in Client |-> Requests]

(* Two xnames and a MAC; configurations that differ, overlap and agree.    *)
TableRequests ==
  { Req("POST", {x1, x2}, {}, {}, k1, p1),
    Req("POST", {}, {m1}, {}, k1, None),
    Req("POST", {x1}, {}, {}, None, p1),
    Req("PUT", {x1}, {m1}, {}, k1, p1),
    Req("PUT", {x1, x2}, {}, {}, k2, None),
    Req("PUT", {}, {}, {}, None, p1),
    Req("PATCH", {x1}, {}, {}, k2, None),
    Req("PATCH", {x2}, {m1}, {}, None, p1),
    Req("DELETE", {x1}, {}, {}, None, None),
    Req("DELETE", {}, {m1}, {}, None, None),
    Req("DELETE", {x2, tag}, {}, {}, None, None),
    Req("DELETE", {}, {}, {}, k1, None) }

(* No request deletes by configuration.                                    *)
NodeRequests == {r \in TableRequests : r.method # "DELETE" \/ AllNames(r) # {}}

(* c1 only adds nodes, c2 adds and updates.                                *)
MixedRequests ==
  { Refused, Req("POST", {x1, x2}, {}, {}, k1, None),
    Req("POST", {x1}, {}, {}, k2, None),
    Req("POST", {x2}, {}, {}, k2, None),
    Req("PATCH", {x1}, {}, {}, k2, None),
    Req("PUT", {x1, x2}, {}, {}, k1, None) }
MixedMay == [c \in Client |-> IF c = c1 THEN {r \in Requests : r.method = "POST"} \union {Refused}
                              ELSE Requests]

(* Two administrators.                                                     *)
AddRequests == { Refused, Req("POST", {x1}, {}, {}, k1, None) }
PatchRequests == { Refused, Req("POST", {x1, x2}, {}, {}, k1, None),
                   Req("PATCH", {x1}, {}, {}, k2, None) }
DeleteRequests == { Refused, Req("POST", {x1}, {}, {}, k1, None),
                    Req("POST", {x2}, {}, {}, k1, None),
                    Req("DELETE", {x1}, {}, {}, None, None) }

(* Nodes that do not have the same configuration.                          *)
TwoConfigs == { Refused, Req("POST", {x1}, {}, {}, k1, None),
                Req("POST", {x2}, {}, {}, k1, p1),
                Req("PATCH", {x1, x2}, {}, {}, k2, p1) }
SetRequests == { Refused, Req("PUT", {x1}, {}, {}, k1, p1), Req("PUT", {x1}, {}, {}, k2, None),
                 Req("PUT", {x1}, {}, {}, k2, p1) }
TagRequests == { Refused, Req("PUT", {tag}, {}, {}, k1, None), Req("PUT", {x1, tag}, {}, {}, k1, None) }
ImageRequests == { Refused, Req("POST", {x1}, {}, {}, k1, None), Req("PUT", {}, {}, {}, k2, p1) }
ZeroRequests == { Refused, Req("POST", {x1}, {}, {}, k1, None),
                  Req("DELETE", {}, {}, {zero}, None, None) }

=============================================================================
