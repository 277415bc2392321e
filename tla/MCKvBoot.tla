------------------------------ MODULE MCKvBoot ------------------------------
(* Instances of KvBoot for TLC. *)
EXTENDS KvBoot, TLC

CONSTANTS c1, c2, x1, role, dflt, m1, d1, k1, k2, i1, p1, p2

(* x1 has a role, and role is its tag where it is among the hosts.         *)
RoleDef == [h \in Host |-> IF h = x1 /\ role \in Host THEN role ELSE None]

Req(method, hosts, macs, nids, kernel, initrd, params) ==
  [method |-> method, hosts |-> hosts, macs |-> macs, nids |-> nids,
   kernel |-> kernel, initrd |-> initrd, params |-> params]

(* Every kind of request, with and without names.                          *)
TableRequests ==
  { Req("POST", {x1}, {}, {}, k1, None, p1),
    Req("POST", {}, {m1}, {}, None, i1, None),
    Req("POST", {}, {}, {}, k1, None, None),
    Req("PUT", {x1, dflt}, {}, {}, k1, None, None),
    Req("PUT", {}, {m1}, {}, None, None, p1),
    Req("PUT", {}, {}, {}, k1, None, p1),
    Req("PUT", {}, {}, {d1}, k1, None, None),
    Req("PATCH", {x1}, {m1}, {}, None, i1, None),
    Req("PATCH", {}, {}, {}, None, i1, p1),
    Req("DELETE", {x1}, {m1}, {d1}, None, None, None),
    Req("DELETE", {}, {}, {}, k1, i1, None),
    Req("GET", {}, {m1}, {}, None, None, None) }

(* No image is deleted: what two handlers race for.                        *)
RaceRequests ==
  { Req("POST", {}, {}, {}, k1, None, p1),
    Req("PUT", {x1}, {}, {}, k1, i1, None),
    Req("PUT", {}, {}, {}, k1, None, p1),
    Req("PATCH", {}, {m1}, {}, k1, None, None),
    Req("DELETE", {x1}, {}, {}, None, None, None),
    Req("GET", {}, {m1}, {}, None, None, None) }

(* What a lone client may see fail halfway.                                *)
FaultyRequests ==
  { Req("POST", {x1}, {m1}, {}, k1, None, None),
    Req("PUT", {x1, role}, {}, {}, k1, i1, None),
    Req("PUT", {}, {m1}, {}, None, None, p1),
    Req("PATCH", {x1}, {m1}, {}, k1, None, None),
    Req("PATCH", {x1, role}, {}, {}, None, None, p1),
    Req("DELETE", {x1, role}, {m1}, {}, None, None, None),
    Req("DELETE", {}, {}, {}, k1, None, None),
    Req("GET", {x1}, {}, {}, None, None, None) }

(* Two administrators of one host.                                         *)
PostRequests == { Req("POST", {x1}, {}, {}, k1, None, None),
                  Req("POST", {x1}, {}, {}, k1, None, p1) }
PostMacRequests == { Req("POST", {}, {m1}, {}, k1, None, None),
                     Req("POST", {}, {m1}, {}, k1, None, p1) }
EditRequests == { Req("PUT", {x1}, {}, {}, k1, None, None),
                  Req("PUT", {x1}, {}, {}, k2, None, None),
                  Req("PATCH", {x1}, {}, {}, k2, None, None),
                  Req("PATCH", {x1}, {}, {}, None, None, p1) }
ImageRequests == { Req("PUT", {x1}, {}, {}, k1, None, None),
                   Req("DELETE", {}, {}, {}, k1, None, None) }
SweepRequests == { Req("PUT", {x1}, {}, {}, k1, None, None),
                   Req("DELETE", {x1}, {}, {}, None, None, None),
                   Req("DELETE", {}, {}, {}, k1, None, None) }

=============================================================================
