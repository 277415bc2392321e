---------------------------- MODULE MCCloudInit -----------------------------
(* Instances of CloudInit for TLC. *)
EXTENDS CloudInit, TLC

CONSTANTS c1, c2, x1, tag, dflt, glob, a, hk, rk, v, p1, p2

(* x1's role and sub-role have the same tag.                               *)
RoleDef == [n \in Node |-> tag]
SubRoleDef == [n \in Node |-> tag]

Of(pairs) == [k \in Key |-> IF k \in DOMAIN pairs THEN pairs[k] ELSE None]
CI(meta, user, phone) == [meta |-> Of(meta), user |-> Of(user), phone |-> phone]
Nothing == <<>>
Req(method, name, ci) == [method |-> method, name |-> name, ci |-> ci]

(* Administrators are at work on x1.                                       *)
CloudRequests ==
  { Req("PUT", x1, CI(a :> v, Nothing, None)),
    Req("PATCH", x1, CI(a :> Null, a :> v, None)),
    Req("DELETE", x1, NoCloudData),
    Req("META", x1, NoCloudData),
    Req("USER", x1, NoCloudData),
    Req("BOOT", x1, NoCloudData),
    Req("PHONE", x1, CI(Nothing, Nothing, p1)),
    Req("PHONE", x1, NoCloudData) }

(* There is data for everyone, and maybe for the role.                     *)
Before(withTag) ==
  [h \in Host |->
     CASE h = tag /\ withTag -> CI(a :> Null @@ hk :> v, hk :> v, p2)
       [] h = dflt -> CI(rk :> tag, Nothing, p2)
       [] h = glob -> CI(a :> v, Nothing, None)
       [] OTHER -> Absent]
BeforeDef == {Before(TRUE), Before(FALSE)}

(* c1 administers, c2 is the node.                                         *)
SplitMay == [c \in Client |-> {r \in Requests : (c = c1) <=> (r.method \in Admin)}]
Everyone == [c \in Client |-> Requests]

=============================================================================
