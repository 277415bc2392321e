----------------------------- MODULE BootStore ------------------------------
(***************************************************************************)
(* What the boot parameter store promises a lone administrator: a table of *)
(* configurations that change one name at a time, as the request under way *)
(* says, and a table of images.  A configuration only ever names an image  *)
(* that is there, and removing an image takes it out of all of them.       *)
(***************************************************************************)
EXTENDS BootRequests

VARIABLES
  ask,    \* the last request
  conf,   \* conf[n]: the configuration of name n, or Absent
  image,  \* image[i]: the parameters that go with image i, or Absent
  comp    \* the host an alias is known to belong to, or None

vars == <<ask, conf, image, comp>>

Init ==
  /\ ask \in Request
  /\ conf = [n \in Name |-> Absent]
  /\ image = [i \in Image |-> Absent]
  /\ comp = [a \in Alias |-> None]

Ask == ask' \in Requests /\ UNCHANGED <<conf, image, comp>>

(* The names the request may change: the ones it gives and their hosts.    *)
Keys ==
  AllNames(ask) \union ({comp[a] : a \in Alias \intersect AllNames(ask)} \ {None})

Present == \A f \in Field : ask[f] # None => image[ask[f]] # Absent

Put(n) ==
  /\ ask.method \in {"POST", "PUT"} /\ n \in Keys /\ Present
  /\ conf' = [conf EXCEPT ![n] =
               [params |-> ask.params, kernel |-> ask.kernel, initrd |-> ask.initrd]]
  /\ UNCHANGED <<ask, image, comp>>

Patch(n) ==
  /\ ask.method = "PATCH" /\ n \in Keys /\ Present
  /\ conf[n] # Absent
  /\ conf' = [conf EXCEPT ![n] = Patched(@, ask, ask)]
  /\ UNCHANGED <<ask, image, comp>>

Remove(n) ==
  /\ ask.method = "DELETE" /\ n \in Keys
  /\ conf' = [conf EXCEPT ![n] = Absent]
  /\ UNCHANGED <<ask, image, comp>>

AddImage(i) ==
  /\ ask.method \in {"POST", "PUT", "PATCH"} /\ i \in {ask.kernel, ask.initrd} \ {None}
  /\ image[i] = Absent
  /\ image' = [image EXCEPT ![i] = None]
  /\ UNCHANGED <<ask, conf, comp>>

SetImage(i) ==
  /\ ask.method \in {"POST", "PUT", "PATCH"} /\ i \in {ask.kernel, ask.initrd} \ {None}
  /\ IF ask.method = "PATCH" THEN ask.hosts = {} ELSE Targets(ask) = {}
  /\ image[i] # Absent
  /\ image' = [image EXCEPT ![i] = ask.params]
  /\ UNCHANGED <<ask, conf, comp>>

DropImage(f) ==
  /\ ask.method = "DELETE" /\ ask[f] # None
  /\ image' = [image EXCEPT ![ask[f]] = Absent]
  /\ conf' = [n \in Name |->
               IF conf[n] # Absent /\ conf[n][f] = ask[f]
               THEN [conf[n] EXCEPT ![f] = None] ELSE conf[n]]
  /\ UNCHANGED <<ask, comp>>

Discover ==
  \E a \in Alias, h \in Host :
    /\ comp[a] = None
    /\ comp' = [comp EXCEPT ![a] = h]
    /\ UNCHANGED <<ask, conf, image>>

Next ==
  \/ Ask \/ Discover
  \/ \E n \in Name : Put(n) \/ Patch(n) \/ Remove(n)
  \/ \E i \in Image : AddImage(i) \/ SetImage(i)
  \/ \E f \in Field : DropImage(f)

Spec == Init /\ [][Next]_vars

=============================================================================
