---------------------------- MODULE BootRequests ----------------------------
(***************************************************************************)
(* The requests on /boot/v1/bootparameters and the names they use          *)
(* (bssTypes.BootParams), shared by the store and its specification.       *)
(***************************************************************************)
EXTENDS Naturals, Sequences

CONSTANTS
  Host,            \* names of hosts, role tags and the Default tag
  Mac, Nid,        \* other names of hosts
  Kernel, Initrd,  \* image paths
  Params,          \* non-empty parameter strings
  None,            \* the empty string
  Absent,          \* no entry in the store
  Default,         \* DefaultTag
  Role,            \* Role[h]: HSM's role of host h, None if it has none
  Requests         \* the requests the clients may send

Alias == Mac \union Nid
Name == Host \union Alias
Image == Kernel \union Initrd
Field == {"kernel", "initrd"}
Record == [params : Params \union {None}, kernel : Kernel \union {None},
           initrd : Initrd \union {None}]

(* BootParams, with the method it arrives by; a GET is the lookup of       *)
(* BootscriptGet, and names one host, MAC or NID.                          *)
Method == {"POST", "PUT", "PATCH", "DELETE", "GET"}
Request == [method : Method, hosts : SUBSET Host, macs : SUBSET Mac,
            nids : SUBSET Nid, kernel : Kernel \union {None},
            initrd : Initrd \union {None}, params : Params \union {None}]

ASSUME NameAssumption ==
  /\ Host \intersect Alias = {} /\ Mac \intersect Nid = {}
  /\ Default \in Host /\ Role \in [Host -> Host \union {None}]
  /\ None \notin Name

ASSUME ImageAssumption ==
  /\ Kernel \intersect Initrd = {}
  /\ None \notin Image \union Params
  /\ Absent \notin Params \union {None} /\ Absent \notin Record

ASSUME RequestAssumption == Requests \subseteq Request

(* Store and StoreNew take hosts, else MACs, else NIDs; the other handlers *)
(* take them all.                                                          *)
Targets(r) ==
  IF r.hosts # {} THEN r.hosts ELSE IF r.macs # {} THEN r.macs ELSE r.nids
AllNames(r) == r.hosts \union r.macs \union r.nids

(* What Update makes of a record, when ids are the keys of r's images.     *)
Patched(rec, r, ids) ==
  [params |-> IF r.params # None THEN r.params ELSE rec.params,
   kernel |-> IF r.kernel # None THEN ids.kernel ELSE rec.kernel,
   initrd |-> IF r.initrd # None THEN ids.initrd ELSE rec.initrd]

=============================================================================
