---------------------------- MODULE MCBootScript ----------------------------
(* Instances of BootScript for TLC: configurations with their parameters,  *)
(* as bd.Params, the kernel's and the initrd's make one list.              *)
EXTENDS BootScript

CONSTANTS b1, b2, h1, h2

Has(name) == [name |-> name, val |-> "given", signed |-> None]
Root(b) == [name |-> "root", val |-> b, signed |-> None]
Boot(params, kernel, initrd, referral) ==
  [params |-> params, kernel |-> kernel, initrd |-> initrd, referral |-> referral]

(* Roots in two buckets, the token's variable twice, parameters that BSS   *)
(* would add, one that names an initrd; no kernel; plain URLs.             *)
Rich ==
  {Boot(<<Root(b1), Has("nid"), Has("spire"), Root(b2), Has("spire")>>, b2, b1, TRUE),
   Boot(<<Has("initrd"), Has("ds"), Has("other")>>, b1, b2, FALSE),
   Boot(<<Has("other"), Has("mentions"), Has("xname"), Root(b1)>>, b1, None, TRUE),
   Boot(<<Has("BOOTIF"), Has("mentions"), Has("other")>>, Http, Http, FALSE),
   Boot(<<Has("spire")>>, None, b1, FALSE)}

(* One kernel in each bucket.                                              *)
TwoBuckets == {Boot(<<>>, b1, None, FALSE), Boot(<<>>, b2, None, FALSE)}

(* Two initrds: one of the kernel's parameters, one of the initrd's own.   *)
TwoInitrds == {Boot(<<Has("initrd"), Has("other"), Has("initrd")>>, b1, b1, FALSE)}

(* The initrd is the last parameter, after a data source.                  *)
InitrdLast == {Boot(<<Has("ds"), Has("xname"), Has("nid"), Has("BOOTIF"), Has("initrd")>>, b1, b1, FALSE)}
=============================================================================
