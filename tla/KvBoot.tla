------------------------------- MODULE KvBoot -------------------------------
(***************************************************************************)
(* Boot parameters in the key-value store (boot_data.go with etcd as its   *)
(* backend): a record per host name under /params/, which refers by key to *)
(* image entries under /kernel/ and /initrd/, each holding the parameters  *)
(* that go with the image.  There are no transactions: a handler is a      *)
(* process that steps once per access to the store, and kvMutex covers     *)
(* only imageStore and imageFind.                                          *)
(*                                                                         *)
(* Abstracted: an image key, the hash of the path, is the path itself;     *)
(* referral tokens and cloud-init data are left out; the lists of a        *)
(* request are sets, taken in any order.                                   *)
(***************************************************************************)
EXTENDS BootRequests

CONSTANTS
  Client,          \* concurrent handlers
  MaxFaults        \* bound: accesses to the store that fail

ASSUME FaultAssumption == MaxFaults \in Nat

Free == "free"
ASSUME FreeAssumption == Free \notin Client

VARIABLES
  tags,     \* /params/<name>: a record or Absent
  images,   \* /kernel/<key>, /initrd/<key>: the image's params or Absent
  smComp,   \* FindSMCompByMAC, FindSMCompByNid: a host or None
  kvMutex,  \* holder of kvMutex between two accesses to the store
  cl,       \* the handlers' local states
  faults    \* failed accesses so far

vars == <<tags, images, smComp, kvMutex, cl, faults>>

Done == {"idle", "ok", "failed"}
Pc == Done \union
      {"resolve", "read", "find", "image", "add", "write", "setimage", "apply",
       "delete", "drop", "delimage", "gettags", "sweep", "fetch"}

NoRefs == [kernel |-> None, initrd |-> None]
NoCopies == [n \in Name |-> Absent]

(* A handler: its request, the image type it is at, the names it has not   *)
(* come to, the names to try for the current one, its copies of records,   *)
(* its image keys, the error it will answer with, that of its last write.  *)
Blank(r) == [pc |-> "idle", req |-> r, fld |-> "kernel", todo |-> {},
             chain |-> <<>>, held |-> NoCopies, ids |-> NoRefs,
             err |-> FALSE, last |-> FALSE]

NoRequest == [method |-> "GET", hosts |-> {}, macs |-> {}, nids |-> {},
              kernel |-> None, initrd |-> None, params |-> None]

Init ==
  /\ tags = [n \in Name |-> Absent]
  /\ images = [i \in Image |-> Absent]
  /\ smComp = [a \in Alias |-> None]
  /\ kvMutex = Free
  /\ cl = [c \in Client |-> Blank(NoRequest)]
  /\ faults = 0

-----------------------------------------------------------------------------
(* Names.                                                                  *)

Known(n) == n \in Alias /\ smComp[n] # None

(* The name a record for n is stored under.                                *)
KeyOf(n) == IF Known(n) THEN smComp[n] ELSE n

(* The records a handler tries for name n, first hit wins.                 *)
RoleTag(h) == IF Role[h] = None THEN <<>> ELSE <<Role[h]>>
Tries(method, n) ==
  CASE method = "POST" ->
         IF n \in Host \/ Known(n) THEN <<KeyOf(n)>> ELSE <<>>
    [] method = "PATCH" ->
         IF n \in Host THEN <<n>>
         ELSE IF Known(n) THEN <<smComp[n], n>> ELSE <<>>
    [] method = "DELETE" ->
         IF n \in Mac /\ ~Known(n) THEN <<>> ELSE <<KeyOf(n)>>
    [] OTHER ->
         IF n \in Host THEN <<n>> \o RoleTag(n) \o <<Default>>
         ELSE IF Known(n) THEN <<smComp[n], n>> \o RoleTag(smComp[n]) \o <<Default>>
         ELSE <<n, Default>>

-----------------------------------------------------------------------------
(* Where a handler in state m goes next.                                   *)

(* What is kept of an answer: the request, and what a lookup returned.     *)
Finish(m, failed) ==
  [Blank(m.req) EXCEPT
     !.pc = IF failed THEN "failed" ELSE "ok",
     !.held = IF m.req.method = "GET" THEN m.held ELSE NoCopies,
     !.ids = IF m.req.method = "GET" THEN m.ids ELSE NoRefs]

(* Neither Store nor Update has a record to write.                         *)
ToSetImage(m) ==
  IF m.ids = NoRefs THEN Finish(m, FALSE) ELSE [m EXCEPT !.pc = "setimage"]

(* Remove calls removeImage for the kernel, then for the initrd.           *)
ToDrop(m, f) ==
  IF f = "kernel" /\ m.req.kernel # None
  THEN [m EXCEPT !.pc = "drop", !.fld = "kernel"]
  ELSE IF f # "none" /\ m.req.initrd # None
       THEN [m EXCEPT !.pc = "drop", !.fld = "initrd"]
       ELSE Finish(m, m.err)

(* Store and Update call imageStore for the kernel, then for the initrd,   *)
(* then turn to the names.                                                 *)
ToImage(m, f) ==
  IF f = "kernel" /\ m.req.kernel # None
  THEN [m EXCEPT !.pc = "image", !.fld = "kernel"]
  ELSE IF f # "none" /\ m.req.initrd # None
       THEN [m EXCEPT !.pc = "image", !.fld = "initrd"]
       ELSE LET names == IF m.req.method = "PATCH" THEN AllNames(m.req)
                         ELSE Targets(m.req)
            IN  IF names = {} THEN ToSetImage(m)
                ELSE [m EXCEPT !.todo = names,
                               !.pc = IF m.req.method = "PATCH" THEN "resolve"
                                      ELSE "write"]

FieldAfter(f) == IF f = "kernel" THEN "initrd" ELSE "none"

NextName(m) ==
  LET d == [m EXCEPT !.chain = <<>>] IN
  IF m.todo # {} THEN [d EXCEPT !.pc = "resolve"]
  ELSE CASE m.req.method = "POST"   -> ToImage(d, "kernel")
         [] m.req.method = "PATCH"  ->
              IF m.held = NoCopies THEN ToSetImage(d) ELSE [d EXCEPT !.pc = "apply"]
         [] m.req.method = "DELETE" -> ToDrop(d, "kernel")
         [] OTHER                   -> Finish(d, FALSE)

Start(r) ==
  LET m == Blank(r)
      given == {f \in Field : r[f] # None}
  IN  CASE r.method = "POST" /\ Targets(r) = {} /\ given # {} ->
             [m EXCEPT !.pc = "find",
                       !.fld = IF "kernel" \in given THEN "kernel" ELSE "initrd"]
        [] r.method = "POST" /\ Targets(r) = {} /\ given = {} -> Finish(m, FALSE)
        [] r.method = "POST" /\ Targets(r) # {} -> NextName([m EXCEPT !.todo = Targets(r)])
        [] r.method \in {"PUT", "PATCH"} -> ToImage(m, "kernel")
        [] OTHER -> NextName([m EXCEPT !.todo = AllNames(r)])

Become(c, m) == cl' = [cl EXCEPT ![c] = m]

(* An access to the store that fails.                                      *)
Fault == faults < MaxFaults /\ faults' = faults + 1

(* There is no entry, or reading it fails, which most callers ignore.      *)
ReadsAbsent(entry) == (entry = Absent /\ UNCHANGED faults) \/ Fault

-----------------------------------------------------------------------------
(* HSM learns which host an alias belongs to.                              *)
Discover ==
  \E a \in Alias, h \in Host :
    /\ smComp[a] = None
    /\ smComp' = [smComp EXCEPT ![a] = h]
    /\ UNCHANGED <<tags, images, kvMutex, cl, faults>>

Begin(c) ==
  /\ cl[c].pc \in Done
  /\ \E r \in Requests : Become(c, Start(r))
  /\ UNCHANGED <<tags, images, smComp, kvMutex, faults>>

-----------------------------------------------------------------------------
(* Reading records: the check of StoreNew, checkHost of Update, removeHost *)
(* and lookup.                                                             *)

Resolve(c) ==
  /\ cl[c].pc = "resolve"
  /\ \E n \in cl[c].todo :
       LET chain == Tries(cl[c].req.method, n)
           m == [cl[c] EXCEPT !.todo = @ \ {n}, !.chain = chain, !.pc = "read"]
       IN  Become(c, IF chain = <<>> THEN NextName(m) ELSE m)
  /\ UNCHANGED <<tags, images, smComp, kvMutex, faults>>

(* checkHost does not read again what is in hostMap.                       *)
ReadFound(c) ==
  LET m == cl[c]
      n == Head(m.chain)
      rec == IF m.held[n] # Absent THEN m.held[n] ELSE tags[n]
      copied == [m EXCEPT !.held[n] = rec]
  IN  /\ m.pc = "read"
      /\ rec # Absent
      /\ Become(c, CASE m.req.method = "POST"   -> Finish(m, TRUE)
                     [] m.req.method = "PATCH"  -> NextName(copied)
                     [] m.req.method = "DELETE" -> [m EXCEPT !.pc = "delete"]
                     [] OTHER -> [copied EXCEPT !.pc = "fetch"])
      /\ UNCHANGED <<tags, images, smComp, kvMutex, faults>>

(* A failed read counts as no entry, for every caller.                     *)
ReadNothing(c) ==
  LET m == cl[c]
      n == Head(m.chain)
  IN  /\ m.pc = "read"
      /\ m.held[n] = Absent
      /\ ReadsAbsent(tags[n])
      /\ Become(c, IF Len(m.chain) > 1 THEN [m EXCEPT !.chain = Tail(@)]
                   ELSE CASE m.req.method = "PATCH"  -> Finish(m, TRUE)
                          [] m.req.method = "DELETE" -> NextName([m EXCEPT !.err = TRUE])
                          [] OTHER                   -> NextName(m))
      /\ UNCHANGED <<tags, images, smComp, kvMutex>>

(* Mutant: the initrd is not looked up when there is a kernel.             *)
FetchOneImage(c) ==
  LET m == cl[c]
      ref == {m.held[n][m.fld] : n \in {x \in Name : m.held[x] # Absent}} \ {None}
  IN  /\ m.pc = "fetch"
      /\ \/ /\ \E i \in ref : images[i] # Absent
                              /\ Become(c, Finish([m EXCEPT !.ids[m.fld] = i], FALSE))
            /\ UNCHANGED faults
         \/ /\ \A i \in ref : images[i] = Absent
            /\ Become(c, IF m.fld = "kernel" THEN [m EXCEPT !.fld = "initrd"]
                         ELSE Finish(m, FALSE))
            /\ UNCHANGED faults
      /\ UNCHANGED <<tags, images, smComp, kvMutex>>

(* getImage for each reference of the record a lookup found, and none for  *)
(* an image that is not there.                                             *)
FetchImage(c) ==
  LET m == cl[c]
      ref == {m.held[n][m.fld] : n \in {x \in Name : m.held[x] # Absent}} \ {None}
      next(d) == IF d.fld = "kernel" THEN [d EXCEPT !.fld = "initrd"] ELSE Finish(d, FALSE)
  IN  /\ m.pc = "fetch"
      /\ \/ /\ \E i \in ref : images[i] # Absent /\ Become(c, next([m EXCEPT !.ids[m.fld] = i]))
            /\ UNCHANGED faults
         \/ /\ \A i \in ref : images[i] = Absent
            /\ Become(c, next(m))
            /\ UNCHANGED faults
         \/ ref # {} /\ Fault /\ Become(c, next(m))
      /\ UNCHANGED <<tags, images, smComp, kvMutex>>

-----------------------------------------------------------------------------
(* Images.                                                                 *)

Asked(c) == cl[c].req[cl[c].fld]

(* imageFind: POST of an image alone fails if the image is there.          *)
FindImage(c) ==
  /\ cl[c].pc = "find" /\ kvMutex = Free
  /\ \/ /\ images[Asked(c)] # Absent
        /\ Become(c, Finish(cl[c], TRUE))
        /\ UNCHANGED faults
     \/ /\ ReadsAbsent(images[Asked(c)])
        /\ Become(c, ToImage(cl[c], "kernel"))
  /\ UNCHANGED <<tags, images, smComp, kvMutex>>

(* imageStore: the key of an entry that is there already.                  *)
ImageKnown(c) ==
  /\ cl[c].pc = "image" /\ kvMutex = Free
  /\ images[Asked(c)] # Absent
  /\ LET m == [cl[c] EXCEPT !.ids[cl[c].fld] = Asked(c)]
     IN  Become(c, ToImage(m, FieldAfter(m.fld)))
  /\ UNCHANGED <<tags, images, smComp, kvMutex, faults>>

(* Mutant: kvMutex is released between the look and the Store.             *)
ImageUnknownUnlocked(c) ==
  /\ cl[c].pc = "image" /\ kvMutex = Free
  /\ ReadsAbsent(images[Asked(c)])
  /\ Become(c, [cl[c] EXCEPT !.pc = "add"])
  /\ UNCHANGED <<tags, images, smComp, kvMutex>>

(* ... no entry is found, or the read failed.                              *)
ImageUnknown(c) ==
  /\ cl[c].pc = "image" /\ kvMutex = Free
  /\ ReadsAbsent(images[Asked(c)])
  /\ kvMutex' = c
  /\ Become(c, [cl[c] EXCEPT !.pc = "add"])
  /\ UNCHANGED <<tags, images, smComp>>

(* ... so one without parameters is stored.                                *)
AddImage(c) ==
  /\ cl[c].pc = "add"
  /\ images' = [images EXCEPT ![Asked(c)] = None]
  /\ kvMutex' = Free
  /\ LET m == [cl[c] EXCEPT !.ids[cl[c].fld] = Asked(c)]
     IN  Become(c, ToImage(m, FieldAfter(m.fld)))
  /\ UNCHANGED <<tags, smComp, faults>>

(* Mutants: the key is used although the image was not stored; the mutex   *)
(* is not released on the way out.                                         *)
AddImageFailsUnseen(c) ==
  /\ cl[c].pc = "add" /\ Fault
  /\ kvMutex' = Free
  /\ LET m == [cl[c] EXCEPT !.ids[cl[c].fld] = Asked(c)]
     IN  Become(c, ToImage(m, FieldAfter(m.fld)))
  /\ UNCHANGED <<tags, images, smComp>>
AddImageFailsLocked(c) ==
  /\ cl[c].pc = "add" /\ Fault
  /\ Become(c, IF cl[c].req.method = "PATCH"
               THEN ToImage(cl[c], FieldAfter(cl[c].fld))
               ELSE Finish(cl[c], TRUE))
  /\ UNCHANGED <<tags, images, smComp, kvMutex>>

(* Store gives up without a key, Update goes on.                           *)
AddImageFails(c) ==
  /\ cl[c].pc = "add" /\ Fault
  /\ kvMutex' = Free
  /\ Become(c, IF cl[c].req.method = "PATCH"
               THEN ToImage(cl[c], FieldAfter(cl[c].fld))
               ELSE Finish(cl[c], TRUE))
  /\ UNCHANGED <<tags, images, smComp>>

(* A request without names sets the parameters of its image.               *)
SetImage(c) ==
  LET m == cl[c]
      image == IF m.ids.kernel # None THEN m.ids.kernel ELSE m.ids.initrd
  IN  /\ m.pc = "setimage"
      /\ \/ /\ images' = [images EXCEPT ![image] = m.req.params]
            /\ Become(c, Finish(m, FALSE))
            /\ UNCHANGED faults
         \/ Fault /\ Become(c, Finish(m, TRUE)) /\ UNCHANGED images
      /\ UNCHANGED <<tags, smComp, kvMutex>>

-----------------------------------------------------------------------------
(* Store: one record per name, until the first error.                      *)

(* Mutant: the two images are swapped.                                     *)
NewRecordSwapped(m) ==
  [params |-> m.req.params, kernel |-> m.ids.initrd, initrd |-> m.ids.kernel]

NewRecord(m) == [params |-> m.req.params, kernel |-> m.ids.kernel, initrd |-> m.ids.initrd]

WriteName(c) ==
  /\ cl[c].pc = "write"
  /\ \E n \in cl[c].todo :
       /\ tags' = [tags EXCEPT ![KeyOf(n)] = NewRecord(cl[c])]
       /\ LET m == [cl[c] EXCEPT !.todo = @ \ {n}]
          IN  Become(c, IF m.todo = {} THEN Finish(m, FALSE) ELSE m)
  /\ UNCHANGED <<images, smComp, kvMutex, faults>>

(* Mutant: the loop goes on after an error, which is lost.                 *)
WriteFailsUnseen(c) ==
  /\ cl[c].pc = "write" /\ Fault
  /\ \E n \in cl[c].todo :
       LET m == [cl[c] EXCEPT !.todo = @ \ {n}]
       IN  Become(c, IF m.todo = {} THEN Finish(m, FALSE) ELSE m)
  /\ UNCHANGED <<tags, images, smComp, kvMutex>>

WriteFails(c) ==
  /\ cl[c].pc = "write" /\ Fault
  /\ Become(c, Finish(cl[c], TRUE))
  /\ UNCHANGED <<tags, images, smComp, kvMutex>>

(* Update: each record is written back from the copy in hostMap, if it is  *)
(* changed by what the request gives; err is that of the last write.       *)
Applied(m, n) ==
  LET d == [m EXCEPT !.held[n] = Absent]
  IN  IF d.held = NoCopies THEN Finish(d, d.last) ELSE d

ApplyPatch(c, n) ==
  LET m == cl[c]
      new == Patched(m.held[n], m.req, m.ids)
  IN  /\ m.pc = "apply" /\ m.held[n] # Absent
      /\ \/ /\ new # m.held[n]
            /\ tags' = [tags EXCEPT ![n] = new]
            /\ Become(c, Applied([m EXCEPT !.last = FALSE], n))
            /\ UNCHANGED faults
         \/ /\ new = m.held[n]
            /\ Become(c, Applied(m, n))
            /\ UNCHANGED <<tags, faults>>
         \/ /\ new # m.held[n] /\ Fault
            /\ Become(c, Applied([m EXCEPT !.last = TRUE], n))
            /\ UNCHANGED tags
      /\ UNCHANGED <<images, smComp, kvMutex>>

-----------------------------------------------------------------------------
(* Remove: each record that was found is deleted, errors do not stop it.   *)

DeleteRecord(c) ==
  /\ cl[c].pc = "delete"
  /\ \/ /\ tags' = [tags EXCEPT ![Head(cl[c].chain)] = Absent]
        /\ Become(c, NextName(cl[c]))
        /\ UNCHANGED faults
     \/ Fault /\ Become(c, NextName([cl[c] EXCEPT !.err = TRUE])) /\ UNCHANGED tags
  /\ UNCHANGED <<images, smComp, kvMutex>>

(* removeImage has come to its end, with the outcome of its last write.    *)
Dropped(m, failed) ==
  ToDrop([m EXCEPT !.err = @ \/ failed, !.last = FALSE, !.held = NoCopies],
         FieldAfter(m.fld))

(* The image is looked up without the mutex; an error counts as not found. *)
FindDropped(c) ==
  /\ cl[c].pc = "drop"
  /\ \/ /\ images[Asked(c)] # Absent
        /\ Become(c, [cl[c] EXCEPT !.pc = "delimage"])
        /\ UNCHANGED faults
     \/ /\ ReadsAbsent(images[Asked(c)])
        /\ Become(c, Dropped(cl[c], FALSE))
  /\ UNCHANGED <<tags, images, smComp, kvMutex>>

DeleteImage(c) ==
  /\ cl[c].pc = "delimage"
  /\ \/ /\ images' = [images EXCEPT ![Asked(c)] = Absent]
        /\ Become(c, [cl[c] EXCEPT !.pc = "gettags"])
        /\ UNCHANGED faults
     \/ Fault /\ Become(c, Dropped(cl[c], TRUE)) /\ UNCHANGED images
  /\ UNCHANGED <<tags, smComp, kvMutex>>

(* Mutant: whatever the image, the kernels of the records are compared.    *)
ReadKernelReferrers(c) ==
  LET m == cl[c]
      refers(n) == tags[n] # Absent /\ tags[n].kernel = Asked(c)
      copies == [n \in Name |-> IF refers(n) THEN tags[n] ELSE Absent]
  IN  /\ m.pc = "gettags"
      /\ \/ /\ Become(c, IF copies = NoCopies THEN Dropped(m, FALSE)
                         ELSE [m EXCEPT !.pc = "sweep", !.held = copies])
            /\ UNCHANGED faults
         \/ Fault /\ Become(c, Dropped(m, TRUE))
      /\ UNCHANGED <<tags, images, smComp, kvMutex>>

(* Then the records that refer to it are read, all at once,                *)
ReadReferrers(c) ==
  LET m == cl[c]
      refers(n) == tags[n] # Absent /\ tags[n][m.fld] = Asked(c)
      copies == [n \in Name |-> IF refers(n) THEN tags[n] ELSE Absent]
  IN  /\ m.pc = "gettags"
      /\ \/ /\ Become(c, IF copies = NoCopies THEN Dropped(m, FALSE)
                         ELSE [m EXCEPT !.pc = "sweep", !.held = copies])
            /\ UNCHANGED faults
         \/ Fault /\ Become(c, Dropped(m, TRUE))
      /\ UNCHANGED <<tags, images, smComp, kvMutex>>

(* and written back from the copies, without the reference.                *)
Sweep(c, n) ==
  LET m == cl[c]
      swept(failed) ==
        LET d == [m EXCEPT !.held[n] = Absent, !.last = failed]
        IN  IF d.held = NoCopies THEN Dropped(d, failed) ELSE d
  IN  /\ m.pc = "sweep" /\ m.held[n] # Absent
      /\ \/ /\ tags' = [tags EXCEPT ![n] = [m.held[n] EXCEPT ![m.fld] = None]]
            /\ Become(c, swept(FALSE))
            /\ UNCHANGED faults
         \/ Fault /\ Become(c, swept(TRUE)) /\ UNCHANGED tags
      /\ UNCHANGED <<images, smComp, kvMutex>>

-----------------------------------------------------------------------------
ImageStore(c) == ImageKnown(c) \/ ImageUnknown(c)

Step(c) ==
  \/ Resolve(c) \/ ReadFound(c) \/ ReadNothing(c) \/ FetchImage(c)
  \/ AddImage(c) \/ AddImageFails(c) \/ SetImage(c)
  \/ WriteName(c) \/ WriteFails(c) \/ (\E n \in Name : ApplyPatch(c, n))
  \/ DeleteRecord(c) \/ FindDropped(c) \/ DeleteImage(c) \/ ReadReferrers(c)
  \/ (\E n \in Name : Sweep(c, n))

Next == Discover \/ \E c \in Client : Begin(c) \/ FindImage(c) \/ ImageStore(c) \/ Step(c)

Spec == Init /\ [][Next]_vars

(* A handler that has started runs on; sync.Mutex starves no waiter.       *)
Fairness ==
  \A c \in Client : WF_vars(Step(c)) /\ SF_vars(FindImage(c) \/ ImageStore(c))

FairSpec == Spec /\ Fairness

-----------------------------------------------------------------------------
State == [pc : Pc, req : Request, fld : Field, todo : SUBSET Name,
          chain : Seq(Name), held : [Name -> Record \union {Absent}],
          ids : [kernel : Kernel \union {None}, initrd : Initrd \union {None}],
          err : BOOLEAN, last : BOOLEAN]

TypeOK ==
  /\ tags \in [Name -> Record \union {Absent}]
  /\ images \in [Image -> Params \union {None, Absent}]
  /\ smComp \in [Alias -> Host \union {None}]
  /\ kvMutex \in Client \union {Free}
  /\ cl \in [Client -> State]
  /\ faults \in 0 .. MaxFaults

(***************************************************************************)
(* A lone client and no failures: the store is BootStore's table, where a  *)
(* reference to an image that is not there counts as none.  Deleting an    *)
(* image is then one step, and the sweep over the records changes nothing  *)
(* a lookup could tell.                                                    *)
(***************************************************************************)
Ref(i) == IF i # None /\ images[i] = Absent THEN None ELSE i
View(rec) == IF rec = Absent THEN Absent
             ELSE [rec EXCEPT !.kernel = Ref(@), !.initrd = Ref(@)]

Table == INSTANCE BootStore
           WITH ask <- cl[CHOOSE c \in Client : TRUE].req,
                conf <- [n \in Name |-> View(tags[n])], image <- images, comp <- smComp

(* Every step of the handlers is one of the table's or is not visible.     *)
ImplementsBootStore == Table!Spec

(* A record only names images that are there: Store and Update get their   *)
(* keys from imageStore before they write.  With no DELETE of images,      *)
(* whatever fails and however the handlers interleave.                     *)
RefsExist ==
  \A n \in Name, f \in Field :
    tags[n] # Absent /\ tags[n][f] # None => images[tags[n][f]] # Absent

(* While nothing failed, imageStore does not reset the parameters of an    *)
(* image it found missing: kvMutex makes its look and its Store one.       *)
ImageParamsKept ==
  [][faults' = 0 => \A c \in Client, i \in Image :
       AddImage(c) /\ images[i] # Absent => images'[i] = images[i]]_vars

(* Without failures a lookup serves every image its record names, although *)
(* it reads the record and the images one by one.                          *)
ServedWhole ==
  faults = 0 =>
    \A c \in Client, n \in Name :
      cl[c].pc = "ok" /\ cl[c].held[n] # Absent =>
        \A f \in Field : cl[c].ids[f] = cl[c].held[n][f]

(* A lone client that is told its PUT or DELETE succeeded finds every name *)
(* stored, or every host gone, although each was an access of its own that *)
(* may have failed.                                                        *)
SuccessIsComplete ==
  \A c \in Client :
    LET r == cl[c].req
        asked == [params |-> r.params, kernel |-> r.kernel, initrd |-> r.initrd]
    IN  cl[c].pc = "ok" =>
          /\ r.method = "PUT" => \A n \in Targets(r) :
               asked \in {tags[k] : k \in {n, KeyOf(n)}}
          /\ r.method = "DELETE" => \A h \in r.hosts : tags[h] = Absent

(* Every request is answered.                                              *)
RequestsEnd == \A c \in Client : cl[c].pc \notin Done ~> cl[c].pc \in Done

(* boot_data.go, on Update: it "will update entries but not NULL out       *)
(* existing entries".                                                      *)
NotNulledOut ==
  [][\A c \in Client, n \in Name, f \in Field :
       ApplyPatch(c, n) /\ tags[n] # Absent /\ tags[n][f] # None
         => tags'[n][f] # None]_vars

(* swagger.yaml, PATCH: an update is made "while retaining existing        *)
(* settings for the kernel and initrd settings".                           *)
PatchRetains ==
  [][\A c \in Client, n \in Name, f \in Field :
       ApplyPatch(c, n) /\ tags[n] # Absent /\ cl[c].req[f] = None
         => tags'[n][f] = tags[n][f]]_vars

(* swagger.yaml, POST: "If an entry already exists for the host, this      *)
(* request will fail", and StoreNew's "We must be storing to new hosts or  *)
(* this request must fail": the first write of a POST is to a free name.   *)
PostStoresNew ==
  [][\A c \in Client, n \in Name :
       WriteName(c) /\ cl[c].req.method = "POST" /\ tags'[n] # tags[n]
         => tags[n] = Absent]_vars

(* imageStore on an image that it finds: "This path is already stored,     *)
(* return the key for it", so the entry is not written again.              *)
StoredImageIsReturned ==
  [][\A c \in Client, i \in Image :
       AddImage(c) /\ images[i] # Absent => images'[i] = images[i]]_vars

(* swagger.yaml, PATCH, response 200: "Successfully update boot            *)
(* parameters", said to a lone client of every record it named by host.    *)
PatchSuccessIsComplete ==
  \A c \in Client :
    LET r == cl[c].req IN
    cl[c].pc = "ok" /\ r.method = "PATCH" /\ r.params # None =>
      \A h \in r.hosts : tags[h] # Absent /\ tags[h].params = r.params

(* swagger.yaml, DELETE: "the image entry is removed, and the references   *)
(* by any existing hosts are removed": when every request is answered, no  *)
(* record refers to an image that is not there.                            *)
NoDanglingReference == (\A c \in Client : cl[c].pc \in Done) => RefsExist

(* The same sentence, for a lone client that is told of success: "the      *)
(* image entry is removed, and the references by any existing hosts are    *)
(* removed".                                                               *)
ImageIsRemoved ==
  \A c \in Client, f \in Field :
    LET i == cl[c].req[f] IN
    cl[c].pc = "ok" /\ cl[c].req.method = "DELETE" /\ i # None =>
      /\ images[i] = Absent
      /\ \A n \in Name : tags[n] # Absent => tags[n][f] # i

(* And of the sweep that it describes: it takes the reference out of a     *)
(* host that exists, and leaves the rest of the host's record as it is.    *)
SweepRemovesOnlyReference ==
  [][\A c \in Client, n \in Name :
       Sweep(c, n) /\ tags'[n] # tags[n]
         => tags[n] # Absent /\ tags'[n] = [tags[n] EXCEPT ![cl[c].fld] = None]]_vars

(* boot_data.go, on lookup: the alternate name, the role and the default   *)
(* are for a name that "does not have boot parameter data".                *)
FallbackIsForAbsent ==
  [][\A c \in Client :
       ReadNothing(c) /\ cl[c].req.method = "GET"
         => tags[Head(cl[c].chain)] = Absent]_vars

=============================================================================
