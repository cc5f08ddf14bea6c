---------------------------- MODULE TarballCache ----------------------------
(***************************************************************************)
(* The cache of boot and root tarballs that the dispatchers of one host    *)
(* share (lava_dispatcher/tarballcache.py), used by deploy_linaro_prebuilt *)
(* of a health check. The file system is modelled down to its inodes:      *)
(* os.link makes a cached tarball and the one in a job's scratch directory *)
(* the same file, and tar truncates a file that is already there.          *)
(***************************************************************************)
EXTENDS Naturals

CONSTANTS
  Dispatcher, (* dispatcher processes of the host                          *)
  Url,        (* image URLs                                                *)
  Key,        (* cache directories                                         *)
  KeyOf,      (* the cache directory of a URL (_cache_locked)              *)
  Deploys,    (* deployments one job may ask for                           *)
  MaxRuns,    (* bound: jobs one dispatcher slot runs                      *)
  NoFile,     (* no such name in a directory                               *)
  Torn,       (* what is in a file whose writer has not finished           *)
  NoOne       (* nobody holds the lock                                     *)

Name == {"boot", "root"}

(* A tarball is the file some job's tar created under some name.           *)
Inode == Dispatcher \X (1..MaxRuns) \X Name

ASSUME CacheAssumption ==
  /\ KeyOf \in [Url -> Key]
  /\ Deploys \in Nat /\ MaxRuns \in Nat
  /\ NoFile \notin Inode /\ NoFile \notin Url
  /\ Torn \notin Url /\ Torn # NoFile
  /\ NoOne \notin Dispatcher

VARIABLES
  pc,       (* where each process stands in its deployment                 *)
  run,      (* how many jobs this slot has started                         *)
  left,     (* deployments the job still has to do                         *)
  url,      (* the image being deployed                                    *)
  distro,   (* the distro get_tarballs returns                             *)
  scratch,  (* scratch_dir: boot.tgz and root.tgz                          *)
  lock,     (* the holder of cachedir/lockfile                             *)
  cache,    (* cachedir: boot.tgz and root.tgz                             *)
  label,    (* cachedir: the distro file, by the image it was written for  *)
  data      (* the image each tarball was made from                        *)

local == <<run, left, url, distro>>
files == <<scratch, cache, label, data>>
vars == <<pc, local, lock, files>>

Empty == [m \in Name |-> NoFile]

Init ==
  /\ pc = [d \in Dispatcher |-> "off"]
  /\ run = [d \in Dispatcher |-> 0]
  /\ left = [d \in Dispatcher |-> 0]
  /\ url \in [Dispatcher -> Url]
  /\ distro = [d \in Dispatcher |-> NoFile]
  /\ scratch = [d \in Dispatcher |-> Empty]
  /\ lock = [k \in Key |-> NoOne]
  /\ cache = [k \in Key |-> Empty]
  /\ label = [k \in Key |-> NoFile]
  /\ data = [i \in Inode |-> Torn]

Dir(d) == KeyOf[url[d]]

Goto(d, l) == pc' = [pc EXCEPT ![d] = l]

----------------------------------------------------------------------------
(* The job around get_tarballs.                                            *)

(* A new process, with a scratch directory of its own.                     *)
Begin(d) ==
  /\ pc[d] = "off" /\ run[d] < MaxRuns
  /\ Goto(d, "idle")
  /\ run' = [run EXCEPT ![d] = @ + 1]
  /\ left' = [left EXCEPT ![d] = Deploys]
  /\ scratch' = [scratch EXCEPT ![d] = Empty]
  /\ UNCHANGED <<url, distro, lock, cache, label, data>>

Ask(d, u) ==
  /\ pc[d] = "idle" /\ left[d] > 0
  /\ Goto(d, "lock")
  /\ left' = [left EXCEPT ![d] = @ - 1]
  /\ url' = [url EXCEPT ![d] = u]
  /\ UNCHANGED <<run, distro, lock, files>>

(* _deploy_tarballs: the master image of the target fetches the tarballs   *)
(* of the scratch directory; the lock was released before that.            *)
Deploy(d) ==
  /\ pc[d] = "deploy"
  /\ Goto(d, "idle")
  /\ UNCHANGED <<local, lock, files>>

Unlock(d) == lock' = [k \in Key |-> IF lock[k] = d THEN NoOne ELSE lock[k]]

StopHolding(d) ==
  /\ pc[d] # "off"
  /\ Goto(d, "off")
  /\ UNCHANGED <<local, lock, files>>

(* The process is over: the job has ended, an exception came out of        *)
(* get_tarballs and aborted it (the finally clause unlocks), or it was     *)
(* killed (the kernel drops the lock). What it wrote stays as it is.       *)
Stop(d) ==
  /\ pc[d] # "off"
  /\ Goto(d, "off")
  /\ Unlock(d)
  /\ UNCHANGED <<local, files>>

----------------------------------------------------------------------------
(* get_tarballs: the cache is found complete.                              *)

LockAnyway(d) ==
  /\ pc[d] = "lock"
  /\ Goto(d, "look")
  /\ lock' = [lock EXCEPT ![Dir(d)] = d]
  /\ UNCHANGED <<local, files>>

Lock(d) ==
  /\ pc[d] = "lock" /\ lock[Dir(d)] = NoOne
  /\ Goto(d, "look")
  /\ lock' = [lock EXCEPT ![Dir(d)] = d]
  /\ UNCHANGED <<local, files>>

Complete(k) == \A m \in Name : cache[k][m] # NoFile

LookBackwards(d) ==
  /\ pc[d] = "look"
  /\ IF Complete(Dir(d)) /\ label[Dir(d)] = NoFile
     THEN Goto(d, "take")
     ELSE Goto(d, "clear boot")
  /\ UNCHANGED <<local, lock, files>>

Look(d) ==
  /\ pc[d] = "look"
  /\ IF Complete(Dir(d)) /\ label[Dir(d)] # NoFile
     THEN /\ Goto(d, "take")
          /\ distro' = [distro EXCEPT ![d] = label[Dir(d)]]
     ELSE /\ Goto(d, "clear boot")
          /\ UNCHANGED distro
  /\ UNCHANGED <<run, left, url, lock, files>>

(* _link to the scratch directory.                                         *)
TakeLinks(d) ==
  /\ pc[d] = "take" /\ scratch[d] = Empty
  /\ scratch' = [scratch EXCEPT ![d] = cache[Dir(d)]]
  /\ Goto(d, "unlock")
  /\ UNCHANGED <<local, lock, cache, label, data>>

(* Tarballs of an earlier deployment in the scratch directory: EEXIST.     *)
Take(d) == IF scratch[d] = Empty THEN TakeLinks(d) ELSE pc[d] = "take" /\ Stop(d)

----------------------------------------------------------------------------
(* get_tarballs: the cache is built, or built again.                       *)

(* _clear_cache removes what there is, one name after the other.           *)
Clear(d) ==
  /\ \/ /\ pc[d] = "clear boot" /\ Goto(d, "clear root")
        /\ cache' = [cache EXCEPT ![Dir(d)]["boot"] = NoFile]
        /\ UNCHANGED label
     \/ /\ pc[d] = "clear root" /\ Goto(d, "clear distro")
        /\ cache' = [cache EXCEPT ![Dir(d)]["root"] = NoFile]
        /\ UNCHANGED label
     \/ /\ pc[d] = "clear distro" /\ Goto(d, "download")
        /\ label' = [label EXCEPT ![Dir(d)] = NoFile]
        /\ UNCHANGED cache
  /\ UNCHANGED <<local, lock, scratch, data>>

Download(d) ==
  /\ pc[d] = "download" /\ Goto(d, "create boot")
  /\ UNCHANGED <<local, lock, files>>

CreateInCache(d, m) ==
  /\ \/ m = "boot" /\ pc[d] = "create boot" /\ Goto(d, "write boot")
     \/ m = "root" /\ pc[d] = "create root" /\ Goto(d, "write root")
  /\ LET i == <<d, run[d], m>>
     IN /\ scratch' = [scratch EXCEPT ![d][m] = i]
        /\ cache' = [cache EXCEPT ![Dir(d)][m] = i]
        /\ data' = [data EXCEPT ![i] = Torn]
  /\ UNCHANGED <<local, lock, label>>

(* tar -czf opens the scratch tarball: a new file, or the old one cut to   *)
(* nothing. The next step finishes it.                                     *)
Create(d, m) ==
  /\ \/ m = "boot" /\ pc[d] = "create boot" /\ Goto(d, "write boot")
     \/ m = "root" /\ pc[d] = "create root" /\ Goto(d, "write root")
  /\ LET i == IF scratch[d][m] = NoFile THEN <<d, run[d], m>> ELSE scratch[d][m]
     IN /\ scratch' = [scratch EXCEPT ![d][m] = i]
        /\ data' = [data EXCEPT ![i] = Torn]
  /\ UNCHANGED <<local, lock, cache, label>>

Write(d, m) ==
  /\ \/ m = "boot" /\ pc[d] = "write boot" /\ Goto(d, "create root")
     \/ m = "root" /\ pc[d] = "write root" /\ Goto(d, "open distro")
  /\ data' = [data EXCEPT ![scratch[d][m]] = url[d]]
  /\ UNCHANGED <<local, lock, scratch, cache, label>>

OpenDistro(d) ==
  /\ pc[d] = "open distro" /\ Goto(d, "write distro")
  /\ label' = [label EXCEPT ![Dir(d)] = Torn]
  /\ UNCHANGED <<local, lock, scratch, cache, data>>

WriteDistro(d) ==
  /\ pc[d] = "write distro" /\ Goto(d, "link boot")
  /\ label' = [label EXCEPT ![Dir(d)] = url[d]]
  /\ distro' = [distro EXCEPT ![d] = url[d]]
  /\ UNCHANGED <<run, left, url, lock, scratch, cache, data>>

(* _link to the cache: these two make the entry complete.                  *)
Publish(d, m) ==
  /\ \/ m = "boot" /\ pc[d] = "link boot" /\ Goto(d, "link root")
     \/ m = "root" /\ pc[d] = "link root" /\ Goto(d, "unlock")
  /\ cache[Dir(d)][m] = NoFile
  /\ cache' = [cache EXCEPT ![Dir(d)][m] = scratch[d][m]]
  /\ UNCHANGED <<local, lock, scratch, label, data>>

Return(d) ==
  /\ pc[d] = "unlock" /\ Goto(d, "deploy")
  /\ Unlock(d)
  /\ UNCHANGED <<local, files>>

Step(d) ==
  \/ Look(d) \/ Take(d) \/ Clear(d) \/ Download(d)
  \/ \E m \in Name : Create(d, m) \/ Write(d, m) \/ Publish(d, m)
  \/ OpenDistro(d) \/ WriteDistro(d) \/ Return(d) \/ Deploy(d)

DispatcherStep(d) ==
  \/ Begin(d) \/ \E u \in Url : Ask(d, u)
  \/ Lock(d) \/ Step(d) \/ Stop(d)

Next == \E d \in Dispatcher : DispatcherStep(d)

Spec == Init /\ [][Next]_vars

(* A process that is not killed runs on, and the kernel does not starve a  *)
(* waiter for ever. Stop is not fair: no process is bound to fail.         *)
FairSpec == Spec /\ \A d \in Dispatcher : WF_vars(Step(d)) /\ SF_vars(Lock(d))

----------------------------------------------------------------------------

Label == {"off", "idle", "lock", "look", "take", "clear boot", "clear root",
          "clear distro", "download", "create boot", "write boot", "create root",
          "write root", "open distro", "write distro", "link boot", "link root",
          "unlock", "deploy"}

(* Types of the variables above.                                           *)
TypeOK ==
  /\ pc \in [Dispatcher -> Label]
  /\ run \in [Dispatcher -> 0..MaxRuns]
  /\ left \in [Dispatcher -> 0..Deploys]
  /\ url \in [Dispatcher -> Url]
  /\ distro \in [Dispatcher -> Url \cup {NoFile}]
  /\ scratch \in [Dispatcher -> [Name -> Inode \cup {NoFile}]]
  /\ lock \in [Key -> Dispatcher \cup {NoOne}]
  /\ cache \in [Key -> [Name -> Inode \cup {NoFile}]]
  /\ label \in [Key -> Url \cup {Torn, NoFile}]
  /\ data \in [Inode -> Url \cup {Torn}]

(* Whatever crashes, a cache directory in which both tarballs exist can be *)
(* trusted: they and the distro file are whole and made from one image.    *)
(* That is what the test of lines 52 to 54 takes for granted.              *)
CompleteIsSound ==
  \A k \in Key : Complete(k) =>
    \E u \in Url : KeyOf[u] = k /\ label[k] = u /\ \A m \in Name : data[cache[k][m]] = u

(* A target is given the tarballs and the distro of the image its job      *)
(* asked for, although they are read after the lock was released.          *)
RightImage ==
  \A d \in Dispatcher : pc[d] = "deploy" =>
    /\ distro[d] = url[d]
    /\ \A m \in Name : scratch[d][m] # NoFile /\ data[scratch[d][m]] = url[d]

(* A complete entry is final: it is never cleared or built again, so that  *)
(* an image is converted once however many dispatchers ask for it.         *)
BuiltOnce == [][\A k \in Key : Complete(k) => cache'[k] = cache[k]]_vars

(* A dispatcher that waits for the lock of an image gets its tarballs or   *)
(* fails, although holders are killed at any point.                        *)
GetReturns == \A d \in Dispatcher : pc[d] = "lock" ~> pc[d] \in {"deploy", "off"}
=============================================================================
