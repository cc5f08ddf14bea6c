------------------------- MODULE TarballCacheProofs -------------------------
(***************************************************************************)
(* Proofs about TarballCache, for any number of dispatchers, images and    *)
(* jobs, when a job deploys at most once and no two images share a cache   *)
(* directory: the two runs that violate RightImage show that neither       *)
(* condition can be dropped.                                               *)
(***************************************************************************)
EXTENDS TarballCache, TLAPS

Separate == /\ Deploys = 1
            /\ \A u, v \in Url : KeyOf[u] = KeyOf[v] => u = v

(* Between Lock and Return a process is alone in its cache directory.      *)
Critical == Label \ {"off", "idle", "lock", "deploy"}

Held == \A d \in Dispatcher : pc[d] \in Critical => lock[Dir(d)] = d

(* Nothing this process will do writes to its own tarballs any more.       *)
Quiet(d) == \/ pc[d] \in {"off", "open distro", "write distro", "link boot",
                          "link root", "unlock", "deploy"}
            \/ pc[d] = "idle" /\ left[d] = 0

(* A tarball nobody will write to: of an earlier job, or of a quiet one.   *)
Final(i) == i[2] < run[i[1]] \/ (i[2] = run[i[1]] /\ Quiet(i[1]))

Mine(d, m) == scratch[d][m] = <<d, run[d], m>>
Made(d, m) == Mine(d, m) /\ data[<<d, run[d], m>>] = url[d]

Filling == {"download", "create boot", "write boot", "create root", "write root",
            "open distro", "write distro", "link boot"}

(* The scratch directory, by where the process stands.                     *)
ScratchStage(d) ==
  /\ pc[d] # "off" => run[d] > 0
  /\ pc[d] \notin {"off", "idle"} => left[d] = 0
  /\ pc[d] \in {"lock", "look", "take", "clear boot", "clear root", "clear distro",
                "download", "create boot"} => scratch[d] = Empty
  /\ pc[d] = "idle" /\ left[d] > 0 => scratch[d] = Empty
  /\ pc[d] = "write boot" => Mine(d, "boot") /\ scratch[d]["root"] = NoFile
  /\ pc[d] = "create root" => Made(d, "boot") /\ scratch[d]["root"] = NoFile
  /\ pc[d] = "write root" => Made(d, "boot") /\ Mine(d, "root")
  /\ pc[d] \in {"open distro", "write distro", "link boot", "link root"} =>
       Made(d, "boot") /\ Made(d, "root")
  /\ pc[d] \in {"unlock", "deploy"} =>
       /\ distro[d] = url[d]
       /\ \A m \in Name : /\ scratch[d][m] # NoFile /\ Final(scratch[d][m])
                          /\ data[scratch[d][m]] = url[d]

(* The cache directory, by where the process that holds it stands.         *)
CacheStage(d) ==
  /\ pc[d] = "take" => Complete(Dir(d)) /\ distro[d] = label[Dir(d)]
  /\ pc[d] = "clear boot" => ~Complete(Dir(d))
  /\ pc[d] \in {"clear root", "clear distro"} => cache[Dir(d)]["boot"] = NoFile
  /\ pc[d] = "clear distro" => cache[Dir(d)]["root"] = NoFile
  /\ pc[d] \in Filling => cache[Dir(d)] = Empty
  /\ pc[d] = "link root" => cache[Dir(d)]["root"] = NoFile
  /\ pc[d] \in {"link boot", "link root"} => label[Dir(d)] = url[d] /\ distro[d] = url[d]

(* What a cache directory holds, whoever wrote it.                         *)
Entry(k) ==
  /\ \A m \in Name : cache[k][m] # NoFile =>
       /\ Final(cache[k][m])
       /\ data[cache[k][m]] \in Url /\ KeyOf[data[cache[k][m]]] = k
  /\ label[k] \in Url => KeyOf[label[k]] = k
  /\ Complete(k) => label[k] \in Url

CacheInv ==
  /\ TypeOK /\ Held
  /\ \A d \in Dispatcher : ScratchStage(d) /\ CacheStage(d)
  /\ \A k \in Key : Entry(k)

----------------------------------------------------------------------------
(* What a step of one process leaves alone.                                *)

LEMMA DirIsKey == ASSUME TypeOK, NEW d \in Dispatcher PROVE Dir(d) \in Key
BY CacheAssumption DEF CacheAssumption, TypeOK, Dir

(* One action per case: the split every proof about a step uses.           *)
LEMMA StepCases ==
  ASSUME NEW d \in Dispatcher, DispatcherStep(d)
  PROVE  \/ Begin(d) \/ \E u \in Url : Ask(d, u)
         \/ Lock(d) \/ Stop(d) \/ Look(d) \/ TakeLinks(d) \/ Clear(d) \/ Download(d)
         \/ Create(d, "boot") \/ Create(d, "root")
         \/ Write(d, "boot") \/ Write(d, "root")
         \/ Publish(d, "boot") \/ Publish(d, "root")
         \/ OpenDistro(d) \/ WriteDistro(d) \/ Return(d) \/ Deploy(d)
BY DEF DispatcherStep, Step, Take, Name

LEMMA OthersLocal ==
  ASSUME TypeOK, NEW d \in Dispatcher, DispatcherStep(d), NEW e \in Dispatcher, e # d
  PROVE  /\ pc'[e] = pc[e] /\ run'[e] = run[e] /\ left'[e] = left[e]
         /\ url'[e] = url[e] /\ distro'[e] = distro[e] /\ scratch'[e] = scratch[e]
<1>1. CASE Begin(d) \/ (\E u \in Url : Ask(d, u)) \/ Lock(d) \/ Stop(d)
  BY <1>1 DEF TypeOK, Begin, Ask, Lock, Stop, Goto, local, files
<1>2. CASE Look(d) \/ TakeLinks(d) \/ Clear(d) \/ Download(d)
  BY <1>2 DEF TypeOK, Look, TakeLinks, Clear, Download, Goto, local, files
<1>3. CASE \/ Create(d, "boot") \/ Create(d, "root") \/ Write(d, "boot") \/ Write(d, "root")
           \/ Publish(d, "boot") \/ Publish(d, "root")
  BY <1>3 DEF TypeOK, Create, Write, Publish, Goto, local, files
<1>4. CASE OpenDistro(d) \/ WriteDistro(d) \/ Return(d) \/ Deploy(d)
  BY <1>4 DEF TypeOK, OpenDistro, WriteDistro, Return, Deploy, Goto, local, files
<1> QED BY <1>1, <1>2, <1>3, <1>4, StepCases

LEMMA OtherDirs ==
  ASSUME TypeOK, NEW d \in Dispatcher, DispatcherStep(d), NEW k \in Key,
         ~(pc[d] \in Critical /\ k = Dir(d))
  PROVE  cache'[k] = cache[k] /\ label'[k] = label[k]
<1>1. CASE Begin(d) \/ (\E u \in Url : Ask(d, u)) \/ Lock(d) \/ Stop(d)
  BY <1>1 DEF TypeOK, Begin, Ask, Lock, Stop, local, files
<1>2. CASE Look(d) \/ TakeLinks(d) \/ Clear(d) \/ Download(d)
  BY <1>2 DEF TypeOK, Look, TakeLinks, Clear, Download, local, files, Critical, Label
<1>3. CASE \/ Create(d, "boot") \/ Create(d, "root") \/ Write(d, "boot") \/ Write(d, "root")
           \/ Publish(d, "boot") \/ Publish(d, "root")
  BY <1>3 DEF TypeOK, Create, Write, Publish, local, files, Critical, Label
<1>4. CASE OpenDistro(d) \/ WriteDistro(d) \/ Return(d) \/ Deploy(d)
  BY <1>4 DEF TypeOK, OpenDistro, WriteDistro, Return, Deploy, local, files, Critical, Label
<1> QED BY <1>1, <1>2, <1>3, <1>4, StepCases

(* Only the holder lets go of a lock.                                      *)
LEMMA OtherLocks ==
  ASSUME TypeOK, NEW d \in Dispatcher, DispatcherStep(d), NEW k \in Key,
         lock[k] \notin {d, NoOne}
  PROVE  lock'[k] = lock[k]
<1>1. CASE Begin(d) \/ (\E u \in Url : Ask(d, u)) \/ Lock(d) \/ Stop(d)
  BY <1>1 DEF TypeOK, Begin, Ask, Lock, Stop, Unlock, local, files
<1>2. CASE Look(d) \/ TakeLinks(d) \/ Clear(d) \/ Download(d)
  BY <1>2 DEF Look, TakeLinks, Clear, Download, local, files
<1>3. CASE \/ Create(d, "boot") \/ Create(d, "root") \/ Write(d, "boot") \/ Write(d, "root")
           \/ Publish(d, "boot") \/ Publish(d, "root")
  BY <1>3 DEF Create, Write, Publish
<1>4. CASE OpenDistro(d) \/ WriteDistro(d) \/ Return(d) \/ Deploy(d)
  BY <1>4 DEF TypeOK, OpenDistro, WriteDistro, Return, Deploy, Unlock, local, files
<1> QED BY <1>1, <1>2, <1>3, <1>4, StepCases

(* A process writes to its own tarballs of this job only, while not quiet. *)
LEMMA OtherData ==
  ASSUME TypeOK, NEW d \in Dispatcher, ScratchStage(d), DispatcherStep(d), NEW i \in Inode,
         i[1] # d \/ i[2] # run[d] \/ Quiet(d)
  PROVE  data'[i] = data[i]
<1>1. CASE Begin(d) \/ (\E u \in Url : Ask(d, u)) \/ Lock(d) \/ Stop(d)
  BY <1>1 DEF Begin, Ask, Lock, Stop, files
<1>2. CASE Look(d) \/ TakeLinks(d) \/ Clear(d) \/ Download(d)
  BY <1>2 DEF Look, TakeLinks, Clear, Download, files
<1>3. CASE Create(d, "boot") \/ Create(d, "root")
  <2>1. ~Quiet(d)
    BY <1>3 DEF Create, Quiet
  <2>2. \E m \in Name : data' = [data EXCEPT ![<<d, run[d], m>>] = Torn]
    BY <1>3 DEF Create, ScratchStage, Empty, Name
  <2> QED BY <2>1, <2>2 DEF TypeOK, Inode
<1>4. CASE Write(d, "boot") \/ Write(d, "root")
  <2>1. ~Quiet(d)
    BY <1>4 DEF Write, Quiet
  <2>2. \E m \in Name : data' = [data EXCEPT ![<<d, run[d], m>>] = url[d]]
    BY <1>4 DEF Write, ScratchStage, Mine, Made, Name
  <2> QED BY <2>1, <2>2 DEF TypeOK, Inode
<1>5. CASE \/ Publish(d, "boot") \/ Publish(d, "root")
           \/ OpenDistro(d) \/ WriteDistro(d) \/ Return(d) \/ Deploy(d)
  BY <1>5 DEF Publish, OpenDistro, WriteDistro, Return, Deploy, files
<1> QED BY <1>1, <1>2, <1>3, <1>4, <1>5, StepCases

LEMMA FinalStays ==
  ASSUME TypeOK, NEW d \in Dispatcher, ScratchStage(d), DispatcherStep(d), NEW i \in Inode,
         Final(i)
  PROVE  Final(i)' /\ data'[i] = data[i]
<1>1. data'[i] = data[i]
  <2>1. i[1] # d \/ i[2] # run[d] \/ Quiet(d)
    BY DEF Final, Inode, TypeOK
  <2> QED BY <2>1, OtherData
<1>2. CASE i[1] # d
  BY <1>1, <1>2, OthersLocal DEF Final, Quiet, Inode
<1>3. CASE i[1] = d
  <2>1. CASE Begin(d)
    BY <1>3, <2>1 DEF Begin, Final, Inode, TypeOK
  <2>2. ~Begin(d) => run'[d] = run[d]
    BY StepCases DEF Begin, Ask, Lock, Stop, Look, TakeLinks, Clear, Download, Create, Write,
       Publish, OpenDistro, WriteDistro, Return, Deploy, local
  <2>3. CASE ~Begin(d) /\ Quiet(d)
    <3>0. ASSUME NEW u \in Url, Ask(d, u) PROVE FALSE
      <4>1. pc[d] = "idle" /\ left[d] > 0
        BY <3>0 DEF Ask
      <4>2. ~(left[d] = 0)
        BY <4>1
      <4> QED BY <2>3, <4>1, <4>2 DEF Quiet
    <3>1. Lock(d) \/ Stop(d) => Quiet(d)'
      BY <2>3 DEF Quiet, Lock, Stop, Goto, TypeOK
    <3>2. ASSUME \/ Publish(d, "boot") \/ Publish(d, "root")
                 \/ OpenDistro(d) \/ WriteDistro(d) \/ Return(d)
          PROVE  Quiet(d)'
      BY <3>2 DEF Quiet, Publish, OpenDistro, WriteDistro, Return, Goto, TypeOK
    <3>3. Deploy(d) => Quiet(d)'
      BY DEF Quiet, Deploy, Goto, local, TypeOK, ScratchStage
    <3>4. Look(d) \/ TakeLinks(d) \/ Clear(d) \/ Download(d) => Quiet(d)'
      BY <2>3 DEF Quiet, Look, TakeLinks, Clear, Download, Goto, TypeOK
    <3>5. ASSUME \/ Create(d, "boot") \/ Create(d, "root")
                 \/ Write(d, "boot") \/ Write(d, "root")
          PROVE  Quiet(d)'
      BY <2>3, <3>5 DEF Quiet, Create, Write, Goto, TypeOK
    <3>6. Quiet(d)'
      BY <2>3, <3>0, <3>1, <3>2, <3>3, <3>4, <3>5, StepCases
    <3> QED BY <1>1, <1>3, <2>2, <2>3, <3>6 DEF Final
  <2>4. CASE ~Begin(d) /\ ~Quiet(d)
    BY <1>1, <1>3, <2>2, <2>4 DEF Final
  <2> QED BY <1>1, <2>1, <2>3, <2>4
<1> QED BY <1>1, <1>2, <1>3

----------------------------------------------------------------------------
(* What a step of d leaves true of every other process.                    *)

LEMMA OthersHeld ==
  ASSUME TypeOK, Held, NEW d \in Dispatcher, DispatcherStep(d),
         NEW e \in Dispatcher, e # d
  PROVE  pc'[e] \in Critical => (lock[Dir(e)])' = e
<1>1. Dir(e)' = Dir(e) /\ Dir(e) \in Key
  BY OthersLocal, DirIsKey DEF Dir
<1>2. SUFFICES ASSUME pc'[e] \in Critical
               PROVE  lock'[Dir(e)] = e
  BY <1>1
<1>3. lock[Dir(e)] = e
  BY <1>2, OthersLocal DEF Held
<1> QED BY <1>1, <1>3, OtherLocks, CacheAssumption DEF CacheAssumption

LEMMA OthersScratch ==
  ASSUME TypeOK, NEW d \in Dispatcher, ScratchStage(d), DispatcherStep(d),
         NEW e \in Dispatcher, e # d, ScratchStage(e)
  PROVE  ScratchStage(e)'
<1>1. /\ pc'[e] = pc[e] /\ run'[e] = run[e] /\ left'[e] = left[e]
      /\ url'[e] = url[e] /\ distro'[e] = distro[e] /\ scratch'[e] = scratch[e]
  BY OthersLocal
<1>2. ASSUME pc[e] # "off"
      PROVE  \A m \in Name : /\ Mine(e, m) => Mine(e, m)'
                             /\ Made(e, m) => Made(e, m)'
  <2> TAKE m \in Name
  <2>1. <<e, run[e], m>> \in Inode
    <3>1. run[e] \in 0..MaxRuns /\ run[e] > 0
      BY <1>2 DEF TypeOK, ScratchStage
    <3>2. run[e] \in 1..MaxRuns
      BY <3>1, CacheAssumption DEF CacheAssumption
    <3> QED BY <3>2 DEF Inode
  <2>2. data'[<<e, run[e], m>>] = data[<<e, run[e], m>>]
    BY <2>1, OtherData
  <2> QED BY <1>1, <2>1, <2>2 DEF Mine, Made
<1>3. \A m \in Name : scratch[e][m] # NoFile /\ Final(scratch[e][m]) =>
        Final(scratch[e][m])' /\ data'[scratch[e][m]] = data[scratch[e][m]]
  <2> TAKE m \in Name
  <2>1. scratch[e][m] # NoFile => scratch[e][m] \in Inode
    BY DEF TypeOK
  <2>2. \A i \in Inode : Final(i) => Final(i)' /\ data'[i] = data[i]
    BY FinalStays
  <2>3. (scratch[e][m])' = scratch[e][m]
    BY <1>1
  <2>4. ASSUME NEW i \in Inode, i = scratch[e][m], Final(i)
        PROVE  Final(scratch[e][m])'
    <3>1. Final(i)' BY <2>2, <2>4
    <3>2. (scratch[e][m])' = i BY <2>3, <2>4
    <3> QED BY <3>1, <3>2 DEF Final
  <2> QED BY <2>1, <2>2, <2>4
<1>4. "boot" \in Name /\ "root" \in Name
  BY DEF Name
<1> QED BY <1>1, <1>2, <1>3, <1>4 DEF ScratchStage

LEMMA OthersCache ==
  ASSUME TypeOK, Held, NEW d \in Dispatcher, DispatcherStep(d),
         NEW e \in Dispatcher, e # d, CacheStage(e)
  PROVE  CacheStage(e)'
<1>1. Dir(e)' = Dir(e) /\ Dir(e) \in Key
  BY OthersLocal, DirIsKey DEF Dir
<1>2. pc[e] \notin Critical => CacheStage(e)'
  BY OthersLocal DEF CacheStage, Critical, Label, Filling
<1>3. ASSUME pc[e] \in Critical
      PROVE  cache'[Dir(e)] = cache[Dir(e)] /\ label'[Dir(e)] = label[Dir(e)]
  <2>1. ~(pc[d] \in Critical /\ Dir(e) = Dir(d))
    BY <1>3 DEF Held
  <2> QED BY <1>1, <2>1, OtherDirs
<1>4. CASE pc[e] \in Critical
  BY <1>1, <1>3, <1>4, OthersLocal DEF CacheStage, Complete
<1> QED BY <1>2, <1>4

----------------------------------------------------------------------------
(* What a step of d makes true of d.                                       *)

LEMMA OwnHeld ==
  ASSUME TypeOK, Held, NEW d \in Dispatcher, DispatcherStep(d)
  PROVE  pc'[d] \in Critical => (lock[Dir(d)])' = d
<1>1. CASE Lock(d)
  BY <1>1, DirIsKey DEF Lock, TypeOK, Dir, local, files
<1>2. CASE Begin(d) \/ (\E u \in Url : Ask(d, u)) \/ Stop(d) \/ Return(d) \/ Deploy(d)
  BY <1>2 DEF Begin, Ask, Stop, Return, Deploy, Goto, TypeOK, Critical
<1>3. CASE Look(d) \/ TakeLinks(d) \/ Clear(d) \/ Download(d)
  BY <1>3 DEF Look, TakeLinks, Clear, Download, local, files, Held, Critical, Label, Dir
<1>4. CASE \/ Create(d, "boot") \/ Create(d, "root") \/ Write(d, "boot") \/ Write(d, "root")
           \/ Publish(d, "boot") \/ Publish(d, "root")
  BY <1>4 DEF Create, Write, Publish, local, Held, Critical, Label, Dir
<1>5. CASE OpenDistro(d) \/ WriteDistro(d)
  BY <1>5 DEF OpenDistro, WriteDistro, local, Held, Critical, Label, Dir
<1> QED BY <1>1, <1>2, <1>3, <1>4, <1>5, StepCases

LEMMA OwnInode ==
  ASSUME TypeOK, NEW d \in Dispatcher, ScratchStage(d), pc[d] # "off"
  PROVE  \A m \in Name : <<d, run[d], m>> \in Inode
<1>1. run[d] \in 0..MaxRuns /\ run[d] > 0
  BY DEF TypeOK, ScratchStage
<1>2. run[d] \in 1..MaxRuns
  BY <1>1, CacheAssumption DEF CacheAssumption
<1> QED BY <1>2 DEF Inode

LEMMA TypeStep ==
  ASSUME CacheInv, NEW d \in Dispatcher, DispatcherStep(d)
  PROVE  TypeOK'
<1>1. TypeOK /\ Dir(d) \in Key
  BY DirIsKey DEF CacheInv
<1>2. \A l \in Label : Goto(d, l) => pc' \in [Dispatcher -> Label]
  BY <1>1 DEF TypeOK, Goto
<1>3. CASE Begin(d)
  <2>1. run[d] + 1 \in 0..MaxRuns
    BY <1>1, <1>3, CacheAssumption DEF Begin, TypeOK, CacheAssumption
  <2>2. Deploys \in 0..Deploys
    BY CacheAssumption DEF CacheAssumption
  <2>3. Empty \in [Name -> Inode \cup {NoFile}]
    BY DEF Empty
  <2> QED BY <1>1, <1>2, <1>3, <2>1, <2>2, <2>3 DEF Begin, TypeOK, Label
<1>4. ASSUME NEW u \in Url, Ask(d, u)
      PROVE  TypeOK'
  <2>1. left[d] - 1 \in 0..Deploys
    BY <1>1, <1>4, CacheAssumption DEF Ask, TypeOK, CacheAssumption
  <2> QED BY <1>1, <1>2, <1>4, <2>1 DEF Ask, TypeOK, Label, files
<1>5. Unlock(d) => lock' \in [Key -> Dispatcher \cup {NoOne}]
  BY <1>1 DEF TypeOK, Unlock
<1>6. CASE Lock(d)
  BY <1>1, <1>2, <1>6 DEF Lock, TypeOK, Label, local, files
<1>7. CASE Stop(d) \/ Return(d)
  BY <1>1, <1>2, <1>5, <1>7 DEF Stop, Return, TypeOK, Label, local, files
<1>8. CASE Deploy(d) \/ Download(d)
  BY <1>1, <1>2, <1>8 DEF Deploy, Download, TypeOK, Label, local, files
<1>9. CASE Look(d)
  <2>1. Complete(Dir(d)) => label[Dir(d)] \in Url
    BY <1>1 DEF CacheInv, Entry
  <2> QED BY <1>1, <1>2, <1>9, <2>1 DEF Look, TypeOK, Label, files
<1>10. CASE TakeLinks(d)
  BY <1>1, <1>2, <1>10 DEF TakeLinks, TypeOK, Label, local
<1>11. CASE Clear(d)
  <2>1. \A m \in Name : [cache EXCEPT ![Dir(d)][m] = NoFile]
                          \in [Key -> [Name -> Inode \cup {NoFile}]]
    BY <1>1 DEF TypeOK
  <2>2. [label EXCEPT ![Dir(d)] = NoFile] \in [Key -> Url \cup {Torn, NoFile}]
    BY <1>1 DEF TypeOK
  <2> QED BY <1>1, <1>2, <1>11, <2>1, <2>2 DEF Clear, TypeOK, Label, Name, local
<1>12. ASSUME NEW m \in Name, Create(d, m)
       PROVE  TypeOK'
  <2>1. <<d, run[d], m>> \in Inode
    BY <1>1, <1>12, OwnInode DEF Create, CacheInv
  <2>2. PICK i \in Inode : /\ scratch' = [scratch EXCEPT ![d][m] = i]
                           /\ data' = [data EXCEPT ![i] = Torn]
    <3>1. scratch[d][m] \in Inode \cup {NoFile}
      BY <1>1 DEF TypeOK
    <3>2. CASE scratch[d][m] = NoFile
      BY <1>12, <2>1, <3>2 DEF Create
    <3>3. CASE scratch[d][m] # NoFile
      BY <1>12, <3>1, <3>3 DEF Create
    <3> QED BY <3>2, <3>3
  <2>3. /\ scratch' \in [Dispatcher -> [Name -> Inode \cup {NoFile}]]
        /\ data' \in [Inode -> Url \cup {Torn}]
    BY <1>1, <2>2 DEF TypeOK
  <2> QED BY <1>1, <1>2, <1>12, <2>3 DEF Create, TypeOK, Label, local
<1>13. ASSUME NEW m \in Name, Write(d, m)
       PROVE  TypeOK'
  BY <1>1, <1>2, <1>13 DEF Write, TypeOK, Label, local
<1>14. ASSUME NEW m \in Name, Publish(d, m)
       PROVE  TypeOK'
  <2>1. PICK i \in Inode \cup {NoFile} : cache' = [cache EXCEPT ![Dir(d)][m] = i]
    <3>1. scratch[d][m] \in Inode \cup {NoFile}
      BY <1>1 DEF TypeOK
    <3> QED BY <1>14, <3>1 DEF Publish
  <2>2. cache' \in [Key -> [Name -> Inode \cup {NoFile}]]
    BY <1>1, <2>1 DEF TypeOK
  <2> QED BY <1>1, <1>2, <1>14, <2>2 DEF Publish, TypeOK, Label, local
<1>15. CASE OpenDistro(d) \/ WriteDistro(d)
  <2>1. label' \in [Key -> Url \cup {Torn, NoFile}]
    BY <1>1, <1>15 DEF OpenDistro, WriteDistro, TypeOK
  <2> QED BY <1>1, <1>2, <1>15, <2>1 DEF OpenDistro, WriteDistro, TypeOK, Label, local
<1> QED
  BY <1>3, <1>4, <1>6, <1>7, <1>8, <1>9, <1>10, <1>11, <1>12, <1>13, <1>14, <1>15,
     StepCases DEF Name

LEMMA OwnScratch ==
  ASSUME Separate, CacheInv, NEW d \in Dispatcher, DispatcherStep(d)
  PROVE  ScratchStage(d)'
<1> DEFINE Tar(m) == <<d, run[d], m>>
<1>1. /\ TypeOK /\ ScratchStage(d) /\ CacheStage(d) /\ Dir(d) \in Key
      /\ \A i \in Inode : Final(i) => Final(i)' /\ data'[i] = data[i]
  BY DirIsKey, FinalStays DEF CacheInv
<1>2. pc[d] # "off" => /\ \A m \in Name : Tar(m) \in Inode
                       /\ run[d] > 0
  BY <1>1, OwnInode DEF ScratchStage
<1>3. CASE Begin(d)
  <2>1. run'[d] > 0 /\ scratch'[d] = Empty /\ pc'[d] = "idle"
    BY <1>1, <1>3 DEF Begin, TypeOK, Goto
  <2> QED BY <2>1 DEF ScratchStage
<1>4. ASSUME NEW u \in Url, Ask(d, u)
      PROVE  ScratchStage(d)'
  <2>1. left[d] = 1
    BY <1>1, <1>4 DEF Ask, TypeOK, Separate
  <2>2. /\ pc'[d] = "lock" /\ left'[d] = 0
        /\ scratch'[d] = scratch[d] /\ run'[d] = run[d]
    BY <1>1, <1>4, <2>1 DEF Ask, TypeOK, Goto, files
  <2> QED BY <1>1, <1>4, <2>1, <2>2 DEF Ask, ScratchStage
<1>5. CASE Lock(d) \/ Stop(d) \/ Deploy(d)
  <2>1. /\ left'[d] = left[d] /\ scratch'[d] = scratch[d] /\ run'[d] = run[d]
    BY <1>5 DEF Lock, Stop, Deploy, local, files
  <2>2. \/ pc[d] = "lock" /\ pc'[d] = "look"
        \/ pc'[d] = "off"
        \/ pc[d] = "deploy" /\ pc'[d] = "idle"
    BY <1>1, <1>5 DEF Lock, Stop, Deploy, TypeOK, Goto
  <2>3. CASE pc[d] = "lock" /\ pc'[d] = "look"
    BY <1>1, <2>1, <2>3 DEF ScratchStage
  <2>4. CASE pc'[d] = "off"
    BY <2>4 DEF ScratchStage
  <2>5. CASE pc[d] = "deploy" /\ pc'[d] = "idle"
    <3>1. left[d] = 0 /\ run[d] > 0
      BY <1>1, <2>5 DEF ScratchStage
    <3>2. ~(left[d] > 0)
      BY <3>1
    <3> QED BY <2>1, <2>5, <3>1, <3>2 DEF ScratchStage
  <2> QED BY <2>2, <2>3, <2>4, <2>5
<1>6. CASE Look(d) \/ Clear(d) \/ Download(d)
  <2>1. left'[d] = left[d] /\ scratch'[d] = scratch[d] /\ run'[d] = run[d]
    BY <1>6 DEF Look, Clear, Download, local, files
  <2>2. /\ pc[d] \in {"look", "clear boot", "clear root", "clear distro", "download"}
        /\ pc'[d] \in {"take", "clear boot", "clear root", "clear distro", "download",
                       "create boot"}
    BY <1>1, <1>6 DEF Look, Clear, Download, TypeOK, Goto
  <2> QED BY <1>1, <2>1, <2>2 DEF ScratchStage
<1>7. CASE TakeLinks(d)
  <2>1. /\ left'[d] = left[d] /\ run'[d] = run[d] /\ url'[d] = url[d]
        /\ distro'[d] = distro[d] /\ pc[d] = "take" /\ pc'[d] = "unlock"
        /\ scratch'[d] = cache[Dir(d)]
    BY <1>1, <1>7 DEF TakeLinks, TypeOK, Goto, local
  <2>2. distro[d] = url[d]
    <3>1. Complete(Dir(d)) /\ distro[d] = label[Dir(d)]
      BY <1>1, <2>1 DEF CacheStage
    <3>2. distro[d] \in Url /\ KeyOf[distro[d]] = KeyOf[url[d]]
      BY <1>1, <3>1 DEF CacheInv, Entry, Dir
    <3> QED BY <1>1, <3>2 DEF Separate, TypeOK
  <2>3. ASSUME NEW m \in Name
        PROVE  /\ (scratch[d][m])' # NoFile /\ Final(scratch[d][m])'
               /\ (data[scratch[d][m]])' = url[d]
    <3>1. PICK i \in Inode : i = cache[Dir(d)][m]
      BY <1>1, <2>1 DEF CacheStage, Complete, TypeOK
    <3>2. i # NoFile /\ Final(i) /\ data[i] \in Url /\ KeyOf[data[i]] = Dir(d)
      BY <1>1, <3>1, CacheAssumption DEF CacheInv, Entry, CacheAssumption
    <3>3. data[i] = url[d]
      BY <1>1, <3>2 DEF Separate, Dir, TypeOK
    <3>4. (scratch[d][m])' = i
      BY <2>1, <3>1
    <3>5. Final(i)' /\ data'[i] = url[d]
      BY <1>1, <3>2, <3>3
    <3> QED BY <3>2, <3>4, <3>5 DEF Final
  <2> QED BY <1>1, <2>1, <2>2, <2>3 DEF ScratchStage
<1>8. CASE Create(d, "boot")
  <2>1. /\ left'[d] = left[d] /\ run'[d] = run[d]
        /\ pc[d] = "create boot" /\ pc'[d] = "write boot"
    BY <1>1, <1>8 DEF Create, TypeOK, Goto, local
  <2>2. scratch[d] = Empty
    BY <1>1, <2>1 DEF ScratchStage
  <2>3. scratch' = [scratch EXCEPT ![d]["boot"] = Tar("boot")]
    BY <1>8, <2>2 DEF Create, Empty, Name
  <2>4. scratch'[d]["boot"] = Tar("boot") /\ scratch'[d]["root"] = NoFile
    BY <1>1, <2>2, <2>3 DEF TypeOK, Empty, Name
  <2> QED BY <1>1, <2>1, <2>4 DEF ScratchStage, Mine
<1>9. CASE Create(d, "root")
  <2>1. /\ left'[d] = left[d] /\ run'[d] = run[d] /\ url'[d] = url[d]
        /\ pc[d] = "create root" /\ pc'[d] = "write root"
    BY <1>1, <1>9 DEF Create, TypeOK, Goto, local
  <2>2. Made(d, "boot") /\ scratch[d]["root"] = NoFile
    BY <1>1, <2>1 DEF ScratchStage
  <2>3. /\ scratch' = [scratch EXCEPT ![d]["root"] = Tar("root")]
        /\ data' = [data EXCEPT ![Tar("root")] = Torn]
    BY <1>9, <2>2 DEF Create
  <2>4. scratch'[d]["root"] = Tar("root") /\ scratch'[d]["boot"] = scratch[d]["boot"]
    BY <1>1, <2>3 DEF TypeOK, Name
  <2>5. data'[Tar("boot")] = data[Tar("boot")]
    BY <1>1, <1>2, <2>1, <2>3 DEF TypeOK, Name
  <2> QED BY <1>1, <2>1, <2>2, <2>4, <2>5 DEF ScratchStage, Mine, Made
<1>10. ASSUME NEW m \in Name, Write(d, m)
       PROVE  ScratchStage(d)'
  <2>1. /\ left'[d] = left[d] /\ run'[d] = run[d] /\ url'[d] = url[d]
        /\ scratch' = scratch
        /\ \/ m = "boot" /\ pc[d] = "write boot" /\ pc'[d] = "create root"
           \/ m = "root" /\ pc[d] = "write root" /\ pc'[d] = "open distro"
    BY <1>1, <1>10 DEF Write, TypeOK, Goto, local
  <2>2. Mine(d, m) /\ Tar(m) \in Inode
    BY <1>1, <1>2, <2>1 DEF ScratchStage
  <2>3. data' = [data EXCEPT ![Tar(m)] = url[d]]
    BY <1>10, <2>2 DEF Write, Mine
  <2>4. Made(d, m)'
    BY <1>1, <2>1, <2>2, <2>3 DEF Made, Mine, TypeOK
  <2>5. m = "root" => Made(d, "boot")'
    BY <1>1, <1>2, <2>1, <2>3 DEF ScratchStage, Made, Mine, TypeOK, Name
  <2> QED BY <1>1, <2>1, <2>4, <2>5 DEF ScratchStage
<1>11. CASE OpenDistro(d) \/ WriteDistro(d) \/ Publish(d, "boot")
  <2>1. /\ left'[d] = left[d] /\ run'[d] = run[d] /\ url'[d] = url[d]
        /\ scratch' = scratch /\ data' = data
        /\ pc[d] \in {"open distro", "write distro", "link boot"}
        /\ pc'[d] \in {"write distro", "link boot", "link root"}
    BY <1>1, <1>11 DEF OpenDistro, WriteDistro, Publish, TypeOK, Goto, local
  <2> QED BY <1>1, <2>1 DEF ScratchStage, Made, Mine
<1>12. CASE Publish(d, "root")
  <2>1. /\ left'[d] = left[d] /\ run'[d] = run[d] /\ url'[d] = url[d]
        /\ distro'[d] = distro[d] /\ scratch' = scratch /\ data' = data
        /\ pc[d] = "link root" /\ pc'[d] = "unlock"
    BY <1>1, <1>12 DEF Publish, TypeOK, Goto, local
  <2>2. distro[d] = url[d] /\ Made(d, "boot") /\ Made(d, "root")
    BY <1>1, <2>1 DEF ScratchStage, CacheStage
  <2>3. ASSUME NEW m \in Name
        PROVE  /\ (scratch[d][m])' # NoFile /\ Final(scratch[d][m])'
               /\ (data[scratch[d][m]])' = url[d]
    <3>1. scratch[d][m] = Tar(m) /\ data[Tar(m)] = url[d]
      BY <2>2 DEF Made, Mine, Name
    <3>2. Tar(m) # NoFile
      BY <1>2, <2>1, CacheAssumption DEF CacheAssumption
    <3>3. Final(Tar(m))'
      BY <2>1 DEF Final, Quiet
    <3> QED BY <2>1, <3>1, <3>2, <3>3 DEF Final
  <2> QED BY <1>1, <2>1, <2>2, <2>3 DEF ScratchStage
<1>13. CASE Return(d)
  <2>1. /\ left'[d] = left[d] /\ run'[d] = run[d] /\ url'[d] = url[d]
        /\ distro'[d] = distro[d] /\ scratch' = scratch
        /\ pc[d] = "unlock" /\ pc'[d] = "deploy"
    BY <1>1, <1>13 DEF Return, TypeOK, Goto, local, files
  <2>2. ASSUME NEW m \in Name
        PROVE  /\ (scratch[d][m])' # NoFile /\ Final(scratch[d][m])'
               /\ (data[scratch[d][m]])' = url[d]
    <3>1. PICK i \in Inode : i = scratch[d][m]
      BY <1>1, <2>1 DEF ScratchStage, TypeOK
    <3>2. i # NoFile /\ Final(i) /\ data[i] = url[d]
      BY <1>1, <2>1, <3>1 DEF ScratchStage
    <3>3. (scratch[d][m])' = i
      BY <2>1, <3>1
    <3>4. Final(i)' /\ data'[i] = url[d]
      BY <1>1, <3>2
    <3> QED BY <3>2, <3>3, <3>4 DEF Final
  <2> QED BY <1>1, <2>1, <2>2 DEF ScratchStage
<1> QED
  BY <1>3, <1>4, <1>5, <1>6, <1>7, <1>8, <1>9, <1>10, <1>11, <1>12, <1>13,
     StepCases DEF Name

LEMMA OwnCache ==
  ASSUME CacheInv, NEW d \in Dispatcher, DispatcherStep(d)
  PROVE  CacheStage(d)'
<1>1. TypeOK /\ CacheStage(d) /\ Dir(d) \in Key
  BY DirIsKey DEF CacheInv
<1>2. pc'[d] \in {"off", "idle", "lock", "look", "unlock", "deploy"} => CacheStage(d)'
  BY DEF CacheStage, Filling
<1>3. CASE Begin(d) \/ (\E u \in Url : Ask(d, u)) \/ Lock(d) \/ Stop(d) \/ Return(d) \/ Deploy(d)
  BY <1>1, <1>2, <1>3 DEF Begin, Ask, Lock, Stop, Return, Deploy, Goto, TypeOK
<1>4. CASE Look(d)
  <2>1. Dir(d)' = Dir(d) /\ cache' = cache /\ label' = label
    BY <1>4 DEF Look, Dir, files
  <2>2. Complete(Dir(d)) => label[Dir(d)] # NoFile
    BY <1>1, CacheAssumption DEF CacheInv, Entry, CacheAssumption
  <2>3. \/ /\ pc'[d] = "take" /\ distro'[d] = label[Dir(d)] /\ Complete(Dir(d))
        \/ pc'[d] = "clear boot" /\ ~Complete(Dir(d))
    BY <1>1, <1>4, <2>2 DEF Look, Goto, TypeOK
  <2> QED BY <2>1, <2>3 DEF CacheStage, Filling, Complete
<1>5. CASE TakeLinks(d) \/ Publish(d, "root")
  BY <1>1, <1>2, <1>5 DEF TakeLinks, Publish, Goto, TypeOK
<1>6. CASE Clear(d)
  <2>1. Dir(d)' = Dir(d)
    BY <1>6 DEF Clear, Dir, local
  <2>2. CASE pc[d] = "clear boot"
    <3>1. Goto(d, "clear root") /\ cache' = [cache EXCEPT ![Dir(d)]["boot"] = NoFile]
      BY <1>6, <2>2 DEF Clear
    <3>2. pc'[d] = "clear root" /\ cache'[Dir(d)]["boot"] = NoFile
      BY <1>1, <3>1 DEF Goto, TypeOK, Name
    <3> QED BY <2>1, <3>2 DEF CacheStage, Filling
  <2>3. CASE pc[d] = "clear root"
    <3>1. Goto(d, "clear distro") /\ cache' = [cache EXCEPT ![Dir(d)]["root"] = NoFile]
      BY <1>6, <2>3 DEF Clear
    <3>2. cache[Dir(d)]["boot"] = NoFile
      BY <1>1, <2>3 DEF CacheStage
    <3>3. /\ pc'[d] = "clear distro" /\ cache'[Dir(d)]["root"] = NoFile
          /\ cache'[Dir(d)]["boot"] = NoFile
      BY <1>1, <3>1, <3>2 DEF Goto, TypeOK, Name
    <3> QED BY <2>1, <3>3 DEF CacheStage, Filling
  <2>4. CASE pc[d] = "clear distro"
    <3>1. pc'[d] = "download" /\ cache' = cache
      BY <1>1, <1>6, <2>4 DEF Clear, Goto, TypeOK
    <3>2. cache[Dir(d)] = Empty
      BY <1>1, <2>4 DEF CacheStage, TypeOK, Empty, Name
    <3> QED BY <2>1, <3>1, <3>2 DEF CacheStage, Filling, Empty
  <2> QED BY <1>6, <2>2, <2>3, <2>4 DEF Clear
<1>7. CASE \/ Download(d) \/ Create(d, "boot") \/ Create(d, "root")
           \/ Write(d, "boot") \/ Write(d, "root") \/ OpenDistro(d)
  <2>1. Dir(d)' = Dir(d) /\ cache' = cache
    BY <1>7 DEF Download, Create, Write, OpenDistro, Dir, local, files
  <2>2. /\ pc[d] \in Filling
        /\ pc'[d] \in Filling \ {"link boot"}
    BY <1>1, <1>7 DEF Download, Create, Write, OpenDistro, Goto, TypeOK, Filling
  <2>3. cache[Dir(d)] = Empty
    BY <1>1, <2>2 DEF CacheStage
  <2> QED BY <2>1, <2>2, <2>3 DEF CacheStage, Filling, Empty
<1>8. CASE WriteDistro(d)
  <2>1. /\ Dir(d)' = Dir(d) /\ cache' = cache /\ url' = url
        /\ pc[d] = "write distro" /\ pc'[d] = "link boot"
        /\ label'[Dir(d)] = url[d] /\ distro'[d] = url[d]
    BY <1>1, <1>8 DEF WriteDistro, Dir, Goto, TypeOK
  <2>2. cache[Dir(d)] = Empty
    BY <1>1, <2>1 DEF CacheStage, Filling
  <2> QED BY <2>1, <2>2 DEF CacheStage, Filling, Empty
<1>9. CASE Publish(d, "boot")
  <2>1. /\ Dir(d)' = Dir(d) /\ label' = label /\ url' = url /\ distro' = distro
        /\ pc[d] = "link boot" /\ pc'[d] = "link root"
        /\ cache' = [cache EXCEPT ![Dir(d)]["boot"] = scratch[d]["boot"]]
    BY <1>1, <1>9 DEF Publish, Dir, Goto, TypeOK, local
  <2>2. /\ cache[Dir(d)]["root"] = NoFile
        /\ label[Dir(d)] = url[d] /\ distro[d] = url[d]
    BY <1>1, <2>1 DEF CacheStage, Filling, Empty, Name
  <2>3. cache'[Dir(d)]["root"] = NoFile
    BY <1>1, <2>1, <2>2 DEF TypeOK, Name
  <2> QED BY <2>1, <2>2, <2>3 DEF CacheStage, Filling
<1> QED BY <1>3, <1>4, <1>5, <1>6, <1>7, <1>8, <1>9, StepCases

LEMMA EntryStep ==
  ASSUME CacheInv, NEW d \in Dispatcher, DispatcherStep(d), NEW k \in Key
  PROVE  Entry(k)'
<1>1. /\ TypeOK /\ ScratchStage(d) /\ CacheStage(d) /\ Entry(k) /\ Dir(d) \in Key
      /\ \A i \in Inode : Final(i) => Final(i)' /\ data'[i] = data[i]
  BY DirIsKey, FinalStays DEF CacheInv
<1>2. ASSUME NEW m \in Name, cache'[k][m] = cache[k][m], cache[k][m] # NoFile
      PROVE  /\ Final(cache[k][m])'
             /\ (data[cache[k][m]])' \in Url /\ KeyOf[(data[cache[k][m]])'] = k
  <2>1. PICK i \in Inode : i = cache[k][m]
    BY <1>1, <1>2 DEF TypeOK
  <2>2. Final(i) /\ data[i] \in Url /\ KeyOf[data[i]] = k
    BY <1>1, <1>2, <2>1 DEF Entry
  <2>3. (cache[k][m])' = i /\ Final(i)' /\ data'[i] = data[i]
    BY <1>1, <1>2, <2>1, <2>2
  <2> QED BY <2>2, <2>3 DEF Final
<1>3. ASSUME cache'[k] = cache[k], label'[k] = label[k]
      PROVE  Entry(k)'
  BY <1>1, <1>2, <1>3 DEF Entry, Complete
<1>4. CASE ~(pc[d] \in Critical /\ k = Dir(d))
  BY <1>1, <1>3, <1>4, OtherDirs
<1>5. CASE k = Dir(d) /\ Clear(d)
  <2>1. \/ /\ label' = label
           /\ \E m \in Name : cache' = [cache EXCEPT ![k][m] = NoFile]
        \/ /\ cache' = cache /\ label'[k] = NoFile
           /\ cache[k]["boot"] = NoFile
    BY <1>1, <1>5 DEF Clear, TypeOK, Name, CacheStage
  <2>2. \A m \in Name : cache'[k][m] \in {NoFile, cache[k][m]}
    BY <1>1, <2>1 DEF TypeOK
  <2>3. \E m \in Name : cache'[k][m] = NoFile
    BY <1>1, <2>1 DEF TypeOK, Name
  <2>4. label'[k] \in {label[k], NoFile}
    BY <2>1
  <2>5. label'[k] \in Url => KeyOf[label'[k]] = k
    BY <1>1, <2>4, CacheAssumption DEF Entry, CacheAssumption
  <2> QED BY <1>2, <2>2, <2>3, <2>5 DEF Entry, Complete
<1>6. CASE k = Dir(d) /\ (OpenDistro(d) \/ WriteDistro(d))
  <2>1. cache' = cache /\ label'[k] \in {Torn, url[d]}
    BY <1>1, <1>6 DEF OpenDistro, WriteDistro, TypeOK
  <2>2. cache[k] = Empty
    BY <1>1, <1>6 DEF OpenDistro, WriteDistro, CacheStage, Filling
  <2>3. label'[k] \in Url => KeyOf[label'[k]] = k
    BY <1>6, <2>1, CacheAssumption DEF CacheAssumption, Dir
  <2> QED BY <2>1, <2>2, <2>3 DEF Entry, Complete, Empty, Name
<1>7. ASSUME k = Dir(d), NEW m \in Name, Publish(d, m)
      PROVE  Entry(k)'
  <2>1. /\ cache' = [cache EXCEPT ![k][m] = scratch[d][m]]
        /\ label' = label /\ data' = data /\ run' = run
        /\ pc[d] \in {"link boot", "link root"} /\ pc'[d] \in {"link root", "unlock"}
    BY <1>1, <1>7 DEF Publish, TypeOK, Goto, local
  <2>2. /\ scratch[d][m] = <<d, run[d], m>> /\ data[<<d, run[d], m>>] = url[d]
        /\ label[k] = url[d]
    BY <1>1, <1>7, <2>1 DEF ScratchStage, CacheStage, Made, Mine, Name
  <2>3. (cache[k][m])' = <<d, run[d], m>>
    BY <1>1, <2>1, <2>2 DEF TypeOK
  <2>4. Final(cache[k][m])'
    <3>1. Final(<<d, run[d], m>>)'
      BY <2>1 DEF Final, Quiet
    <3> QED BY <2>1, <2>3, <3>1 DEF Final
  <2>5. url[d] \in Url /\ KeyOf[url[d]] = k
    BY <1>1, <1>7 DEF TypeOK, Dir
  <2>6. (data[cache[k][m]])' = url[d]
    BY <2>1, <2>2, <2>3
  <2>7. \A l \in Name : l # m => cache'[k][l] = cache[k][l]
    BY <1>1, <2>1 DEF TypeOK
  <2> QED BY <1>2, <2>1, <2>2, <2>4, <2>5, <2>6, <2>7 DEF Entry
<1>8. CASE \/ Look(d) \/ TakeLinks(d) \/ Download(d) \/ Return(d) \/ Stop(d)
           \/ Create(d, "boot") \/ Create(d, "root") \/ Write(d, "boot") \/ Write(d, "root")
  BY <1>3, <1>8 DEF Look, TakeLinks, Download, Return, Stop, Create, Write, files
<1>9. CASE Begin(d) \/ (\E u \in Url : Ask(d, u)) \/ Lock(d) \/ Deploy(d)
  BY <1>3, <1>9 DEF Begin, Ask, Lock, Deploy, files
<1> QED BY <1>4, <1>5, <1>6, <1>7, <1>8, <1>9, StepCases DEF Name

----------------------------------------------------------------------------
(* The theorems.                                                           *)

LEMMA CacheStutter == ASSUME CacheInv, UNCHANGED vars PROVE CacheInv'
<1>1. /\ pc' = pc /\ run' = run /\ left' = left /\ url' = url /\ distro' = distro
      /\ scratch' = scratch /\ lock' = lock /\ cache' = cache /\ label' = label
      /\ data' = data
  BY DEF vars, local, files
<1>2. TypeOK' /\ Held'
  BY <1>1 DEF CacheInv, TypeOK, Held, Dir
<1>3. \A d \in Dispatcher : CacheStage(d)'
  BY <1>1 DEF CacheInv, CacheStage, Complete, Dir
<1>4. ASSUME NEW d \in Dispatcher PROVE ScratchStage(d)'
  BY <1>1 DEF CacheInv, ScratchStage, Mine, Made, Final, Quiet
<1>5. ASSUME NEW k \in Key PROVE Entry(k)'
  <2>1. ASSUME NEW m \in Name, Final(cache[k][m]) PROVE Final(cache[k][m])'
    BY <1>1, <2>1 DEF Final, Quiet
  <2> QED BY <1>1, <2>1 DEF CacheInv, Entry, Complete
<1> QED BY <1>2, <1>3, <1>4, <1>5 DEF CacheInv

(* The cache is an invariant, whoever is killed, wherever: a process that  *)
(* holds a directory knows what is in it, and what can be seen complete    *)
(* in a directory was finished before it was linked there.                 *)
THEOREM CacheInvariant == Separate => (Spec => []CacheInv)
<1> SUFFICES ASSUME Separate PROVE Spec => []CacheInv
  OBVIOUS
<1>1. Init => CacheInv
  <2> SUFFICES ASSUME Init PROVE CacheInv
    OBVIOUS
  <2>1. TypeOK
    BY CacheAssumption DEF CacheAssumption, Init, TypeOK, Label, Empty
  <2>2. Held
    BY DEF Init, Held, Critical
  <2>3. \A d \in Dispatcher : ScratchStage(d) /\ CacheStage(d)
    BY DEF Init, ScratchStage, CacheStage, Filling
  <2>4. \A k \in Key : Entry(k)
    BY CacheAssumption DEF CacheAssumption, Init, Entry, Complete, Empty, Name
  <2> QED BY <2>1, <2>2, <2>3, <2>4 DEF CacheInv
<1>2. CacheInv /\ [Next]_vars => CacheInv'
  <2> SUFFICES ASSUME CacheInv, Next PROVE CacheInv'
    BY CacheStutter
  <2>1. PICK d \in Dispatcher : DispatcherStep(d)
    BY DEF Next
  <2>2. TypeOK'
    BY <2>1, TypeStep
  <2>3. Held'
    BY <2>1, OwnHeld, OthersHeld DEF CacheInv, Held
  <2>4. \A e \in Dispatcher : ScratchStage(e)'
    BY <2>1, OwnScratch, OthersScratch DEF CacheInv
  <2>5. \A e \in Dispatcher : CacheStage(e)'
    BY <2>1, OwnCache, OthersCache DEF CacheInv
  <2>6. \A k \in Key : Entry(k)'
    BY <2>1, EntryStep
  <2> QED BY <2>2, <2>3, <2>4, <2>5, <2>6 DEF CacheInv
<1> QED BY <1>1, <1>2, PTL DEF Spec

(* TypeOK of the runs, for every value of the constants: in particular no  *)
(* half-written distro file is ever returned.                              *)
THEOREM TypeCorrect == Separate => (Spec => []TypeOK)
<1>1. CacheInv => TypeOK
  BY DEF CacheInv
<1> QED BY <1>1, CacheInvariant, PTL

(* A cache directory with both tarballs can be trusted after any crash.    *)
THEOREM CompleteIsSoundHolds == Separate => (Spec => []CompleteIsSound)
<1>1. Separate /\ CacheInv => CompleteIsSound
  <2> SUFFICES ASSUME Separate, CacheInv, NEW k \in Key, Complete(k)
               PROVE  \E u \in Url : /\ KeyOf[u] = k /\ label[k] = u
                                     /\ \A m \in Name : data[cache[k][m]] = u
    BY DEF CompleteIsSound
  <2>1. label[k] \in Url /\ KeyOf[label[k]] = k
    BY DEF CacheInv, Entry
  <2>2. ASSUME NEW m \in Name PROVE data[cache[k][m]] = label[k]
    <3>1. data[cache[k][m]] \in Url /\ KeyOf[data[cache[k][m]]] = k
      BY DEF CacheInv, Entry, Complete
    <3> QED BY <2>1, <3>1 DEF Separate
  <2> QED BY <2>1, <2>2
<1> SUFFICES ASSUME Separate PROVE Spec => []CompleteIsSound
  OBVIOUS
<1>2. CacheInv => CompleteIsSound
  BY <1>1
<1> QED BY <1>2, CacheInvariant, PTL

(* Every target is given the tarballs of the image its job asked for.      *)
THEOREM RightImageHolds == Separate => (Spec => []RightImage)
<1>1. CacheInv => RightImage
  BY DEF CacheInv, RightImage, ScratchStage
<1> QED BY <1>1, CacheInvariant, PTL

(* An image is converted once: a complete entry is never touched again.    *)
THEOREM BuiltOnceHolds == Separate => (Spec => BuiltOnce)
<1>1. CacheInv /\ [Next]_vars =>
        [\A k \in Key : Complete(k) => cache'[k] = cache[k]]_vars
  <2> SUFFICES ASSUME CacheInv, Next, NEW k \in Key, Complete(k)
               PROVE  cache'[k] = cache[k]
    OBVIOUS
  <2>1. PICK d \in Dispatcher : DispatcherStep(d)
    BY DEF Next
  <2>2. TypeOK /\ CacheStage(d) /\ Dir(d) \in Key
    BY DirIsKey DEF CacheInv
  <2>3. CASE Clear(d) \/ Publish(d, "boot") \/ Publish(d, "root")
    <3>1. ~Complete(Dir(d))
      BY <2>2, <2>3 DEF Clear, Publish, CacheStage, Complete, Empty, Filling, Name
    <3>2. k # Dir(d)
      BY <3>1
    <3> QED BY <2>1, <2>2, <3>2, OtherDirs
  <2>4. CASE ~(Clear(d) \/ Publish(d, "boot") \/ Publish(d, "root"))
    <3>1. cache' = cache
      BY <2>1, <2>4, StepCases
      DEF Begin, Ask, Lock, Stop, Look, TakeLinks, Download, Create, Write, OpenDistro,
          WriteDistro, Return, Deploy, files
    <3> QED BY <3>1
  <2> QED BY <2>3, <2>4
<1> QED BY <1>1, CacheInvariant, PTL DEF Spec, BuiltOnce
=============================================================================
