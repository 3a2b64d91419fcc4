------------------------------ MODULE VfsProofs ------------------------------
(***************************************************************************)
(* Proofs about Vfs: what the code is promised to keep whatever fails and  *)
(* wherever, of the cache, the mounts, the vnodes, the open files and the  *)
(* devices, for every number of entries, any filesystems and devices, and  *)
(* all calls that CallsAssumption admits.                                  *)
(***************************************************************************)
EXTENDS Vfs, FiniteSetTheorems, SequenceTheorems, TLAPS

R == vfs_root_dentry
E == InUse(dentries)
Key0(i) == <<dentries[i].sb, dentries[i].vno>>

DirEntry == [name : Name, ino : Nat]
Types == {c.type : c \in Calls} \cup {Dir}
Node == [type : Types, perm : SUBSET {"r", "w"}, dev : Device \cup {NoDev},
         entries : Seq(DirEntry)]

(* The root is a directory, only directories have entries, each entry has  *)
(* a node, and no node two entries.                                        *)
Typed(ms) ==
  /\ ms = [last_ino |-> ms.last_ino, nodes |-> ms.nodes] /\ ms.last_ino \in Nat
  /\ DOMAIN ms.nodes \subseteq 1 .. MaxIno /\ ms.nodes \in [DOMAIN ms.nodes -> Node]

Tree(ms) ==
  /\ ms.last_ino >= 2 /\ \A n \in DOMAIN ms.nodes : n < ms.last_ino
  /\ MEMFS_ROOT_INO \in DOMAIN ms.nodes /\ ms.nodes[MEMFS_ROOT_INO].type = Dir
  /\ \A n \in DOMAIN ms.nodes : \A x \in DOMAIN ms.nodes[n].entries :
       /\ ms.nodes[n].type = Dir
       /\ ms.nodes[n].entries[x].ino \in DOMAIN ms.nodes \ {MEMFS_ROOT_INO}
  /\ \A n, m \in DOMAIN ms.nodes :
       \A x \in DOMAIN ms.nodes[n].entries, y \in DOMAIN ms.nodes[m].entries :
         ms.nodes[n].entries[x].ino = ms.nodes[m].entries[y].ino => n = m /\ x = y

(* A filesystem that is not mounted is empty.                              *)
FsInv ==
  /\ sbs \subseteq Device /\ supers = [d \in Device |-> supers[d]]
  /\ \A d \in Device : IF d \in sbs THEN Typed(supers[d]) /\ Tree(supers[d])
                        ELSE supers[d] \in {NoSuper, memfs_init_super}

(* The call in progress: where the walk is, and how many nodes there may   *)
(* be for as long as it may make one.                                      *)
Pending ==
  [op : {"stat", "open", "mkdir", "mknod", "mount", "register"}, path : Seq(Name),
   flags : SUBSET {"r", "w", "create", "excl"}, perm : SUBSET {"r", "w"},
   type : Types, dev : Device \cup {NoDev}, fs : STRING,
   phase : {"find", "create", "again"}, todo : Seq(Name), at : Slot]

CallInv ==
  call # NoCall =>
    /\ call \in Pending
    /\ call.op = "mount" => <<call.fs, call.dev>> \in Filesystems
    /\ call.op = "register" => call.type = "chr" /\ call.dev \in chr_devs
    /\ call.op \in {"mkdir", "mknod", "register"} <=> call.phase = "create" /\ call.op # "open"
    /\ call.op \in {"stat", "mount"} => call.phase = "find"
    /\ call.phase = "create" => call.path # << >>
    /\ call.phase # "again" => \A d \in Device : supers[d].last_ino <= MaxIno
    /\ R # NULL

(* A place of the cache is free, or holds what has been found or made; the *)
(* root is the one entry without a parent, and the filesystems that the    *)
(* entries belong to are mounted.                                          *)
PlacesInv ==
  /\ \A i \in Slot :
       /\ dentries[i].name = NoName => dentries[i] = Empty
       /\ dentries[i].name # NoName => dentries[i].vno # 0
       /\ dentries[i].sb # NoSb => dentries[i].sb \in sbs
       /\ dentries[i].mnt # NoSb => dentries[i].mnt \in sbs
  /\ \A i \in E \ {R} :
       /\ dentries[i].parent # NULL /\ dentries[i].name \in Name
       /\ dentries[i].sb # NoSb
       /\ dentries[i].vno \in DOMAIN supers[dentries[i].sb].nodes
  /\ R # NULL => /\ R \in E /\ dentries[R].mnt # NoSb
                 /\ dentries[R].parent = NULL /\ dentries[R].sb = NoSb

CacheInv == PlacesInv /\ (call # NoCall => call.at \in E)

(* Counts, files and devices. *)
NodeThere(k) == k \in Key /\ k[1] \in sbs /\ k[2] \in DOMAIN supers[k[1]].nodes

CountInv ==
  /\ vnodes \in [Key -> Nat] /\ VnodesCounted
  /\ \A k \in Key : vnodes[k] > 0 => NodeThere(k)

FileInv ==
  /\ files \in [FilePtr -> [key : Key, dev : Device \cup {NoDev}] \cup {NoFile}]
  /\ \A p \in FilePtr : files[p] # NoFile =>
       NodeThere(files[p].key) /\ files[p].dev = DevOf(files[p].key)
  /\ vfs_files \in Seq(FilePtr) /\ FilesListed
  /\ in_use \subseteq Tty /\ DeviceExclusive

HasNode(t) == \E d \in Device : supers[d] # NoSuper /\
  \E n \in DOMAIN supers[d].nodes :
    supers[d].nodes[n].type = "chr" /\ supers[d].nodes[n].dev = t

DeviceInv ==
  /\ chr_devs \subseteq Device
  /\ \A t \in chr_devs : (call # NoCall /\ call.op = "register" /\ call.dev = t) \/ HasNode(t)

(* As long as nothing upsets the code, the entries of the cache are those  *)
(* of the directories, one for one.                                        *)
Coherent(i) ==
  LET k == NodeKey(dentries, dentries[i].parent)
  IN  /\ dentries[i].parent \in E /\ dentries[i].sb = k[1] /\ dentries[i].vno # 0
      /\ dentries[i].vno = memfs_ino_lookup(supers[k[1]], k[2], dentries[i].name)

NamesOnce(ms) ==
  \A n \in DOMAIN ms.nodes : \A x, y \in DOMAIN ms.nodes[n].entries :
    ms.nodes[n].entries[x].name = ms.nodes[n].entries[y].name => x = y

TreeInv ==
  /\ \A i \in E \ {R} : Coherent(i)
  /\ \A i, j \in E \ {R} : Key0(i) = Key0(j) => i = j
  /\ \A i, j \in E : dentries[i].mnt # NoSb /\ dentries[i].mnt = dentries[j].mnt => i = j
  /\ \A d \in sbs : \A n \in DOMAIN supers[d].nodes :
       \A x \in DOMAIN supers[d].nodes[n].entries :
         \E i \in E \ {R} : /\ NodeKey(dentries, dentries[i].parent) = <<d, n>>
                            /\ dentries[i].name = supers[d].nodes[n].entries[x].name
  /\ \A d \in sbs : NamesOnce(supers[d])

(* A filesystem whose type is registered can be mounted.                   *)
RegisteredInv == \A f \in Filesystems : f[1] \in fs_types => supers[f[2]] # NoSuper

TypeInv ==
  /\ dentries \in [Slot -> Dentry] /\ R \in Slot \cup {NULL}
  /\ fs_types \subseteq {f[1] : f \in Filesystems}
  /\ wild \in BOOLEAN /\ accidents \subseteq Accidents

(* What holds whatever happens, and what holds barring the accidents.      *)
Core ==
  /\ TypeInv /\ FsInv /\ CallInv /\ CountInv /\ FileInv /\ DeviceInv
  /\ ~wild => CacheInv /\ (R = NULL => E = {})
Settled == Calm => ~wild /\ TreeInv /\ RegisteredInv
IInv == Core /\ Settled

-----------------------------------------------------------------------------
(* A set of natural numbers that is not empty has a least element.         *)
LEMMA LeastNumber ==
  ASSUME NEW S, S \subseteq Nat, S # {}
  PROVE  \E x \in S : \A y \in S : x <= y
<1> DEFINE Less == OpToRel(<, Nat)
<1>1. Less = {ss \in Nat \X Nat : ss[1] < ss[2]}
  BY Zenon DEF OpToRel
<1>2. PICK x \in S : \A y \in S : ~(<<y, x>> \in Less)
  BY NatLessThanWellFounded, WFMin, Zenon
<1> HIDE DEF Less
<1>3. ASSUME NEW y \in S PROVE ~(y < x)
  <2>1. <<y, x>> \in Nat \X Nat /\ <<y, x>>[1] = y /\ <<y, x>>[2] = x
    OBVIOUS
  <2>2. y < x => <<y, x>> \in Less
    BY <1>1, <2>1, Zenon
  <2> QED
    BY <2>2, <1>2, Zenon
<1>4. \A y \in S : x <= y
  BY <1>3
<1> QED
  BY <1>4

(* A path that is not "/" has a last name, and the names before it.        *)
LEMMA FrontLemma ==
  ASSUME NEW S, NEW s \in Seq(S), s # << >>
  PROVE  Front(s) \in Seq(S) /\ Last(s) \in S
<1>1. Len(s) \in Nat \ {0}
  BY EmptySeq
<1>2. \A i \in 1 .. Len(s) - 1 : s[i] \in S
  BY <1>1
<1>3. SubSeq(s, 1, Len(s) - 1) \in Seq(S)
  BY <1>1, <1>2, SubSeqProperties
<1> QED
  BY <1>1, <1>3 DEF Front, Last

(* The place that is given to a new entry: a free one if there is one, and *)
(* never a mountpoint.                                                     *)
LEMMA FreeLemma ==
  ASSUME Slot \ E # {}
  PROVE  Victim(dentries) \in Slot \ E
<1> DEFINE free == Slot \ InUse(dentries)
           S == {VFS_MAX_DENTRIES - i : i \in free}
<1>1. S \subseteq Nat /\ S # {}
  BY VfsAssumption DEF Slot, E
<1>2. PICK x \in S : \A y \in S : x <= y
  BY <1>1, LeastNumber
<1>3. PICK i \in free : x = VFS_MAX_DENTRIES - i
  BY <1>2
<1>4. ASSUME NEW j \in free PROVE j <= i
  <2>1. VFS_MAX_DENTRIES - j >= x
    BY <1>2
  <2> QED
    BY <2>1, <1>3, VfsAssumption DEF Slot
<1>5. (CHOOSE k \in free : \A j \in free : j <= k) \in free
  BY <1>4
<1> QED
  BY <1>5 DEF Victim, E

(* The same whether a place is free or an entry has to give way.           *)
LEMMA VictimLemma ==
  ASSUME dentries \in [Slot -> Dentry], Victim(dentries) # NULL,
         \A i \in Slot \ E : dentries[i] = Empty
  PROVE  /\ Victim(dentries) \in Slot /\ dentries[Victim(dentries)].mnt = NoSb
         /\ Slot \ E # {} => Victim(dentries) \notin E
<1> DEFINE old == Evictable(dentries)
<1>1. CASE Slot \ E # {}
  BY <1>1, FreeLemma DEF Empty
<1>2. CASE Slot \ E = {} /\ old # {}
  <2> DEFINE Counts == {dentries[i].count : i \in old}
  <2>1. \A i \in old : i \in Slot /\ dentries[i].count \in Nat
    BY DEF Evictable, InUse, Dentry
  <2>2. Counts \subseteq Nat /\ Counts # {}
    BY <2>1, <1>2
  <2>3. PICK c \in Counts : \A y \in Counts : c <= y
    BY <2>2, LeastNumber
  <2> DEFINE S == {i \in old : dentries[i].count = c}
  <2>4. S \subseteq Nat /\ S # {}
    BY <2>1, <2>3 DEF Slot
  <2>5. PICK i \in S : \A j \in S : i <= j
    BY <2>4, LeastNumber
  <2>6. \A j \in old : dentries[i].count < dentries[j].count
                       \/ (dentries[i].count = dentries[j].count /\ i <= j)
    BY <2>1, <2>3, <2>5
  <2>7. Victim(dentries) \in old
    BY <2>6, <2>5, <1>2 DEF Victim, E
  <2> QED
    BY <2>7, <1>2 DEF Evictable, InUse, E
<1> QED
  BY <1>1, <1>2 DEF Victim, E

-----------------------------------------------------------------------------
(* What the cache does for a name: it has it, it has no place, it frees a  *)
(* place and fails, or it makes an entry there.                            *)
NewEntry(n, p, sb, ino) ==
  [name |-> n, vno |-> ino, parent |-> p, sb |-> sb, mnt |-> NoSb, count |-> 1]

Sb(p, v) == IF p = NULL \/ p = v THEN NoSb ELSE NodeKey(dentries, p)[1]

Hit(g, i) == g.slot = i /\ g.d = [dentries EXCEPT ![i].count = @ + 1] /\ ~g.evicts
NoPlace(g) == g.slot = NULL /\ g.d = dentries /\ ~g.evicts
NoRoom(g, v) ==
  g.slot = NULL /\ g.d = [dentries EXCEPT ![v] = Empty] /\ (g.evicts <=> v \in E)
Made(g, v, n, p) ==
  g.slot = v /\ g.d = [dentries EXCEPT ![v] = NewEntry(n, p, Sb(p, v), 0)]
    /\ (g.evicts <=> v \in E)
Spared(v) == v \in Slot /\ dentries[v].mnt = NoSb /\ (Slot \ E # {} => v \notin E)

(* These are all the ways vfs_dentry_get ends (vfs.c:239-372).             *)
LEMMA GetLemma ==
  ASSUME dentries \in [Slot -> Dentry], \A i \in Slot \ E : dentries[i] = Empty,
         NEW p \in Slot \cup {NULL}, NEW n \in Name \cup {Root}, NEW room \in Nat
  PROVE  LET g == vfs_dentry_get(dentries, p, n, room)
         IN  \/ \E i \in Cached(dentries, p, n) : Hit(g, i)
             \/ Cached(dentries, p, n) = {} /\ NoPlace(g) /\ Slot \ E = {}
             \/ \E v \in Slot : Cached(dentries, p, n) = {} /\ Spared(v) /\ NoRoom(g, v)
             \/ \E v \in Slot : Cached(dentries, p, n) = {} /\ Spared(v) /\ Made(g, v, n, p)
                                /\ room # 0
<1> DEFINE hit == Cached(dentries, p, n)
           i == CHOOSE k \in hit : \A j \in hit : k <= j
           v == Victim(dentries)
           new == [Empty EXCEPT !.name = n, !.parent = p, !.count = 1]
           d1 == [dentries EXCEPT ![v] = new]
           sb == IF p = NULL THEN NoSb
                 ELSE IF d1[p].mnt = NoSb THEN d1[p].sb ELSE d1[p].mnt
           g == vfs_dentry_get(dentries, p, n, room)
<1>1. CASE hit # {}
  <2>1. hit \subseteq Slot /\ hit \subseteq Nat
    BY DEF Cached, InUse, Slot
  <2>2. \E k \in hit : \A j \in hit : k <= j
    BY <1>1, <2>1, LeastNumber
  <2>3. i \in hit
    BY <2>2
  <2>4. g = [slot |-> i, d |-> [dentries EXCEPT ![i].count = @ + 1], evicts |-> FALSE]
    BY <1>1, Zenon DEF vfs_dentry_get
  <2>5. Hit(g, i)
    BY <2>4 DEF Hit
  <2> QED
    BY <2>3, <2>5
<1>2. CASE hit = {} /\ v = NULL
  <2>1. g = [slot |-> NULL, d |-> dentries, evicts |-> FALSE]
    BY <1>2, Zenon DEF vfs_dentry_get
  <2>2. NoPlace(g)
    BY <2>1 DEF NoPlace
  <2>3. Slot \ E = {}
    <3> SUFFICES ASSUME Slot \ E # {} PROVE FALSE
      OBVIOUS
    <3> DEFINE free == Slot \ InUse(dentries)
    <3>1. v \in Slot
      BY <1>2, FreeLemma
    <3> QED
      BY <3>1, <1>2 DEF Slot, NULL
  <2> QED
    BY <2>2, <2>3, <1>2
<1>3. CASE hit = {} /\ v # NULL
  <2>1. v \in Slot /\ Spared(v)
    BY <1>3, VictimLemma DEF Spared
  <2>2. CASE room = 0
    <3>1. g = [slot |-> NULL, d |-> [dentries EXCEPT ![v] = Empty],
               evicts |-> v \in InUse(dentries)]
      BY <1>3, <2>2, Zenon DEF vfs_dentry_get
    <3> HIDE DEF g, v
    <3>2. g.slot = NULL /\ g.d = [dentries EXCEPT ![v] = Empty]
      BY <3>1
    <3>3. g.evicts <=> v \in E
      BY <3>1, Zenon DEF E
    <3>4. NoRoom(g, v)
      BY <3>2, <3>3, Zenon DEF NoRoom
    <3> QED
      BY <3>4, <2>1, <1>3 DEF g
  <2>3. CASE room # 0
    <3>1. g = [slot |-> v, d |-> [d1 EXCEPT ![v].sb = sb], evicts |-> v \in InUse(dentries)]
      BY <1>3, <2>3, Zenon DEF vfs_dentry_get
    <3>2. sb = Sb(p, v)
      BY <2>1 DEF Sb, NodeKey, Empty, NULL, Slot
    <3> HIDE DEF g, v, sb
    <3>3. new = NewEntry(n, p, NoSb, 0)
      <4> DEFINE a == [name |-> n, vno |-> 0, parent |-> NULL, sb |-> NoSb, mnt |-> NoSb,
                       count |-> 0]
                 b == [name |-> n, vno |-> 0, parent |-> p, sb |-> NoSb, mnt |-> NoSb,
                       count |-> 0]
      <4>1. a = [Empty EXCEPT !.name = n]
        BY DEF Empty
      <4>2. b = [a EXCEPT !.parent = p]
        OBVIOUS
      <4>3. NewEntry(n, p, NoSb, 0) = [b EXCEPT !.count = 1]
        BY DEF NewEntry
      <4> HIDE DEF a, b
      <4> QED
        BY <4>1, <4>2, <4>3
    <3> HIDE DEF new
    <3>4. [new EXCEPT !.sb = sb] = NewEntry(n, p, sb, 0)
      BY <3>3 DEF NewEntry
    <3>5. [d1 EXCEPT ![v].sb = sb] = [dentries EXCEPT ![v] = [new EXCEPT !.sb = sb]]
      BY <2>1, <3>3
    <3>6. g.slot = v /\ g.d = [dentries EXCEPT ![v] = NewEntry(n, p, Sb(p, v), 0)]
      BY <3>1, <3>2, <3>4, <3>5, Zenon
    <3>7. g.evicts <=> v \in E
      BY <3>1, Zenon DEF E
    <3>8. Made(g, v, n, p)
      BY <3>6, <3>7, Zenon DEF Made
    <3> QED
      BY <3>8, <2>1, <2>3, <1>3 DEF g
  <2> QED
    BY <2>2, <2>3
<1> QED
  BY <1>1, <1>2, <1>3

-----------------------------------------------------------------------------
(* What a step does to the cache, and the accident it records.             *)
Record(v) == accidents' = IF v \in E THEN accidents \cup {"evicted"} ELSE accidents
Same == dentries' = dentries /\ accidents' = accidents
Touch(i) == dentries' = [dentries EXCEPT ![i].count = @ + 1] /\ accidents' = accidents
Drop(v) == Spared(v) /\ dentries' = [dentries EXCEPT ![v] = Empty] /\ Record(v)
Fill(v, n, ino) ==
  /\ Spared(v) /\ v # call.at /\ Cached(dentries, call.at, n) = {} /\ Record(v)
  /\ dentries' = [dentries EXCEPT ![v] = NewEntry(n, call.at, NodeKey(dentries, call.at)[1], ino)]
Derail ==
  /\ wild' = TRUE /\ dentries' \in [Slot -> Dentry]
  /\ \A i \in Slot : dentries[i].mnt # NoSb => dentries'[i] = dentries[i]
  /\ accidents' = accidents \cup {"evicted"} /\ UNCHANGED <<call, chr_devs>>

(* The node an entry stands for is there.                                  *)
LEMMA KeyLemma ==
  ASSUME TypeInv, FsInv, PlacesInv, NEW i \in E
  PROVE  NodeThere(NodeKey(dentries, i))
<1>1. i \in Slot /\ dentries[i] \in Dentry
  BY DEF TypeInv, E, InUse
<1>2. \A d \in sbs : /\ d \in Device /\ DOMAIN supers[d].nodes \subseteq 1 .. MaxIno
                     /\ MEMFS_ROOT_INO \in DOMAIN supers[d].nodes
  BY DEF FsInv, Typed, Tree
<1>3. CASE dentries[i].mnt = NoSb
  <2>1. i \in E \ {R}
    BY <1>1, <1>3 DEF PlacesInv, NULL, Slot
  <2>2. dentries[i].sb \in sbs /\ dentries[i].vno \in DOMAIN supers[dentries[i].sb].nodes
    BY <2>1, <1>1 DEF PlacesInv
  <2> QED
    BY <2>2, <1>2, <1>3 DEF NodeThere, NodeKey, Key
<1>4. CASE dentries[i].mnt # NoSb
  <2>1. dentries[i].mnt \in sbs
    BY <1>1, <1>4 DEF PlacesInv
  <2> QED
    BY <2>1, <1>2, <1>4 DEF NodeThere, NodeKey, Key
<1> QED
  BY <1>3, <1>4

(* Where the cache made an entry, under the entry that the call is at: if  *)
(* that entry gave way itself, the next step follows a null pointer.       *)
LEMMA MadeLemma ==
  ASSUME TypeInv, FsInv, CacheInv, call # NoCall, NEW v \in Slot, NEW n, NEW g,
         Spared(v), Made(g, v, n, call.at)
  PROVE  LET k == NodeKey(g.d, call.at)
         IN  IF v = call.at THEN k[1] = NoSb /\ v \in E
             ELSE /\ k = NodeKey(dentries, call.at) /\ k[1] # NoSb /\ NodeThere(k)
                  /\ Sb(call.at, v) = k[1] /\ g.d[v].vno = 0
<1>1. call.at \in E /\ call.at \in Slot /\ NULL \notin Slot
  BY DEF CacheInv, PlacesInv, E, InUse, NULL, Slot
<1>2. CASE v = call.at
  <2>1. g.d[v] = NewEntry(n, call.at, NoSb, 0)
    BY <1>2, <1>1 DEF Made, Sb, TypeInv
  <2> QED
    BY <2>1, <1>1, <1>2 DEF NewEntry, NodeKey
<1>3. CASE v # call.at
  <2>1. g.d[call.at] = dentries[call.at] /\ g.d[v] = NewEntry(n, call.at, Sb(call.at, v), 0)
    BY <1>3, <1>1 DEF Made, TypeInv
  <2>2. NodeKey(g.d, call.at) = NodeKey(dentries, call.at)
    BY <2>1 DEF NodeKey
  <2>3. NodeThere(NodeKey(dentries, call.at))
    BY <1>1, KeyLemma DEF CacheInv
  <2>4. NodeKey(dentries, call.at)[1] # NoSb
    BY <2>3, VfsAssumption DEF NodeThere, FsInv
  <2>5. Sb(call.at, v) = NodeKey(dentries, call.at)[1]
    BY <1>1, <1>3 DEF Sb
  <2> QED
    BY <1>3, <2>1, <2>2, <2>3, <2>4, <2>5 DEF NewEntry
<1> QED
  BY <1>2, <1>3

(* The entry is taken back, or gets the number of its node.                *)
LEMMA ForgetLemma ==
  ASSUME TypeInv, NEW v \in Slot, NEW n, NEW g, Spared(v), Made(g, v, n, call.at), Record(v),
         Forget(g)
  PROVE  Drop(v)
BY DEF Forget, Made, Drop, TypeInv

(* An entry that is made and numbered fills its place.                     *)
LEMMA FillLemma ==
  ASSUME TypeInv, NEW v \in Slot, v # call.at, NEW n, NEW g, NEW ino, Spared(v),
         Made(g, v, n, call.at), Cached(dentries, call.at, n) = {}, Record(v),
         Sb(call.at, v) = NodeKey(dentries, call.at)[1],
         dentries' = [g.d EXCEPT ![v].vno = ino]
  PROVE  Fill(v, n, ino)
<1> DEFINE sb == Sb(call.at, v)
           new == NewEntry(n, call.at, sb, 0)
<1> HIDE DEF sb
<1>1. [new EXCEPT !.vno = ino] = NewEntry(n, call.at, sb, ino)
  BY DEF NewEntry
<1>2. dentries' = [[dentries EXCEPT ![v] = new] EXCEPT ![v].vno = ino]
  BY DEF Made, sb
<1> HIDE DEF new
<1>3. dentries' = [dentries EXCEPT ![v] = [new EXCEPT !.vno = ino]]
  BY <1>2 DEF TypeInv
<1> QED
  BY <1>1, <1>3 DEF Fill, sb

-----------------------------------------------------------------------------
(* The steps of a walk.  One fails, and has changed nothing but a place    *)
(* that it freed; it goes on to an entry that is in the cache; or it makes *)
(* the entry, with the number that the directory has under the name.       *)
Lookup(k, n) == memfs_ino_lookup(supers[k[1]], k[2], n)

WalkSteps(n) ==
  \/ Derail
  \/ wild' = wild /\ Fail /\ (Same \/ \E v \in Slot : Drop(v))
  \/ wild' = wild /\ \E i \in Cached(dentries, call.at, n) : Touch(i) /\ Advance(i)
  \/ wild' = wild /\ \E v \in Slot :
       /\ Fill(v, n, Lookup(NodeKey(dentries, call.at), n)) /\ Advance(v)
       /\ Lookup(NodeKey(dentries, call.at), n) # 0

(* What the cache does for the name a call looks for.                      *)
LEMMA GotLemma ==
  ASSUME TypeInv, CacheInv, CallInv, call # NoCall, NEW n \in Name, NEW room \in Room
  PROVE  LET g == vfs_dentry_get(dentries, call.at, n, room)
         IN  \/ \E i \in Cached(dentries, call.at, n) : Hit(g, i)
             \/ Cached(dentries, call.at, n) = {} /\ NoPlace(g) /\ Slot \ E = {}
             \/ \E v \in Slot : Cached(dentries, call.at, n) = {} /\ Spared(v) /\ NoRoom(g, v)
             \/ \E v \in Slot : Cached(dentries, call.at, n) = {} /\ Spared(v)
                                /\ Made(g, v, n, call.at) /\ room # 0
<1>1. \A i \in Slot \ E : dentries[i] = Empty
  BY DEF CacheInv, PlacesInv, E, InUse
<1>2. call.at \in Slot \cup {NULL} /\ room \in Nat /\ n \in Name \cup {Root}
  BY VfsAssumption DEF CallInv, Pending
<1>3. dentries \in [Slot -> Dentry]
  BY DEF TypeInv
<1> QED
  BY <1>1, <1>2, <1>3, GetLemma

(* A step of vfs_lookup is one of these.                                   *)
LEMMA WalkLemma ==
  ASSUME TypeInv, FsInv, CacheInv, CallInv, NEW room \in Room, Walk(room)
  PROVE  /\ call.todo # << >> /\ Head(call.todo) \in Name /\ WalkSteps(Head(call.todo))
         /\ UNCHANGED <<vfs_root_dentry, mounts, vnodes, open>>
<1> DEFINE n == Head(call.todo)
           g == vfs_dentry_get(dentries, call.at, n, room)
           k == NodeKey(g.d, call.at)
           ino == memfs_ino_lookup(supers[k[1]], k[2], n)
<1>1. call # NoCall /\ ~wild /\ call.todo # << >> /\ Evicts(g)
      /\ UNCHANGED <<vfs_root_dentry, mounts, vnodes, open>>
  BY DEF Walk
<1>2. n \in Name
  BY <1>1, HeadTailProperties DEF CallInv, Pending
<1>3. \/ g.slot = NULL /\ dentries' = g.d /\ Fail /\ UNCHANGED wild
      \/ /\ g.slot # NULL /\ g.d[g.slot].vno # 0
         /\ dentries' = g.d /\ Advance(g.slot) /\ UNCHANGED wild
      \/ /\ g.slot # NULL /\ g.d[g.slot].vno = 0
         /\ \/ /\ k[1] = NoSb /\ wild' = TRUE /\ dentries' = g.d
               /\ UNCHANGED <<call, chr_devs>>
            \/ /\ k[1] # NoSb /\ ino # 0 /\ Advance(g.slot) /\ UNCHANGED wild
               /\ dentries' = [g.d EXCEPT ![g.slot].vno = ino]
            \/ /\ k[1] # NoSb /\ Forget(g) /\ Fail /\ UNCHANGED wild
  BY DEF Walk
<1>4. \/ \E i \in Cached(dentries, call.at, n) : Hit(g, i)
      \/ Cached(dentries, call.at, n) = {} /\ NoPlace(g) /\ Slot \ E = {}
      \/ \E v \in Slot : Cached(dentries, call.at, n) = {} /\ Spared(v) /\ NoRoom(g, v)
      \/ \E v \in Slot : Cached(dentries, call.at, n) = {} /\ Spared(v)
                         /\ Made(g, v, n, call.at) /\ room # 0
  BY <1>1, <1>2, GotLemma
<1> HIDE DEF g, n
<1>5. ASSUME NEW i \in Cached(dentries, call.at, n), Hit(g, i)
      PROVE  WalkSteps(n)
  <2>1. i \in Slot /\ i # NULL /\ dentries[i].vno # 0 /\ i \in E
    BY DEF Cached, InUse, E, CacheInv, PlacesInv, Slot, NULL
  <2>2. g.d[i].vno # 0
    BY <1>5, <2>1 DEF Hit, TypeInv
  <2>3. dentries' = g.d /\ Advance(i) /\ UNCHANGED wild
    BY <1>3, <1>5, <2>1, <2>2 DEF Hit
  <2>4. accidents' = accidents
    BY <1>1, <1>5 DEF Hit, Evicts
  <2> QED
    BY <1>5, <2>3, <2>4 DEF WalkSteps, Touch, Hit
<1>6. ASSUME NoPlace(g) PROVE WalkSteps(n)
  <2>1. Same /\ Fail /\ UNCHANGED wild
    BY <1>1, <1>3, <1>6 DEF NoPlace, Same, Evicts
  <2> QED
    BY <2>1 DEF WalkSteps
<1>7. ASSUME NEW v \in Slot, Spared(v), NoRoom(g, v)
      PROVE  WalkSteps(n)
  <2>1. Drop(v) /\ Fail /\ UNCHANGED wild
    BY <1>1, <1>3, <1>7 DEF NoRoom, Drop, Record, Evicts
  <2> QED
    BY <2>1 DEF WalkSteps
<1>8. ASSUME NEW v \in Slot, Cached(dentries, call.at, n) = {}, Spared(v),
             Made(g, v, n, call.at)
      PROVE  WalkSteps(n)
  <2>1. g.slot = v /\ v # NULL /\ Record(v)
    BY <1>1, <1>8 DEF Made, Record, Evicts, Slot, NULL
  <2>2. IF v = call.at THEN k[1] = NoSb /\ v \in E
        ELSE /\ k = NodeKey(dentries, call.at) /\ k[1] # NoSb /\ NodeThere(k)
             /\ Sb(call.at, v) = k[1] /\ g.d[v].vno = 0
    BY <1>1, <1>8, MadeLemma
  <2>3. CASE v = call.at
    <3>1. g.d[v].vno = 0
      <4>1. g.d[v] = NewEntry(n, call.at, Sb(call.at, v), 0)
        BY <1>8 DEF Made, TypeInv
      <4> QED
        BY <4>1 DEF NewEntry
    <3>2. k[1] = NoSb /\ wild' = TRUE /\ dentries' = g.d /\ UNCHANGED <<call, chr_devs>>
      BY <1>3, <2>1, <2>2, <2>3, <3>1
    <3>3. NewEntry(n, call.at, Sb(call.at, v), 0) \in Dentry
      <4>1. Sb(call.at, v) = NoSb
        BY <2>3 DEF Sb
      <4> QED
        BY <4>1, <1>2, <2>3 DEF NewEntry, Dentry, n
    <3>4. dentries' \in [Slot -> Dentry]
      BY <1>8, <3>2, <3>3 DEF Made, TypeInv
    <3>5. accidents' = accidents \cup {"evicted"}
      BY <2>1, <2>2, <2>3 DEF Record
    <3>6. \A i \in Slot : dentries[i].mnt # NoSb => dentries'[i] = dentries[i]
      BY <1>8, <3>2 DEF Made, Spared, TypeInv
    <3> QED
      BY <3>2, <3>4, <3>5, <3>6 DEF WalkSteps, Derail
  <2>4. CASE v # call.at
    <3>1. /\ k = NodeKey(dentries, call.at) /\ k[1] # NoSb
          /\ Sb(call.at, v) = k[1] /\ g.d[v].vno = 0
      BY <2>2, <2>4
    <3>2. CASE ino # 0 /\ Advance(v) /\ UNCHANGED wild /\ dentries' = [g.d EXCEPT ![v].vno = ino]
      <4>1. ino = Lookup(NodeKey(dentries, call.at), n)
        BY <3>1 DEF Lookup
      <4> HIDE DEF ino
      <4>2. Fill(v, n, ino)
        BY <1>8, <2>1, <2>4, <3>1, <3>2, FillLemma
      <4> QED
        BY <3>2, <4>1, <4>2 DEF WalkSteps
    <3>3. CASE Forget(g) /\ Fail /\ UNCHANGED wild
      <4>1. Drop(v)
        BY <1>8, <2>1, <3>3, ForgetLemma
      <4> QED
        BY <3>3, <4>1 DEF WalkSteps
    <3> QED
      BY <1>3, <2>1, <3>1, <3>2, <3>3
  <2> QED
    BY <2>3, <2>4
<1> QED
  BY <1>1, <1>2, <1>4, <1>5, <1>6, <1>7, <1>8 DEF n

-----------------------------------------------------------------------------
(* What becomes of a filesystem in which a node is made: it has the node,  *)
(* and the directory one entry more.                                       *)
Grown(ms, dir, name, node) ==
  [WithNode(Numbered(ms), ms.last_ino, node) EXCEPT
     !.nodes[dir].entries = list_add(@, [name |-> name, ino |-> ms.last_ino])]

HasGrown(new, ms, dir, name, node) ==
  /\ new = [last_ino |-> new.last_ino, nodes |-> new.nodes]
  /\ new.last_ino = ms.last_ino + 1
  /\ DOMAIN new.nodes = DOMAIN ms.nodes \cup {ms.last_ino}
  /\ new.nodes = [n \in DOMAIN new.nodes |-> new.nodes[n]]
  /\ new.nodes[ms.last_ino] = node
  /\ \A n \in DOMAIN ms.nodes \ {dir} : new.nodes[n] = ms.nodes[n]
  /\ new.nodes[dir] = [ms.nodes[dir] EXCEPT
                         !.entries = Append(@, [name |-> name, ino |-> ms.last_ino])]

(* The record that the code builds is such a filesystem.                   *)
LEMMA GrownLemma ==
  ASSUME NEW ms, Typed(ms), Tree(ms), NEW dir \in DOMAIN ms.nodes, NEW name, NEW node
  PROVE  HasGrown(Grown(ms, dir, name, node), ms, dir, name, node)
<1> DEFINE ino == ms.last_ino
           ms0 == Numbered(ms)
           ms1 == WithNode(ms0, ino, node)
           f == ms1.nodes
           new == Grown(ms, dir, name, node)
<1>1. ms = [last_ino |-> ms.last_ino, nodes |-> ms.nodes] /\ dir # ino /\ ino \notin DOMAIN ms.nodes
      /\ ino \in Nat
  BY DEF Typed, Tree
<1>2. ms0 = [last_ino |-> ino + 1, nodes |-> ms.nodes]
  BY <1>1 DEF Numbered
<1> HIDE DEF ms0
<1>3. ms1 = [last_ino |-> ino + 1,
             nodes |-> [i \in DOMAIN ms.nodes \cup {ino} |-> IF i = ino THEN node ELSE ms.nodes[i]]]
  BY <1>2 DEF WithNode
<1> HIDE DEF ms1
<1>4. /\ DOMAIN f = DOMAIN ms.nodes \cup {ino} /\ f[ino] = node /\ dir \in DOMAIN f
      /\ \A i \in DOMAIN ms.nodes : f[i] = ms.nodes[i]
      /\ f = [i \in DOMAIN f |-> f[i]]
  BY <1>1, <1>3
<1>5. new = [ms1 EXCEPT !.nodes[dir].entries = list_add(@, [name |-> name, ino |-> ino])]
  BY <1>1 DEF Grown, ms0, ms1
<1> DEFINE h == [f EXCEPT ![dir] = [f[dir] EXCEPT
                   !.entries = Append(@, [name |-> name, ino |-> ino])]]
<1>6. new = [ms1 EXCEPT !.nodes = h]
  BY <1>5, Zenon DEF list_add
<1> HIDE DEF f, new
<1>7. new = [last_ino |-> ino + 1, nodes |-> h]
  BY <1>3, <1>6
<1>8. /\ DOMAIN h = DOMAIN f /\ h[dir] = [f[dir] EXCEPT !.entries = Append(@, [name |-> name, ino |-> ino])]
      /\ \A i \in DOMAIN f : i # dir => h[i] = f[i]
      /\ h = [i \in DOMAIN h |-> h[i]]
  BY <1>4
<1> HIDE DEF h
<1>9. new.last_ino = ino + 1 /\ new.nodes = h
      /\ new = [last_ino |-> new.last_ino, nodes |-> new.nodes]
  BY <1>7
<1> QED
  BY <1>1, <1>4, <1>8, <1>9 DEF HasGrown, new

(* It is still a tree, in which the new node has its one entry.            *)
LEMMA GrownTree ==
  ASSUME NEW ms, Typed(ms), Tree(ms), NEW dir \in DOMAIN ms.nodes, NEW name \in Name,
         ms.nodes[dir].type = Dir, ms.last_ino <= MaxIno,
         NEW node \in Node, node.entries = << >>,
         NEW new, HasGrown(new, ms, dir, name, node)
  PROVE  Typed(new) /\ Tree(new)
<1> DEFINE ino == ms.last_ino
           e == [name |-> name, ino |-> ino]
           s == ms.nodes[dir].entries
<1>1. ino \in Nat /\ ino \in 1 .. MaxIno /\ ino \notin DOMAIN ms.nodes /\ dir # ino
      /\ e \in DirEntry /\ s \in Seq(DirEntry)
      /\ e.ino = ino
  <2>1. ino \in Nat /\ ino >= 2 /\ \A n \in DOMAIN ms.nodes : n < ino
    BY DEF Typed, Tree
  <2>2. DOMAIN ms.nodes \subseteq Nat
    BY VfsAssumption DEF Typed
  <2>3. ino \in 1 .. MaxIno /\ ino \notin DOMAIN ms.nodes /\ dir # ino
    BY <2>1, <2>2, VfsAssumption
  <2>4. ms.nodes[dir] \in Node
    BY DEF Typed
  <2> QED
    BY <2>1, <2>3, <2>4 DEF Node, DirEntry
<1>2. /\ Append(s, e) \in Seq(DirEntry)
      /\ Len(Append(s, e)) = Len(s) + 1 /\ Len(s) \in Nat
      /\ \A x \in 1 .. Len(s) : Append(s, e)[x] = s[x]
      /\ Append(s, e)[Len(s) + 1] = e
      /\ DOMAIN s = 1 .. Len(s) /\ DOMAIN Append(s, e) = 1 .. Len(s) + 1
  BY <1>1, AppendProperties, LenProperties
<1>3. new.nodes[dir] = [ms.nodes[dir] EXCEPT !.entries = Append(s, e)]
  BY DEF HasGrown
<1>4. ms.nodes[dir] \in Node
  BY DEF Typed
<1>5. new.nodes[dir] \in Node /\ new.nodes[dir].entries = Append(s, e) /\ new.nodes[dir].type = Dir
  BY <1>2, <1>3, <1>4 DEF Node
<1> HIDE DEF e, s
<1>6. \A n \in DOMAIN ms.nodes : n # dir => new.nodes[n] = ms.nodes[n]
  BY DEF HasGrown
<1>7. new.nodes[ino] = node /\ new.last_ino = ino + 1 /\ DOMAIN new.nodes = DOMAIN ms.nodes \cup {ino}
      /\ new = [last_ino |-> new.last_ino, nodes |-> new.nodes]
  BY DEF HasGrown
<1>8. Typed(new)
  <2>1. \A n \in DOMAIN new.nodes : new.nodes[n] \in Node
    BY <1>5, <1>6, <1>7 DEF Typed
  <2>2. new.nodes \in [DOMAIN new.nodes -> Node]
    <3>1. new.nodes = [n \in DOMAIN new.nodes |-> new.nodes[n]]
      BY DEF HasGrown
    <3> QED
      BY <2>1, <3>1
  <2> QED
    BY <1>1, <1>7, <2>2 DEF Typed
<1>9. Tree(new)
  <2>1. new.last_ino >= 2 /\ \A n \in DOMAIN new.nodes : n < new.last_ino
    BY <1>1, <1>7 DEF Tree, Typed
  <2>2. MEMFS_ROOT_INO \in DOMAIN new.nodes /\ new.nodes[MEMFS_ROOT_INO].type = Dir
    BY <1>5, <1>6, <1>7 DEF Tree
  <2>3. ASSUME NEW n \in DOMAIN new.nodes, NEW x \in DOMAIN new.nodes[n].entries
        PROVE  \/ /\ n \in DOMAIN ms.nodes /\ x \in DOMAIN ms.nodes[n].entries
                  /\ new.nodes[n].type = ms.nodes[n].type
                  /\ new.nodes[n].entries[x] = ms.nodes[n].entries[x]
               \/ n = dir /\ x = Len(s) + 1 /\ new.nodes[n].entries[x] = e
    <3>1. CASE n = ino
      BY <1>7, <3>1
    <3>2. CASE n = dir
      <4>1. x \in 1 .. Len(s) + 1
        BY <1>2, <1>5, <3>2
      <4> QED
        BY <1>2, <1>5, <3>2, <4>1 DEF s
    <3>3. CASE n # ino /\ n # dir
      BY <1>6, <1>7, <3>3
    <3> QED
      BY <3>1, <3>2, <3>3
  <2>4. ASSUME NEW n \in DOMAIN new.nodes, NEW x \in DOMAIN new.nodes[n].entries
        PROVE  /\ new.nodes[n].type = Dir
               /\ new.nodes[n].entries[x].ino \in DOMAIN new.nodes \ {MEMFS_ROOT_INO}
    <3>1. ino # MEMFS_ROOT_INO
      BY <1>1 DEF Tree
    <3>2. CASE n = dir /\ new.nodes[n].entries[x] = e
      BY <1>1, <1>5, <1>7, <3>1, <3>2
    <3>3. CASE /\ n \in DOMAIN ms.nodes /\ x \in DOMAIN ms.nodes[n].entries
               /\ new.nodes[n].type = ms.nodes[n].type
               /\ new.nodes[n].entries[x] = ms.nodes[n].entries[x]
      BY <1>7, <3>3 DEF Tree
    <3> QED
      BY <2>3, <3>2, <3>3
  <2>5. ASSUME NEW n \in DOMAIN new.nodes, NEW m \in DOMAIN new.nodes,
               NEW x \in DOMAIN new.nodes[n].entries, NEW y \in DOMAIN new.nodes[m].entries,
               new.nodes[n].entries[x].ino = new.nodes[m].entries[y].ino
        PROVE  n = m /\ x = y
    <3>1. \A a \in DOMAIN ms.nodes : \A b \in DOMAIN ms.nodes[a].entries :
            ms.nodes[a].entries[b].ino # ino
      BY <1>1 DEF Tree
    <3>2. CASE new.nodes[n].entries[x].ino = ino
      <4>1. n = dir /\ x = Len(s) + 1
        BY <2>3, <3>1, <3>2
      <4>2. new.nodes[m].entries[y].ino = ino
        BY <2>5, <3>2
      <4>3. m = dir /\ y = Len(s) + 1
        BY <2>3, <3>1, <4>2
      <4> QED
        BY <4>1, <4>3
    <3>3. CASE new.nodes[n].entries[x].ino # ino
      <4>1. /\ n \in DOMAIN ms.nodes /\ x \in DOMAIN ms.nodes[n].entries
            /\ new.nodes[n].entries[x] = ms.nodes[n].entries[x]
        BY <1>1, <2>3, <3>3
      <4>2. /\ m \in DOMAIN ms.nodes /\ y \in DOMAIN ms.nodes[m].entries
            /\ new.nodes[m].entries[y] = ms.nodes[m].entries[y]
        BY <1>1, <2>3, <2>5, <3>3
      <4> QED
        BY <2>5, <4>1, <4>2 DEF Tree
    <3> QED
      BY <3>2, <3>3
  <2> QED
    BY <2>1, <2>2, <2>4, <2>5 DEF Tree
<1> QED
  BY <1>8, <1>9

-----------------------------------------------------------------------------
(* The steps of a creation.  One fails, and has changed nothing but a      *)
(* place that it freed, the count of an entry that it found, or the next   *)
(* number of the filesystem; or it makes the node and its entry.           *)
CreateSteps(n, k) ==
  \/ Derail /\ supers' = supers
  \/ /\ wild' = wild /\ Fail /\ supers' = supers
     /\ Same \/ (\E v \in Slot : Drop(v)) \/ \E i \in E : Touch(i)
  \/ /\ wild' = wild /\ Fail /\ \E v \in Slot : Drop(v)
     /\ supers' = [supers EXCEPT ![k[1]] = Numbered(@)]
  \/ /\ wild' = wild /\ chr_devs' = chr_devs
     /\ call' = IF call.op = "open" THEN Begin(call, "again", call.path) ELSE NoCall
     /\ NodeOf(k).type = Dir /\ \E v \in Slot : Fill(v, n, supers[k[1]].last_ino)
     /\ supers' = [supers EXCEPT ![k[1]] =
                     Grown(@, k[2], n, NewNode(call.type, call.perm, call.dev))]

(* What memfs_ino_mknod answers: nothing, a number lost, or the node.      *)
LEMMA MknodLemma ==
  ASSUME NEW ms, Typed(ms), Tree(ms), NEW dir, NEW name, NEW type, NEW perm, NEW dev,
         NEW room \in Nat
  PROVE  LET made == memfs_ino_mknod(ms, dir, name, type, perm, dev, room)
         IN  IF made.ino = 0 THEN made.ms \in {ms, Numbered(ms)}
             ELSE /\ made.ino = ms.last_ino
                  /\ made.ms = Grown(ms, dir, name, NewNode(type, perm, dev))
<1> DEFINE made == memfs_ino_mknod(ms, dir, name, type, perm, dev, room)
<1>1. ms.last_ino # 0
  BY DEF Typed, Tree
<1>2. CASE room = 0
  <2>1. made = [ms |-> ms, ino |-> 0]
    BY <1>2 DEF memfs_ino_mknod
  <2> HIDE DEF made
  <2> QED
    BY <2>1 DEF made
<1>3. CASE room # 0 /\ room < 5
  <2>1. made = [ms |-> Numbered(ms), ino |-> 0]
    BY <1>3 DEF memfs_ino_mknod
  <2> HIDE DEF made
  <2> QED
    BY <2>1 DEF made
<1>4. CASE ~(room < 5)
  <2>1. made = [ms |-> Grown(ms, dir, name, NewNode(type, perm, dev)), ino |-> ms.last_ino]
    BY <1>4 DEF memfs_ino_mknod, Grown
  <2> HIDE DEF made
  <2> QED
    BY <1>1, <2>1 DEF made
<1> QED
  BY <1>2, <1>3, <1>4

(* A step of vfs_create_node is one of these.                              *)
LEMMA CreateLemma ==
  ASSUME TypeInv, FsInv, CacheInv, CallInv, NEW room \in Room, CreateNode(room)
  PROVE  /\ call # NoCall /\ call.phase = "create" /\ Last(call.path) \in Name
         /\ CreateSteps(Last(call.path), NodeKey(dentries, call.at))
         /\ UNCHANGED <<vfs_root_dentry, fs_types, sbs, vnodes, open>>
<1> DEFINE n == Last(call.path)
           g == vfs_dentry_get(dentries, call.at, n, room)
           k == NodeKey(g.d, call.at)
           here == NodeKey(dentries, call.at)
           made == memfs_ino_mknod(supers[k[1]], k[2], n, call.type,
                                   call.perm, call.dev, room - 1 - Spent(k))
           again == IF call.op = "open" THEN Begin(call, "again", call.path) ELSE NoCall
<1>1. call # NoCall /\ ~wild /\ call.phase = "create" /\ Evicts(g)
      /\ UNCHANGED <<vfs_root_dentry, fs_types, sbs, vnodes, open>>
  BY DEF CreateNode
<1>2. n \in Name
  <2>1. call.path \in Seq(Name) /\ call.path # << >>
    BY <1>1 DEF CallInv, Pending
  <2> QED
    BY <2>1, FrontLemma
<1>3. \/ /\ g.slot = NULL \/ Exists(g)
         /\ dentries' = g.d /\ Fail /\ UNCHANGED <<supers, wild>>
      \/ /\ g.slot # NULL /\ ~Exists(g)
         /\ \/ /\ k[1] = NoSb /\ wild' = TRUE /\ dentries' = g.d
               /\ UNCHANGED <<supers, call, chr_devs>>
            \/ /\ k[1] # NoSb /\ Forget(g) /\ Fail
               /\ UNCHANGED <<supers, wild>>
            \/ /\ k[1] # NoSb /\ Loads(k, room - 1) /\ NodeOf(k).type = Dir
               /\ supers' = [supers EXCEPT ![k[1]] = made.ms] /\ UNCHANGED wild
               /\ IF made.ino = 0 THEN Forget(g) /\ Fail
                  ELSE /\ dentries' = [g.d EXCEPT ![g.slot].vno = made.ino]
                       /\ UNCHANGED chr_devs /\ call' = again
  BY DEF CreateNode
<1>4. \/ \E i \in Cached(dentries, call.at, n) : Hit(g, i)
      \/ Cached(dentries, call.at, n) = {} /\ NoPlace(g) /\ Slot \ E = {}
      \/ \E v \in Slot : Cached(dentries, call.at, n) = {} /\ Spared(v) /\ NoRoom(g, v)
      \/ \E v \in Slot : Cached(dentries, call.at, n) = {} /\ Spared(v)
                         /\ Made(g, v, n, call.at) /\ room # 0
  BY <1>1, <1>2, GotLemma
<1> HIDE DEF g, n, again, made
<1>5. ASSUME NEW i \in Cached(dentries, call.at, n), Hit(g, i)
      PROVE  CreateSteps(n, here)
  <2>1. i \in Slot /\ i # NULL /\ dentries[i].vno # 0 /\ i \in E
    BY DEF Cached, InUse, E, CacheInv, PlacesInv, Slot, NULL
  <2>2. g.d[i].vno # 0 /\ Exists(g)
    BY <1>5, <2>1 DEF Hit, TypeInv, Exists
  <2>3. dentries' = g.d /\ Fail /\ UNCHANGED <<supers, wild>>
    BY <1>3, <1>5, <2>1, <2>2 DEF Hit
  <2>4. Touch(i)
    BY <1>1, <1>5, <2>3 DEF Hit, Evicts, Touch
  <2> QED
    BY <2>1, <2>3, <2>4 DEF CreateSteps
<1>6. ASSUME NoPlace(g) PROVE CreateSteps(n, here)
  <2>1. Same /\ Fail /\ UNCHANGED <<supers, wild>>
    BY <1>1, <1>3, <1>6 DEF NoPlace, Same, Evicts
  <2> QED
    BY <2>1 DEF CreateSteps
<1>7. ASSUME NEW v \in Slot, Spared(v), NoRoom(g, v)
      PROVE  CreateSteps(n, here)
  <2>1. Drop(v) /\ Fail /\ UNCHANGED <<supers, wild>>
    BY <1>1, <1>3, <1>7 DEF NoRoom, Drop, Record, Evicts
  <2> QED
    BY <2>1 DEF CreateSteps
<1>8. ASSUME NEW v \in Slot, Cached(dentries, call.at, n) = {}, Spared(v),
             Made(g, v, n, call.at), room # 0
      PROVE  CreateSteps(n, here)
  <2>1. g.slot = v /\ v # NULL /\ Record(v)
    BY <1>1, <1>8 DEF Made, Record, Evicts, Slot, NULL
  <2>2. IF v = call.at THEN k[1] = NoSb /\ v \in E
        ELSE /\ k = here /\ k[1] # NoSb /\ NodeThere(k)
             /\ Sb(call.at, v) = k[1] /\ g.d[v].vno = 0
    BY <1>1, <1>8, MadeLemma
  <2>3. g.d[v].vno = 0 /\ ~Exists(g)
    <3>1. g.d[v] = NewEntry(n, call.at, Sb(call.at, v), 0)
      BY <1>8 DEF Made, TypeInv
    <3> QED
      BY <2>1, <3>1 DEF NewEntry, Exists
  <2>4. CASE v = call.at
    <3>1. k[1] = NoSb /\ wild' = TRUE /\ dentries' = g.d /\ UNCHANGED <<supers, call, chr_devs>>
      BY <1>3, <2>1, <2>2, <2>3, <2>4
    <3>2. NewEntry(n, call.at, Sb(call.at, v), 0) \in Dentry
      <4>1. Sb(call.at, v) = NoSb
        BY <2>4 DEF Sb
      <4> QED
        BY <4>1, <1>2, <2>4 DEF NewEntry, Dentry, n
    <3>3. dentries' \in [Slot -> Dentry]
      BY <1>8, <3>1, <3>2 DEF Made, TypeInv
    <3>4. accidents' = accidents \cup {"evicted"}
      BY <2>1, <2>2, <2>4 DEF Record
    <3>5. \A i \in Slot : dentries[i].mnt # NoSb => dentries'[i] = dentries[i]
      BY <1>8, <3>1 DEF Made, Spared, TypeInv
    <3> QED
      BY <3>1, <3>3, <3>4, <3>5 DEF CreateSteps, Derail
  <2>5. CASE v # call.at
    <3>1. k = here /\ k[1] # NoSb /\ Sb(call.at, v) = k[1] /\ NodeThere(k)
      BY <2>2, <2>5
    <3>2. CASE Forget(g) /\ Fail /\ UNCHANGED <<supers, wild>>
      <4>1. Drop(v)
        BY <1>8, <2>1, <3>2, ForgetLemma
      <4> QED
        BY <3>2, <4>1 DEF CreateSteps
    <3>3. CASE /\ Loads(k, room - 1) /\ NodeOf(k).type = Dir
               /\ supers' = [supers EXCEPT ![k[1]] = made.ms] /\ UNCHANGED wild
               /\ IF made.ino = 0 THEN Forget(g) /\ Fail
                  ELSE /\ dentries' = [g.d EXCEPT ![g.slot].vno = made.ino]
                       /\ UNCHANGED chr_devs /\ call' = again
      <4> DEFINE ms == supers[k[1]]
      <4>1. k[1] \in Device /\ Typed(ms) /\ Tree(ms)
        BY <3>1 DEF NodeThere, FsInv
      <4>2. room - 1 - Spent(k) \in Nat
        <5>1. room \in Nat /\ room >= 1
          BY <1>8, VfsAssumption
        <5>2. vnodes[k] > 0 \/ room - 1 >= 2
          BY <3>3 DEF Loads
        <5> QED
          BY <5>1, <5>2 DEF Spent
      <4>3. IF made.ino = 0 THEN made.ms \in {ms, Numbered(ms)}
            ELSE /\ made.ino = ms.last_ino
                 /\ made.ms = Grown(ms, k[2], n, NewNode(call.type, call.perm, call.dev))
        BY <4>1, <4>2, MknodLemma DEF made
      <4>4. CASE made.ino = 0
        <5>1. Drop(v) /\ Fail
          BY <1>8, <2>1, <3>3, <4>4, ForgetLemma
        <5>2. supers' = [supers EXCEPT ![k[1]] = ms] \/ supers' = [supers EXCEPT ![k[1]] = Numbered(@)]
          BY <3>3, <4>3, <4>4
        <5>3. [supers EXCEPT ![k[1]] = ms] = supers
          BY DEF FsInv
        <5> QED
          BY <3>1, <3>3, <5>1, <5>2, <5>3 DEF CreateSteps
      <4>5. CASE made.ino # 0
        <5>1. dentries' = [g.d EXCEPT ![v].vno = ms.last_ino]
          BY <2>1, <3>3, <4>3, <4>5
        <5>2. Fill(v, n, ms.last_ino)
          BY <1>8, <2>1, <2>5, <3>1, <5>1, FillLemma
        <5>3. supers' = [supers EXCEPT ![k[1]] =
                           Grown(@, k[2], n, NewNode(call.type, call.perm, call.dev))]
          BY <3>3, <4>3, <4>5
        <5> QED
          BY <3>1, <3>3, <4>5, <5>2, <5>3 DEF CreateSteps, again
      <4> QED
        BY <4>4, <4>5
    <3> QED
      BY <1>3, <2>1, <2>3, <3>1, <3>2, <3>3
  <2> QED
    BY <2>4, <2>5
<1> QED
  BY <1>1, <1>2, <1>4, <1>5, <1>6, <1>7, <1>8 DEF n

-----------------------------------------------------------------------------
(* What the steps do to the filesystems: no node of a mounted one goes, or *)
(* changes its type.                                                       *)
Grows ==
  /\ sbs \subseteq sbs'
  /\ \A d \in sbs : \A n \in DOMAIN supers[d].nodes :
       /\ n \in DOMAIN supers'[d].nodes
       /\ supers'[d].nodes[n].type = supers[d].nodes[n].type
       /\ supers'[d].nodes[n].dev = supers[d].nodes[n].dev

SameTrees == sbs' = sbs /\ \A d \in sbs : supers'[d].nodes = supers[d].nodes

(* A step that leaves the filesystems alone keeps all of that.             *)
LEMMA KeepFs ==
  ASSUME FsInv, UNCHANGED <<supers, sbs>>
  PROVE  FsInv' /\ Grows /\ SameTrees
BY DEF FsInv, Grows, SameTrees, Typed, Tree

(* A number is lost. *)
LEMMA NumberFs ==
  ASSUME FsInv, NEW d \in sbs, sbs' = sbs, supers' = [supers EXCEPT ![d] = Numbered(@)]
  PROVE  FsInv' /\ Grows /\ SameTrees
<1> DEFINE ms == supers[d]
           new == Numbered(ms)
<1>1. Typed(ms) /\ Tree(ms) /\ d \in Device
  BY DEF FsInv
<1> HIDE DEF ms
<1>2. new = [last_ino |-> ms.last_ino + 1, nodes |-> ms.nodes]
  BY <1>1 DEF Typed, Numbered
<1>3. new.last_ino = ms.last_ino + 1 /\ new.nodes = ms.nodes
  BY <1>2
<1>4. Typed(new) /\ Tree(new)
  <2> HIDE DEF new
  <2>1. ms.last_ino \in Nat /\ DOMAIN ms.nodes \subseteq Nat
    BY <1>1, VfsAssumption DEF Typed
  <2>2. Typed(new)
    BY <1>1, <1>2, <1>3 DEF Typed
  <2>3. Tree(new)
    BY <1>1, <1>3, <2>1 DEF Tree
  <2> QED
    BY <2>2, <2>3
<1>5. supers' = [supers EXCEPT ![d] = new]
  BY DEF ms
<1> HIDE DEF new
<1>6. supers'[d] = new /\ \A e \in Device \ {d} : supers'[e] = supers[e]
  BY <1>1, <1>5 DEF FsInv
<1>7. FsInv'
  <2>1. supers' = [e \in Device |-> supers'[e]] /\ sbs' \subseteq Device
    BY <1>5 DEF FsInv
  <2>2. ASSUME NEW e \in Device
        PROVE  IF e \in sbs' THEN Typed(supers'[e]) /\ Tree(supers'[e])
               ELSE supers'[e] \in {NoSuper, memfs_init_super}
    BY <1>4, <1>6 DEF FsInv
  <2> QED
    BY <2>1, <2>2 DEF FsInv, Typed, Tree
<1>8. SameTrees
  BY <1>3, <1>6 DEF SameTrees, ms, FsInv
<1> QED
  BY <1>7, <1>8 DEF Grows, SameTrees

(* A filesystem that is not mounted appears, or goes. *)
LEMMA OutsideFs ==
  ASSUME FsInv, NEW d \in Device \ sbs, NEW s \in {NoSuper, memfs_init_super},
         sbs' = sbs, supers' = [supers EXCEPT ![d] = s]
  PROVE  FsInv' /\ Grows /\ SameTrees
<1>1. supers'[d] = s /\ \A e \in Device \ {d} : supers'[e] = supers[e]
  BY DEF FsInv
<1>2. supers' = [e \in Device |-> supers'[e]] /\ sbs' \subseteq Device
  BY DEF FsInv
<1>3. ASSUME NEW e \in Device
      PROVE  IF e \in sbs' THEN Typed(supers'[e]) /\ Tree(supers'[e])
             ELSE supers'[e] \in {NoSuper, memfs_init_super}
  BY <1>1 DEF FsInv
<1>4. FsInv'
  BY <1>2, <1>3 DEF FsInv, Typed, Tree
<1>5. SameTrees
  BY <1>1 DEF SameTrees, FsInv
<1> QED
  BY <1>4, <1>5 DEF Grows, SameTrees

(* A new node has no entries. *)
LEMMA NewNodeLemma ==
  ASSUME NEW type \in Types, NEW perm \in SUBSET {"r", "w"}, NEW dev \in Device \cup {NoDev}
  PROVE  LET node == NewNode(type, perm, dev)
         IN  node \in Node /\ node.entries = << >> /\ node.type = type /\ node.dev = dev
<1>1. << >> \in Seq(DirEntry)
  BY EmptySeq
<1> QED
  BY <1>1 DEF NewNode, Node, list_init

(* A node is made. *)
LEMMA GrowFs ==
  ASSUME FsInv, NEW k, NodeThere(k), NodeOf(k).type = Dir, supers[k[1]].last_ino <= MaxIno,
         NEW name \in Name, NEW node \in Node, node.entries = << >>, sbs' = sbs,
         supers' = [supers EXCEPT ![k[1]] = Grown(@, k[2], name, node)]
  PROVE  /\ FsInv' /\ Grows /\ \A e \in Device \ {k[1]} : supers'[e] = supers[e]
         /\ HasGrown(supers'[k[1]], supers[k[1]], k[2], name, node)
<1> DEFINE d == k[1]
           dir == k[2]
           ms == supers[d]
           new == Grown(ms, dir, name, node)
<1>1. Typed(ms) /\ Tree(ms) /\ d \in Device /\ d \in sbs /\ dir \in DOMAIN ms.nodes
      /\ ms.nodes[dir].type = Dir
  BY DEF FsInv, NodeThere, NodeOf
<1>2. supers' = [supers EXCEPT ![d] = new]
  OBVIOUS
<1> HIDE DEF ms, new, d, dir
<1>3. HasGrown(new, ms, dir, name, node)
  BY <1>1, GrownLemma DEF new
<1>4. Typed(new) /\ Tree(new)
  BY <1>1, <1>3, GrownTree DEF ms, d
<1>5. supers'[d] = new /\ \A e \in Device \ {d} : supers'[e] = supers[e]
  BY <1>1, <1>2 DEF FsInv
<1>6. FsInv'
  <2>1. supers' = [e \in Device |-> supers'[e]] /\ sbs' \subseteq Device
    BY <1>2 DEF FsInv
  <2>2. ASSUME NEW e \in Device
        PROVE  IF e \in sbs' THEN Typed(supers'[e]) /\ Tree(supers'[e])
               ELSE supers'[e] \in {NoSuper, memfs_init_super}
    BY <1>1, <1>4, <1>5 DEF FsInv
  <2> QED
    BY <2>1, <2>2 DEF FsInv, Typed, Tree
<1>7. ASSUME NEW n \in DOMAIN ms.nodes
      PROVE  /\ n \in DOMAIN new.nodes /\ new.nodes[n].type = ms.nodes[n].type
             /\ new.nodes[n].dev = ms.nodes[n].dev
  <2>1. ms.nodes[n] \in Node
    BY <1>1 DEF Typed
  <2>2. CASE n = dir
    <3>1. new.nodes[n] = [ms.nodes[n] EXCEPT
                            !.entries = Append(@, [name |-> name, ino |-> ms.last_ino])]
      BY <1>3, <2>2 DEF HasGrown
    <3> QED
      BY <1>3, <2>1, <3>1 DEF HasGrown, Node
  <2> QED
    BY <1>3, <2>2 DEF HasGrown
<1>8. Grows
  <2>1. \A e \in sbs : e = d \/ supers'[e] = supers[e]
    BY <1>5 DEF FsInv
  <2> QED
    BY <1>5, <1>7, <2>1 DEF Grows, ms
<1> QED
  BY <1>3, <1>5, <1>6, <1>8 DEF ms, d, dir

(* A filesystem is mounted for the first time, and gets its root. *)
RootNode == NewNode(Dir, {"r", "w"}, NoDev)

(* What memfs_sb_mount makes of an empty filesystem is a tree of one node. *)
LEMMA MountFs ==
  ASSUME FsInv, NEW d \in Device \ sbs, supers[d] # NoSuper, sbs' = sbs \cup {d},
         supers' = [supers EXCEPT ![d] = memfs_sb_mount(supers[d])]
  PROVE  /\ FsInv' /\ Grows /\ \A e \in Device \ {d} : supers'[e] = supers[e]
         /\ supers'[d] # NoSuper /\ DOMAIN supers'[d].nodes = {MEMFS_ROOT_INO}
         /\ supers'[d].nodes[MEMFS_ROOT_INO] = RootNode
<1> DEFINE ms0 == Numbered(memfs_init_super)
           ms1 == WithNode(ms0, MEMFS_ROOT_INO, RootNode)
           f == [i \in {MEMFS_ROOT_INO} |-> RootNode]
           new == memfs_sb_mount(memfs_init_super)
<1>1. supers[d] = memfs_init_super
  BY DEF FsInv
<1>2. ms0 = [last_ino |-> 1, nodes |-> << >>]
  BY DEF Numbered, memfs_init_super
<1> HIDE DEF ms0
<1>3. ms0.last_ino = 1 /\ DOMAIN ms0.nodes = {}
  BY <1>2
<1>4. ms1 = [last_ino |-> 1, nodes |-> f]
  <2>1. [i \in DOMAIN ms0.nodes \cup {MEMFS_ROOT_INO} |->
           IF i = MEMFS_ROOT_INO THEN RootNode ELSE ms0.nodes[i]] = f
    BY <1>3
  <2>2. ms1 = [ms0 EXCEPT !.nodes = f]
    BY <2>1, Zenon DEF WithNode
  <2> HIDE DEF f
  <2> QED
    BY <1>2, <2>2
<1>5. new = [ms1 EXCEPT !.last_ino = IF @ <= 1 THEN 2 ELSE @]
  <2>1. MEMFS_ROOT_INO \notin DOMAIN memfs_init_super.nodes
    BY DEF memfs_init_super
  <2> QED
    BY <2>1, Zenon DEF memfs_sb_mount, ms1, ms0, RootNode
<1> HIDE DEF ms1, f, new
<1>6. new = [last_ino |-> 2, nodes |-> f]
  BY <1>4, <1>5
<1>7. new.last_ino = 2 /\ new.nodes = f /\ DOMAIN f = {MEMFS_ROOT_INO}
      /\ f[MEMFS_ROOT_INO] = RootNode /\ new # NoSuper
      /\ new = [last_ino |-> new.last_ino, nodes |-> new.nodes]
      /\ f = [i \in DOMAIN f |-> f[i]]
  BY <1>6 DEF f, NoSuper
<1>8. RootNode \in Node /\ RootNode.entries = << >> /\ RootNode.type = Dir
  <2>1. Dir \in Types
    BY DEF Types
  <2>2. {"r", "w"} \in SUBSET {"r", "w"} /\ NoDev \in Device \cup {NoDev}
    BY Zenon
  <2> QED
    BY <2>1, <2>2, NewNodeLemma DEF RootNode
<1>9. Typed(new) /\ Tree(new)
  <2>1. f \in [DOMAIN f -> Node]
    BY <1>7, <1>8
  <2>2. Typed(new)
    BY <1>7, <2>1, VfsAssumption DEF Typed, MEMFS_ROOT_INO
  <2>3. DOMAIN f[MEMFS_ROOT_INO].entries = {}
    BY <1>7, <1>8
  <2>4. Tree(new)
    BY <1>7, <1>8, <2>3 DEF Tree, MEMFS_ROOT_INO
  <2> QED
    BY <2>2, <2>4
<1>10. supers' = [supers EXCEPT ![d] = new]
  BY <1>1 DEF new
<1>11. supers'[d] = new /\ \A e \in Device \ {d} : supers'[e] = supers[e]
  BY <1>10 DEF FsInv
<1>12. FsInv'
  <2>1. supers' = [e \in Device |-> supers'[e]] /\ sbs' \subseteq Device
    BY <1>10 DEF FsInv
  <2>2. ASSUME NEW e \in Device
        PROVE  IF e \in sbs' THEN Typed(supers'[e]) /\ Tree(supers'[e])
               ELSE supers'[e] \in {NoSuper, memfs_init_super}
    BY <1>9, <1>11 DEF FsInv
  <2> QED
    BY <2>1, <2>2 DEF FsInv, Typed, Tree
<1>13. Grows
  BY <1>11 DEF Grows, FsInv
<1> QED
  BY <1>7, <1>11, <1>12, <1>13

-----------------------------------------------------------------------------
(* What a step may do to a place of the cache when it mounts nothing: it   *)
(* leaves the place but for its count, frees it, or gives it to the name   *)
(* of a node that is there.  A mountpoint it leaves.                       *)
Kept(i) ==
  /\ dentries'[i] = [dentries[i] EXCEPT !.count = dentries'[i].count]
  /\ dentries'[i] = dentries[i] \/ i \in E
Cleared(i) == dentries[i].mnt = NoSb /\ dentries'[i] = Empty
Filled(i) ==
  dentries[i].mnt = NoSb /\ \E n \in Name, p \in Slot, d \in sbs' :
    \E ino \in DOMAIN supers'[d].nodes : dentries'[i] = NewEntry(n, p, d, ino)

CacheStep ==
  /\ dentries' \in [Slot -> Dentry]
  /\ \A i \in Slot : Kept(i) \/ Cleared(i) \/ Filled(i)

(* An entry that is kept has everything it had but its count.              *)
LEMMA KeptLemma ==
  ASSUME dentries \in [Slot -> Dentry], NEW i \in Slot, Kept(i)
  PROVE  /\ dentries'[i].name = dentries[i].name /\ dentries'[i].vno = dentries[i].vno
         /\ dentries'[i].parent = dentries[i].parent /\ dentries'[i].sb = dentries[i].sb
         /\ dentries'[i].mnt = dentries[i].mnt
         /\ i \in E' <=> i \in E
BY DEF Kept, Dentry, E, InUse

(* Such steps keep the invariant of the places.                            *)
LEMMA PlacesKeep ==
  ASSUME TypeInv, FsInv, PlacesInv, FsInv', Grows, R' = R, CacheStep
  PROVE  PlacesInv'
<1>1. \A i \in Slot : dentries[i] \in Dentry /\ dentries'[i] \in Dentry
  BY DEF TypeInv, CacheStep
<1>2. ASSUME NEW i \in Slot
      PROVE  /\ dentries'[i].name = NoName => dentries'[i] = Empty
             /\ dentries'[i].name # NoName => dentries'[i].vno # 0
             /\ dentries'[i].sb # NoSb => dentries'[i].sb \in sbs'
             /\ dentries'[i].mnt # NoSb => dentries'[i].mnt \in sbs'
  <2>1. CASE Kept(i)
    <3>1. dentries'[i] = dentries[i] \/ dentries[i].name # NoName
      BY <2>1 DEF Kept, E, InUse
    <3> QED
      BY <2>1, <3>1, KeptLemma DEF TypeInv, PlacesInv, Grows
  <2>2. CASE Cleared(i)
    BY <2>2 DEF Cleared, Empty
  <2>3. CASE Filled(i)
    <3>1. PICK n \in Name, p \in Slot, d \in sbs' : \E ino \in DOMAIN supers'[d].nodes :
            dentries'[i] = NewEntry(n, p, d, ino)
      BY <2>3 DEF Filled
    <3>2. PICK ino \in DOMAIN supers'[d].nodes : dentries'[i] = NewEntry(n, p, d, ino)
      BY <3>1
    <3>3. ino # 0
      BY VfsAssumption DEF FsInv, Typed
    <3> QED
      BY <3>2, <3>3, VfsAssumption DEF NewEntry
  <2> QED
    BY <2>1, <2>2, <2>3 DEF CacheStep
<1>3. ASSUME NEW i \in E' \ {R}
      PROVE  /\ dentries'[i].parent # NULL /\ dentries'[i].name \in Name
             /\ dentries'[i].sb # NoSb
             /\ dentries'[i].vno \in DOMAIN supers'[dentries'[i].sb].nodes
  <2>1. i \in Slot /\ dentries'[i].name # NoName
    BY DEF E, InUse
  <2>2. CASE Kept(i)
    <3>1. i \in E \ {R}
      BY <2>1, <2>2, KeptLemma DEF TypeInv
    <3>2. dentries[i].sb \in sbs /\ dentries[i].vno \in DOMAIN supers[dentries[i].sb].nodes
      BY <2>1, <3>1 DEF PlacesInv
    <3> QED
      BY <2>1, <2>2, <3>1, <3>2, KeptLemma DEF TypeInv, PlacesInv, Grows
  <2>3. CASE Cleared(i)
    BY <2>1, <2>3 DEF Cleared, Empty
  <2>4. CASE Filled(i)
    <3>1. PICK n \in Name, p \in Slot, d \in sbs' : \E ino \in DOMAIN supers'[d].nodes :
            dentries'[i] = NewEntry(n, p, d, ino)
      BY <2>4 DEF Filled
    <3>2. PICK ino \in DOMAIN supers'[d].nodes : dentries'[i] = NewEntry(n, p, d, ino)
      BY <3>1
    <3>3. d # NoSb
      BY VfsAssumption DEF FsInv
    <3> QED
      BY <3>2, <3>3 DEF NewEntry, Slot, NULL
  <2> QED
    BY <2>1, <2>2, <2>3, <2>4 DEF CacheStep
<1>4. R # NULL => /\ R \in E' /\ dentries'[R].mnt # NoSb
                  /\ dentries'[R].parent = NULL /\ dentries'[R].sb = NoSb
  <2> SUFFICES ASSUME R # NULL
               PROVE  /\ R \in E' /\ dentries'[R].mnt # NoSb
                      /\ dentries'[R].parent = NULL /\ dentries'[R].sb = NoSb
    OBVIOUS
  <2>1. R \in Slot /\ R \in E /\ dentries[R].mnt # NoSb
    BY DEF PlacesInv, E, InUse
  <2>2. Kept(R)
    BY <2>1 DEF CacheStep, Cleared, Filled
  <2> QED
    BY <2>1, <2>2, KeptLemma DEF TypeInv, PlacesInv
<1> QED
  BY <1>2, <1>3, <1>4 DEF PlacesInv

(* The steps of the cache are such steps, and leave the entries in use.    *)
LEMMA SameStep ==
  ASSUME TypeInv, dentries' = dentries
  PROVE  CacheStep /\ E' = E
BY DEF TypeInv, CacheStep, Kept, Dentry, E

(* One that counts a use of an entry keeps every place,                    *)
LEMMA TouchStep ==
  ASSUME TypeInv, NEW i \in E, Touch(i)
  PROVE  CacheStep /\ E' = E /\ \A j \in Slot : Kept(j)
<1>1. i \in Slot /\ dentries[i] \in Dentry /\ dentries \in [Slot -> Dentry]
  BY DEF TypeInv, E, InUse
<1>2. dentries' = [dentries EXCEPT ![i] = [dentries[i] EXCEPT !.count = @ + 1]]
  BY <1>1 DEF Touch
<1>3. [dentries[i] EXCEPT !.count = @ + 1] \in Dentry
  BY <1>1 DEF Dentry
<1>4. dentries' \in [Slot -> Dentry]
  BY <1>1, <1>2, <1>3
<1>5. \A j \in Slot : Kept(j)
  BY <1>1, <1>2 DEF Kept, Dentry
<1>6. E' = E
  BY <1>1, <1>5, KeptLemma DEF E, InUse
<1> QED
  BY <1>4, <1>5, <1>6 DEF CacheStep

(* one that frees a place keeps the others,                                *)
LEMMA DropStep ==
  ASSUME TypeInv, NEW v \in Slot, dentries[v].mnt = NoSb,
         dentries' = [dentries EXCEPT ![v] = Empty]
  PROVE  CacheStep /\ E' = E \ {v}
<1>1. Empty \in Dentry
  BY DEF Empty, Dentry
<1>2. dentries' \in [Slot -> Dentry]
  BY <1>1 DEF TypeInv
<1>3. \A j \in Slot \ {v} : Kept(j)
  BY DEF TypeInv, Kept, Dentry
<1>4. Cleared(v)
  BY DEF Cleared, TypeInv
<1>5. E' = E \ {v}
  BY <1>2 DEF TypeInv, E, InUse, Empty
<1> QED
  BY <1>2, <1>3, <1>4, <1>5 DEF CacheStep

(* and one that fills a place adds it to those in use.                     *)
LEMMA FillStep ==
  ASSUME TypeInv, FsInv', NEW v \in Slot, NEW n \in Name, NEW ino, Fill(v, n, ino),
         call.at \in Slot, NodeKey(dentries, call.at)[1] \in sbs',
         ino \in DOMAIN supers'[NodeKey(dentries, call.at)[1]].nodes
  PROVE  CacheStep /\ E' = E \cup {v}
<1> DEFINE d == NodeKey(dentries, call.at)[1]
           new == NewEntry(n, call.at, d, ino)
<1>1. d \in Device /\ ino \in Nat
  BY VfsAssumption DEF FsInv, Typed
<1> HIDE DEF d
<1>2. new \in Dentry /\ new.name # NoName
  BY <1>1, VfsAssumption DEF NewEntry, Dentry
<1>3. dentries' = [dentries EXCEPT ![v] = new] /\ dentries[v].mnt = NoSb
  BY DEF Fill, d, Spared
<1>4. dentries' \in [Slot -> Dentry]
  BY <1>2, <1>3 DEF TypeInv
<1>5. \A j \in Slot \ {v} : Kept(j)
  BY <1>3 DEF TypeInv, Kept, Dentry
<1>6. Filled(v)
  <2>1. dentries'[v] = NewEntry(n, call.at, d, ino)
    BY <1>3 DEF TypeInv
  <2> QED
    BY <1>3, <2>1 DEF Filled, d
<1>7. E' = E \cup {v}
  BY <1>2, <1>3 DEF TypeInv, E, InUse
<1> QED
  BY <1>4, <1>5, <1>6, <1>7 DEF CacheStep

-----------------------------------------------------------------------------
(* A call that begins, or begins again, does so at the root.               *)
Asked(c) ==
  /\ c.op \in {"stat", "open", "mkdir", "mknod", "mount", "register"} /\ c.path \in Seq(Name)
  /\ c.flags \in SUBSET {"r", "w", "create", "excl"} /\ c.perm \in SUBSET {"r", "w"}
  /\ c.type \in Types /\ c.dev \in Device \cup {NoDev} /\ c.fs \in STRING

(* What a call knows when it begins.                                       *)
LEMMA BeginLemma ==
  ASSUME R \in Slot, NEW c, Asked(c), NEW phase \in {"find", "create", "again"},
         NEW path \in Seq(Name)
  PROVE  LET b == Begin(c, phase, path)
         IN  /\ b \in Pending /\ b # NoCall /\ b.op = c.op /\ b.path = c.path /\ b.type = c.type
             /\ b.dev = c.dev /\ b.fs = c.fs /\ b.phase = phase /\ b.todo = path /\ b.at = R
<1> DEFINE b == Begin(c, phase, path)
<1>1. b = [op |-> c.op, path |-> c.path, flags |-> c.flags, perm |-> c.perm, type |-> c.type,
           dev |-> c.dev, fs |-> c.fs, phase |-> phase, todo |-> path, at |-> R]
  BY DEF Begin, R
<1> HIDE DEF b
<1>2. b \in Pending
  BY <1>1 DEF Asked, Pending
<1>3. /\ b.op = c.op /\ b.path = c.path /\ b.type = c.type
      /\ b.dev = c.dev /\ b.fs = c.fs /\ b.phase = phase /\ b.todo = path /\ b.at = R
  BY <1>1
<1>4. b # NoCall
  BY <1>3 DEF Asked, NoCall
<1> QED
  BY <1>2, <1>3, <1>4 DEF b

(* A device keeps its node.                                                *)
LEMMA HasNodeLemma ==
  ASSUME FsInv, FsInv', Grows, NEW t, HasNode(t)
  PROVE  HasNode(t)'
<1>1. PICK d \in Device : supers[d] # NoSuper /\ \E n \in DOMAIN supers[d].nodes :
        supers[d].nodes[n].type = "chr" /\ supers[d].nodes[n].dev = t
  BY DEF HasNode
<1>2. PICK n \in DOMAIN supers[d].nodes :
        supers[d].nodes[n].type = "chr" /\ supers[d].nodes[n].dev = t
  BY <1>1
<1>3. d \in sbs
  <2>1. DOMAIN memfs_init_super.nodes = {}
    BY DEF memfs_init_super
  <2> QED
    BY <1>1, <2>1 DEF FsInv
<1>4. d \in sbs' /\ n \in DOMAIN supers'[d].nodes
      /\ supers'[d].nodes[n].type = "chr" /\ supers'[d].nodes[n].dev = t
  BY <1>2, <1>3 DEF Grows
<1>5. supers'[d] # NoSuper
  <2>1. supers'[d].last_ino \in Nat
    BY <1>4 DEF FsInv, Typed
  <2> QED
    BY <2>1 DEF NoSuper
<1> QED
  BY <1>4, <1>5 DEF HasNode

(* A step of the call fails. *)
LEMMA FailLemma ==
  ASSUME TypeInv, FsInv, CallInv, DeviceInv, call # NoCall, Fail, R' = R, FsInv', Grows,
         call.phase # "create" => supers' = supers
  PROVE  /\ CallInv' /\ DeviceInv'
         /\ call' # NoCall => call'.at = R /\ call'.phase = "create"
<1>1. /\ call \in Pending /\ R # NULL /\ R \in Slot /\ Asked(call)
  BY DEF CallInv, TypeInv, Pending, Asked
<1>2. DeviceInv'
  <2>1. chr_devs' = IF call.op = "register" THEN chr_devs \ {call.dev} ELSE chr_devs
    BY DEF Fail
  <2>2. ASSUME NEW t \in chr_devs' PROVE HasNode(t)'
    <3>1. HasNode(t)
      BY <2>1 DEF DeviceInv
    <3> QED
      BY <3>1, HasNodeLemma
  <2> QED
    BY <2>1, <2>2 DEF DeviceInv
<1>3. CASE call' = NoCall
  BY <1>2, <1>3 DEF CallInv
<1>4. CASE call' # NoCall
  <2>1. call.op = "open" /\ call.phase = "find" /\ call.path # << >>
        /\ call' = Begin(call, "create", Front(call.path))
    BY <1>4 DEF Fail
  <2>2. Front(call.path) \in Seq(Name)
    BY <1>1, <2>1, FrontLemma DEF Asked
  <2>3. /\ call' \in Pending /\ call'.op = call.op /\ call'.path = call.path
        /\ call'.phase = "create" /\ call'.at = R
    BY <1>1, <2>1, <2>2, BeginLemma
  <2>4. \A d \in Device : supers'[d].last_ino <= MaxIno
    BY <2>1 DEF CallInv
  <2>5. CallInv'
    BY <1>1, <2>1, <2>3, <2>4 DEF CallInv
  <2> QED
    BY <1>2, <2>3, <2>5
<1> QED
  BY <1>3, <1>4

(* The call goes on, to an entry in use. *)
LEMMA AdvanceLemma ==
  ASSUME CallInv, DeviceInv, call # NoCall, call.todo # << >>, NEW i \in Slot, Advance(i),
         R' = R, UNCHANGED <<supers, sbs>>
  PROVE  /\ CallInv' /\ DeviceInv' /\ call' # NoCall /\ call'.at = i
         /\ call'.todo = Tail(call.todo) /\ call'.path = call.path
         /\ call'.op = call.op /\ call'.phase = call.phase
<1>1. call \in Pending /\ Tail(call.todo) \in Seq(Name)
  <2>1. call \in Pending
    BY DEF CallInv
  <2>2. call.todo \in Seq(Name)
    BY <2>1 DEF Pending
  <2> QED
    BY <2>1, <2>2, HeadTailProperties
<1> DEFINE a == [call EXCEPT !.todo = Tail(@)]
<1>2. a \in Pending /\ a.todo = Tail(call.todo) /\ a.path = call.path /\ a.op = call.op
      /\ a.phase = call.phase /\ a.type = call.type /\ a.dev = call.dev /\ a.fs = call.fs
  BY <1>1 DEF Pending
<1>3. call' = [a EXCEPT !.at = i]
  BY DEF Advance
<1> HIDE DEF a
<1>4. /\ call' \in Pending /\ call'.at = i /\ call'.todo = Tail(call.todo)
      /\ call'.path = call.path /\ call'.op = call.op /\ call'.phase = call.phase
      /\ call'.type = call.type /\ call'.dev = call.dev /\ call'.fs = call.fs
  BY <1>2, <1>3 DEF Pending
<1>5. call' # NoCall
  BY <1>4 DEF Pending, NoCall
<1>6. chr_devs' = chr_devs
  BY DEF Advance
<1>7. CallInv'
  BY <1>4, <1>5, <1>6 DEF CallInv
<1>8. DeviceInv'
  BY <1>4, <1>5, <1>6 DEF DeviceInv, HasNode
<1> QED
  BY <1>4, <1>5, <1>7, <1>8

-----------------------------------------------------------------------------
(* The counts and the files do not care how the filesystems grow.          *)
LEMMA ThereLemma ==
  ASSUME Grows, FsInv, NEW k, NodeThere(k)
  PROVE  /\ NodeThere(k)' /\ NodeOf(k)'.type = NodeOf(k).type /\ NodeOf(k)'.dev = NodeOf(k).dev
         /\ DevOf(k)' = DevOf(k)
<1>1. k[1] \in sbs' /\ k[2] \in DOMAIN supers'[k[1]].nodes /\ k \in Key
      /\ supers'[k[1]].nodes[k[2]].type = supers[k[1]].nodes[k[2]].type
      /\ supers'[k[1]].nodes[k[2]].dev = supers[k[1]].nodes[k[2]].dev
  BY DEF Grows, NodeThere
<1> QED
  BY <1>1 DEF NodeThere, NodeOf, DevOf

(* The counts are right still when no file and no count changes,           *)
LEMMA CountKeep ==
  ASSUME FsInv, CountInv, Grows, UNCHANGED <<vnodes, files>>, accidents \subseteq accidents'
  PROVE  CountInv'
<1>1. \A k \in Key : FilesOn(k)' = FilesOn(k)
  BY DEF FilesOn
<1>2. \A k \in Key : vnodes[k] # Cardinality(FilesOn(k)) =>
        vnodes[k] > Cardinality(FilesOn(k)) /\ (NodeOf(k).type = Dir \/ "leaked" \in accidents)
  BY DEF CountInv, VnodesCounted
<1>3. \A k \in Key : Cardinality(FilesOn(k)) \in Nat
  <2>1. \A k \in Key : IsFiniteSet(FilesOn(k))
    BY VfsAssumption, FS_Subset DEF FilesOn
  <2> QED
    BY <2>1, FS_CardinalityType
<1>4. ASSUME NEW k \in Key, vnodes[k] # Cardinality(FilesOn(k))
      PROVE  vnodes[k] > Cardinality(FilesOn(k)) /\ (NodeOf(k)'.type = Dir \/ "leaked" \in accidents')
  <2>1. vnodes[k] > Cardinality(FilesOn(k)) /\ (NodeOf(k).type = Dir \/ "leaked" \in accidents)
    BY <1>2, <1>4
  <2>2. NodeThere(k)
    BY <1>3, <2>1 DEF CountInv
  <2> QED
    BY <2>1, <2>2, ThereLemma
<1>5. VnodesCounted'
  BY <1>1, <1>4 DEF VnodesCounted
<1>6. \A k \in Key : vnodes[k] > 0 => NodeThere(k)'
  BY ThereLemma DEF CountInv
<1> QED
  BY <1>5, <1>6 DEF CountInv

(* and so are the files.                                                   *)
LEMMA FileKeep ==
  ASSUME FsInv, FileInv, Grows, UNCHANGED <<files, vfs_files, in_use>>,
         accidents \subseteq accidents'
  PROVE  FileInv'
<1>1. \A p \in FilePtr : files[p] # NoFile =>
        NodeThere(files[p].key)' /\ files[p].dev = DevOf(files[p].key)'
  BY ThereLemma DEF FileInv
<1>2. FilesListed' /\ DeviceExclusive'
  BY DEF FileInv, FilesListed, DeviceExclusive
<1> QED
  BY <1>1, <1>2 DEF FileInv

-----------------------------------------------------------------------------
(* Taking an element out of a list: the others stay, in their order.       *)
LEMMA DelLemma ==
  ASSUME NEW S, NEW l \in Seq(S), NEW p \in ToSet(l)
  PROVE  LET m == list_find_del(l, {p})
         IN  /\ m \in Seq(S) /\ ToSet(l) \ {p} \subseteq ToSet(m) /\ ToSet(m) \subseteq ToSet(l)
             /\ (\A i, j \in DOMAIN l : l[i] = l[j] => i = j) =>
                  p \notin ToSet(m) /\ \A i, j \in DOMAIN m : m[i] = m[j] => i = j
<1> DEFINE I == Matches(l, {p})
           i == First(I)
           m == list_find_del(l, {p})
<1>1. Len(l) \in Nat /\ DOMAIN l = 1 .. Len(l) /\ \A x \in 1 .. Len(l) : l[x] \in S
  BY LenProperties, ElementOfSeq
<1>2. I \subseteq Nat /\ I # {}
  BY <1>1 DEF Matches, ToSet
<1>3. \E x \in I : \A y \in I : x <= y
  BY <1>2, LeastNumber
<1>4. i \in I
  BY <1>3 DEF First
<1>5. i \in 1 .. Len(l) /\ l[i] = p
  BY <1>1, <1>4 DEF Matches
<1> DEFINE a == SubSeq(l, 1, i - 1)
           b == SubSeq(l, i + 1, Len(l))
<1>6. m = a \o b
  <2>1. list_find_pos(l, {p}) = i - 1
    BY <1>2 DEF list_find_pos
  <2>2. i - 1 \in 0 .. Len(l) - 1 /\ (i - 1) + 2 = i + 1
    BY <1>1, <1>5
  <2> HIDE DEF i
  <2> QED
    BY <2>1, <2>2 DEF list_find_del, list_del
<1> HIDE DEF i, m
<1>7. /\ a \in Seq(S) /\ Len(a) = i - 1 /\ \A x \in 1 .. i - 1 : a[x] = l[x]
  <2>1. \A x \in 1 .. i - 1 : l[x] \in S
    BY <1>1, <1>5
  <2>2. a \in Seq(S) /\ Len(a) = (IF 1 <= i - 1 THEN (i - 1) - 1 + 1 ELSE 0)
        /\ \A x \in 1 .. (i - 1) - 1 + 1 : a[x] = l[1 + x - 1]
    BY <1>1, <1>5, <2>1, SubSeqProperties
  <2> HIDE DEF a
  <2> QED
    BY <1>1, <1>5, <2>2
<1>8. /\ b \in Seq(S) /\ Len(b) = Len(l) - i /\ \A x \in 1 .. Len(l) - i : b[x] = l[i + x]
  <2>1. \A x \in i + 1 .. Len(l) : l[x] \in S
    BY <1>1, <1>5
  <2>2. b \in Seq(S) /\ Len(b) = (IF i + 1 <= Len(l) THEN Len(l) - (i + 1) + 1 ELSE 0)
        /\ \A x \in 1 .. Len(l) - (i + 1) + 1 : b[x] = l[(i + 1) + x - 1]
    BY <1>1, <1>5, <2>1, SubSeqProperties
  <2> HIDE DEF b
  <2>3. Len(b) = Len(l) - i /\ Len(l) - (i + 1) + 1 = Len(l) - i
    <3>1. PICK z \in Nat : z = Len(l)
      BY <1>1
    <3>2. i \in Nat /\ i <= z /\ z - (i + 1) + 1 = z - i
      BY <1>5, <3>1
    <3>3. Len(b) = IF i + 1 <= z THEN z - i ELSE 0
      BY <2>2, <3>1, <3>2
    <3> QED
      BY <3>1, <3>2, <3>3
  <2>4. ASSUME NEW x \in 1 .. Len(l) - i PROVE b[x] = l[i + x]
    <3>1. (i + 1) + x - 1 = i + x
      BY <1>1, <1>5
    <3>2. b[x] = l[(i + 1) + x - 1]
      BY <2>2, <2>3
    <3> QED
      BY <3>1, <3>2
  <2> QED
    BY <2>2, <2>3, <2>4
<1> HIDE DEF a, b
<1>9. /\ m \in Seq(S) /\ Len(m) = Len(l) - 1 /\ DOMAIN m = 1 .. Len(l) - 1
      /\ \A x \in 1 .. Len(l) - 1 : m[x] = IF x < i THEN l[x] ELSE l[x + 1]
  <2>1. m \in Seq(S) /\ Len(m) = Len(a) + Len(b)
        /\ \A x \in 1 .. Len(a) + Len(b) : m[x] = IF x <= Len(a) THEN a[x] ELSE b[x - Len(a)]
    BY <1>6, <1>7, <1>8, ConcatProperties
  <2>2. Len(m) = Len(l) - 1
    BY <1>1, <1>5, <1>7, <1>8, <2>1
  <2>3. ASSUME NEW x \in 1 .. Len(l) - 1 PROVE m[x] = IF x < i THEN l[x] ELSE l[x + 1]
    <3> x \in 1 .. Len(a) + Len(b)
      BY <1>1, <1>5, <1>7, <1>8
    <3>1. CASE x < i
      <4>1. m[x] = a[x] /\ x \in 1 .. i - 1
        BY <1>1, <1>5, <1>7, <2>1, <3>1
      <4> QED
        BY <1>7, <3>1, <4>1
    <3>2. CASE ~(x < i)
      <4>1. x - (i - 1) \in 1 .. Len(l) - i /\ i + (x - (i - 1)) = x + 1
        BY <1>1, <1>5, <3>2
      <4>2. m[x] = b[x - (i - 1)]
        <5>1. ~(x <= Len(a))
          BY <1>1, <1>5, <1>7, <3>2
        <5>2. m[x] = b[x - Len(a)]
          BY <2>1, <5>1
        <5> QED
          BY <1>7, <5>2
      <4> QED
        BY <1>8, <3>2, <4>1, <4>2
    <3> QED
      BY <3>1, <3>2
  <2> QED
    BY <2>1, <2>2, <2>3, LenProperties
<1>10. ToSet(m) \subseteq ToSet(l)
  <2>1. ASSUME NEW x \in 1 .. Len(l) - 1 PROVE m[x] \in ToSet(l)
    BY <1>1, <1>9, <2>1 DEF ToSet
  <2> QED
    BY <1>9, <2>1 DEF ToSet
<1>11. ASSUME NEW q \in ToSet(l) \ {p} PROVE q \in ToSet(m)
  <2>1. PICK x \in 1 .. Len(l) : l[x] = q
    BY <1>1 DEF ToSet
  <2>2. CASE x < i
    <3>1. x \in 1 .. Len(l) - 1 /\ m[x] = q
      BY <1>1, <1>5, <1>9, <2>1, <2>2
    <3> QED
      BY <1>9, <3>1 DEF ToSet
  <2>3. CASE x > i
    <3>1. x - 1 \in 1 .. Len(l) - 1 /\ ~(x - 1 < i) /\ (x - 1) + 1 = x
      BY <1>1, <1>5, <2>3
    <3>2. m[x - 1] = q
      BY <1>9, <2>1, <3>1
    <3> QED
      BY <1>9, <3>1, <3>2 DEF ToSet
  <2>4. x # i
    BY <1>5, <2>1
  <2> QED
    BY <1>5, <2>2, <2>3, <2>4
<1>12. ASSUME \A x, y \in DOMAIN l : l[x] = l[y] => x = y
       PROVE  p \notin ToSet(m) /\ \A x, y \in DOMAIN m : m[x] = m[y] => x = y
  <2> DEFINE at(x) == IF x < i THEN x ELSE x + 1
  <2>1. \A x \in DOMAIN m : at(x) \in DOMAIN l /\ at(x) # i /\ m[x] = l[at(x)]
    BY <1>1, <1>5, <1>9
  <2>2. \A x, y \in DOMAIN m : at(x) = at(y) => x = y
    BY <1>5, <1>9
  <2> HIDE DEF at
  <2>3. \A x, y \in DOMAIN m : m[x] = m[y] => x = y
    BY <1>12, <2>1, <2>2
  <2>4. p \notin ToSet(m)
    BY <1>1, <1>5, <1>12, <2>1 DEF ToSet
  <2> QED
    BY <2>3, <2>4
<1> QED
  BY <1>9, <1>10, <1>11, <1>12 DEF m

-----------------------------------------------------------------------------
(* Opening and closing.                                                    *)
FilesOf(t) == {p \in FilePtr : files[p] # NoFile /\ files[p].dev = t}

(* The key of a file that is open is not that of a free address.           *)
LEMMA KeyNotEmpty ==
  ASSUME NEW k \in Key
  PROVE  k # << >>
<1>1. PICK d \in Device, i \in 1 .. MaxIno : k = <<d, i>>
  BY DEF Key
<1>2. Len(<<d, i>>) = 2 /\ Len(<< >>) = 0
  OBVIOUS
<1> QED
  BY <1>1, <1>2

(* There are finitely many open files of any kind.                         *)
LEMMA FiniteFiles ==
  ASSUME NEW T, T \subseteq FilePtr
  PROVE  IsFiniteSet(T) /\ Cardinality(T) \in Nat
BY VfsAssumption, FS_Subset, FS_CardinalityType

(* The count of one vnode follows the files on it.                         *)
LEMMA CountLemma ==
  ASSUME TypeInv, FsInv, CountInv, NEW k \in Key, NodeThere(k), Grows,
         accidents \subseteq accidents', NEW n \in Int, vnodes' = [vnodes EXCEPT ![k] = @ + n],
         vnodes[k] + n \in Nat,
         \A l \in Key \ {k} : FilesOn(l)' = FilesOn(l),
         \/ Cardinality(FilesOn(k)') = Cardinality(FilesOn(k)) + n
         \/ /\ FilesOn(k)' = FilesOn(k) /\ n >= 0
            /\ NodeOf(k).type = Dir \/ "leaked" \in accidents'
  PROVE  CountInv'
<1>1. vnodes' \in [Key -> Nat] /\ vnodes'[k] = vnodes[k] + n /\ vnodes[k] \in Nat
      /\ \A l \in Key \ {k} : vnodes'[l] = vnodes[l]
  BY DEF CountInv
<1>2. FilesOn(k) \subseteq FilePtr /\ FilesOn(k)' \subseteq FilePtr
  BY DEF FilesOn
<1>3. Cardinality(FilesOn(k)) \in Nat /\ Cardinality(FilesOn(k)') \in Nat
  BY <1>2, FiniteFiles
<1>4. \A l \in Key : NodeThere(l) => NodeOf(l)'.type = NodeOf(l).type /\ NodeThere(l)'
  BY ThereLemma
<1>5. ASSUME NEW l \in Key, vnodes'[l] # Cardinality(FilesOn(l)')
      PROVE  vnodes'[l] > Cardinality(FilesOn(l)') /\ (NodeOf(l)'.type = Dir \/ "leaked" \in accidents')
  <2>1. CASE l # k
    <3>1. vnodes'[l] = vnodes[l] /\ FilesOn(l)' = FilesOn(l)
      BY <1>1, <2>1
    <3>2. vnodes[l] > Cardinality(FilesOn(l)) /\ (NodeOf(l).type = Dir \/ "leaked" \in accidents)
      BY <1>5, <3>1 DEF CountInv, VnodesCounted
    <3>3. Cardinality(FilesOn(l)) \in Nat
      BY FiniteFiles DEF FilesOn
    <3>4. NodeThere(l)
      BY <3>2, <3>3 DEF CountInv
    <3> QED
      BY <1>4, <3>1, <3>2, <3>4
  <2>2. CASE l = k /\ Cardinality(FilesOn(k)') = Cardinality(FilesOn(k)) + n
    <3>1. vnodes[k] # Cardinality(FilesOn(k))
      BY <1>1, <1>5, <2>2
    <3>2. vnodes[k] > Cardinality(FilesOn(k)) /\ (NodeOf(k).type = Dir \/ "leaked" \in accidents)
      BY <3>1 DEF CountInv, VnodesCounted
    <3> QED
      BY <1>1, <1>3, <1>4, <2>2, <3>2
  <2>3. CASE /\ l = k /\ FilesOn(k)' = FilesOn(k) /\ n >= 0
             /\ NodeOf(k).type = Dir \/ "leaked" \in accidents'
    <3>1. vnodes[k] >= Cardinality(FilesOn(k))
      BY <1>1, <1>3 DEF CountInv, VnodesCounted
    <3>2. vnodes'[k] >= Cardinality(FilesOn(k)')
      BY <1>1, <1>3, <2>3, <3>1
    <3>3. vnodes'[k] > Cardinality(FilesOn(k)')
      BY <1>1, <1>3, <1>5, <2>3, <3>2
    <3> QED
      BY <1>4, <2>3, <3>3
  <2> QED
    BY <2>1, <2>2, <2>3
<1>6. VnodesCounted'
  BY <1>5 DEF VnodesCounted
<1>7. \A l \in Key : vnodes'[l] > 0 => NodeThere(l)'
  BY <1>1, <1>4 DEF CountInv
<1> QED
  BY <1>1, <1>6, <1>7 DEF CountInv

(* Opening one file counts it once, lists it once and marks its tty.       *)
LEMMA OpenFileLemma ==
  ASSUME TypeInv, FsInv, CountInv, FileInv, NEW p \in FilePtr, NEW k, NodeThere(k),
         files[p] = NoFile, Opens(NodeOf(k)), OpenFile(p, k), UNCHANGED <<supers, sbs, chr_devs>>
  PROVE  CountInv' /\ FileInv'
<1> DEFINE new == [key |-> k, dev |-> DevOf(k)]
<1>1. k \in Key /\ DevOf(k) \in Device \cup {NoDev}
  <2>1. NodeOf(k) \in Node
    BY DEF NodeThere, NodeOf, FsInv, Typed
  <2> QED
    BY <2>1 DEF NodeThere, DevOf, Node
<1>2. /\ files' = [files EXCEPT ![p] = new] /\ vfs_files' = Append(vfs_files, p)
      /\ in_use' = in_use \cup ({DevOf(k)} \cap Tty)
      /\ vnodes' = [vnodes EXCEPT ![k] = @ + 1] /\ accidents' = accidents
  BY DEF OpenFile, list_add, Acquired, flaws
<1>3. new # NoFile /\ new.key = k /\ new.dev = DevOf(k) /\ new \in [key : Key, dev : Device \cup {NoDev}]
  <2>1. new.key # NoFile.key
    BY <1>1, KeyNotEmpty DEF NoFile
  <2>2. new.key = k /\ new.dev = DevOf(k) /\ new \in [key : Key, dev : Device \cup {NoDev}]
    BY <1>1
  <2> QED
    BY <2>1, <2>2
<1> HIDE DEF new
<1>4. files'[p] = new /\ \A q \in FilePtr \ {p} : files'[q] = files[q]
  BY <1>2 DEF FileInv
<1>5. FilesOn(k)' = FilesOn(k) \cup {p} /\ p \notin FilesOn(k)
      /\ \A l \in Key \ {k} : FilesOn(l)' = FilesOn(l)
  BY <1>3, <1>4 DEF FilesOn
<1>6. Cardinality(FilesOn(k)') = Cardinality(FilesOn(k)) + 1
  <2>1. FilesOn(k) \subseteq FilePtr
    BY DEF FilesOn
  <2> QED
    BY <1>5, <2>1, FiniteFiles, FS_AddElement
<1>7. CountInv'
  <2>1. vnodes[k] + 1 \in Nat /\ 1 \in Int /\ Grows
    BY <1>1, KeepFs DEF CountInv
  <2> QED
    BY <1>1, <1>2, <1>5, <1>6, <2>1, CountLemma
<1>8. \A l \in Key : DevOf(l)' = DevOf(l) /\ (NodeThere(l) => NodeThere(l)')
  BY DEF DevOf, NodeOf, NodeThere
<1>9. files' \in [FilePtr -> [key : Key, dev : Device \cup {NoDev}] \cup {NoFile}]
  BY <1>2, <1>3 DEF FileInv
<1>10. \A q \in FilePtr : files'[q] # NoFile =>
         (NodeThere(files[q].key) /\ files[q].dev = DevOf(files[q].key))'
  <2>1. \A q \in FilePtr : files[q] # NoFile => files[q].key \in Key
    BY DEF FileInv, NodeThere
  <2>2. ASSUME NEW q \in FilePtr \ {p}, files'[q] # NoFile
        PROVE  (NodeThere(files[q].key) /\ files[q].dev = DevOf(files[q].key))'
    <3>1. files'[q] = files[q]
      BY <1>4
    <3>2. NodeThere(files[q].key) /\ files[q].dev = DevOf(files[q].key) /\ files[q].key \in Key
      BY <2>1, <2>2, <3>1 DEF FileInv
    <3> QED
      BY <1>8, <3>1, <3>2
  <2>3. (NodeThere(files[p].key) /\ files[p].dev = DevOf(files[p].key))'
    BY <1>1, <1>3, <1>4, <1>8
  <2> QED
    BY <2>2, <2>3
<1>11. vfs_files' \in Seq(FilePtr) /\ FilesListed'
  <2> DEFINE n == Len(vfs_files)
  <2>1. /\ vfs_files' \in Seq(FilePtr) /\ Len(vfs_files') = n + 1 /\ n \in Nat
        /\ \A i \in 1 .. n : vfs_files'[i] = vfs_files[i] /\ vfs_files'[n + 1] = p
        /\ DOMAIN vfs_files = 1 .. n /\ DOMAIN vfs_files' = 1 .. n + 1 /\ vfs_files'[n + 1] = p
    BY <1>2, AppendProperties, LenProperties DEF FileInv
  <2> HIDE DEF n
  <2>2. ToSet(vfs_files') = ToSet(vfs_files) \cup {p}
    BY <2>1 DEF ToSet
  <2>3. "freed" \notin accidents => p \notin ToSet(vfs_files)
    BY DEF FileInv, FilesListed
  <2>4. "freed" \notin accidents' => \A q \in ToSet(vfs_files') : files'[q] # NoFile
    BY <1>2, <1>3, <1>4, <2>1, <2>2 DEF FileInv, FilesListed, ToSet
  <2>5. "freed" \notin accidents' =>
          \A i, j \in DOMAIN vfs_files' : vfs_files'[i] = vfs_files'[j] => i = j
    <3> SUFFICES ASSUME "freed" \notin accidents', NEW i \in 1 .. n + 1, NEW j \in 1 .. n + 1,
                        vfs_files'[i] = vfs_files'[j]
                 PROVE  i = j
      BY <2>1
    <3>1. \A x \in 1 .. n : vfs_files'[x] # p
      BY <1>2, <2>1, <2>3 DEF ToSet
    <3>2. CASE i \in 1 .. n /\ j \in 1 .. n
      BY <1>2, <2>1, <3>2 DEF FileInv, FilesListed
    <3> QED
      BY <2>1, <3>1, <3>2
  <2>6. {q \in FilePtr : files'[q] # NoFile} \subseteq ToSet(vfs_files')
    BY <1>4, <2>2 DEF FileInv, FilesListed
  <2> QED
    BY <2>1, <2>4, <2>5, <2>6 DEF FilesListed
<1>12. DeviceExclusive'
  <2> SUFFICES ASSUME "leaked" \notin accidents, NEW t \in Tty
               PROVE  Cardinality(FilesOf(t)') = IF t \in in_use' THEN 1 ELSE 0
    BY <1>2 DEF DeviceExclusive, FilesOf
  <2>1. Cardinality(FilesOf(t)) = IF t \in in_use THEN 1 ELSE 0
    BY DEF FileInv, DeviceExclusive, FilesOf
  <2>2. CASE t = DevOf(k)
    <3>1. t # NoDev
      BY VfsAssumption
    <3>2. NodeOf(k).type = "chr" /\ NodeOf(k).dev = t
      BY <2>2, <3>1 DEF DevOf
    <3>3. t \notin in_use
      BY <3>2 DEF Opens, Dir
    <3>4. FilesOf(t)' = FilesOf(t) \cup {p} /\ p \notin FilesOf(t) /\ FilesOf(t) \subseteq FilePtr
      BY <1>3, <1>4, <2>2 DEF FilesOf
    <3>5. Cardinality(FilesOf(t)') = 1
      BY <2>1, <3>3, <3>4, FiniteFiles, FS_AddElement
    <3> QED
      BY <1>2, <2>2, <3>5
  <2>3. CASE t # DevOf(k)
    <3>1. FilesOf(t)' = FilesOf(t)
      BY <1>3, <1>4, <2>3 DEF FilesOf
    <3> QED
      BY <1>2, <2>1, <2>3, <3>1
  <2> QED
    BY <2>2, <2>3
<1>13. in_use' \subseteq Tty
  BY <1>2 DEF FileInv
<1> QED
  BY <1>7, <1>9, <1>10, <1>11, <1>12, <1>13 DEF FileInv

(* Closing one takes all of that back.                                     *)
LEMMA CloseLemma ==
  ASSUME TypeInv, FsInv, CountInv, FileInv, NEW p \in FilePtr, Close(p)
  PROVE  CountInv' /\ FileInv'
<1>0. PICK k, dev : k = files[p].key /\ dev = files[p].dev
  OBVIOUS
<1>1. /\ files[p] # NoFile /\ p \in ToSet(vfs_files)
      /\ vfs_files' = list_find_del(vfs_files, {p}) /\ files' = [files EXCEPT ![p] = NoFile]
      /\ vnodes' = [vnodes EXCEPT ![k] = @ - 1] /\ UNCHANGED <<supers, sbs>>
      /\ in_use' = (IF vnodes[k] = 1 THEN in_use \ {dev} ELSE in_use) /\ accidents' = accidents
  BY <1>0 DEF Close, Released, Frees, flaws, mounts
<1>2. NodeThere(k) /\ dev = DevOf(k) /\ k \in Key
  BY <1>1, <1>0 DEF FileInv, NodeThere
<1>3. files'[p] = NoFile /\ \A q \in FilePtr \ {p} : files'[q] = files[q]
  BY <1>1 DEF FileInv
<1>4. FilesOn(k)' = FilesOn(k) \ {p} /\ p \in FilesOn(k) /\ FilesOn(k) \subseteq FilePtr
      /\ \A l \in Key \ {k} : FilesOn(l)' = FilesOn(l)
  BY <1>1, <1>3, <1>0 DEF FilesOn
<1>5. Cardinality(FilesOn(k)') = Cardinality(FilesOn(k)) - 1 /\ Cardinality(FilesOn(k)) \in Nat
      /\ Cardinality(FilesOn(k)) >= 1
  BY <1>4, FiniteFiles, FS_RemoveElement, FS_EmptySet
<1>6. vnodes[k] \in Nat /\ vnodes[k] >= Cardinality(FilesOn(k))
  BY <1>2, <1>5 DEF CountInv, VnodesCounted
<1>7. CountInv'
  <2>1. vnodes[k] + (-1) \in Nat /\ -1 \in Int /\ vnodes[k] - 1 = vnodes[k] + (-1)
    BY <1>5, <1>6
  <2>2. vnodes' = [vnodes EXCEPT ![k] = @ + (-1)]
    BY <1>1, <2>1
  <2>3. Cardinality(FilesOn(k)') = Cardinality(FilesOn(k)) + (-1)
    BY <1>5
  <2>4. Grows
    BY <1>1, KeepFs
  <2> QED
    BY <1>1, <1>2, <1>4, <2>1, <2>2, <2>3, <2>4, CountLemma
<1>8. \A l \in Key : DevOf(l)' = DevOf(l) /\ (NodeThere(l) => NodeThere(l)')
  BY <1>1 DEF DevOf, NodeOf, NodeThere
<1>9. files' \in [FilePtr -> [key : Key, dev : Device \cup {NoDev}] \cup {NoFile}]
  BY <1>1 DEF FileInv
<1>10. \A q \in FilePtr : files'[q] # NoFile =>
         (NodeThere(files[q].key) /\ files[q].dev = DevOf(files[q].key))'
  <2> SUFFICES ASSUME NEW q \in FilePtr \ {p}, files[q] # NoFile
               PROVE  (NodeThere(files[q].key) /\ files[q].dev = DevOf(files[q].key))'
    BY <1>3
  <2>1. NodeThere(files[q].key) /\ files[q].dev = DevOf(files[q].key) /\ files[q].key \in Key
    BY DEF FileInv, NodeThere
  <2> QED
    BY <1>3, <1>8, <2>1
<1>11. vfs_files' \in Seq(FilePtr) /\ FilesListed'
  <2>1. /\ vfs_files' \in Seq(FilePtr) /\ ToSet(vfs_files) \ {p} \subseteq ToSet(vfs_files')
        /\ ToSet(vfs_files') \subseteq ToSet(vfs_files)
        /\ (\A i, j \in DOMAIN vfs_files : vfs_files[i] = vfs_files[j] => i = j) =>
             p \notin ToSet(vfs_files')
             /\ \A i, j \in DOMAIN vfs_files' : vfs_files'[i] = vfs_files'[j] => i = j
    <3>1. vfs_files \in Seq(FilePtr) /\ p \in ToSet(vfs_files)
      BY <1>1 DEF FileInv
    <3> DEFINE m == list_find_del(vfs_files, {p})
    <3>2. /\ m \in Seq(FilePtr) /\ ToSet(vfs_files) \ {p} \subseteq ToSet(m)
          /\ ToSet(m) \subseteq ToSet(vfs_files)
          /\ (\A i, j \in DOMAIN vfs_files : vfs_files[i] = vfs_files[j] => i = j) =>
               p \notin ToSet(m) /\ \A i, j \in DOMAIN m : m[i] = m[j] => i = j
      BY <3>1, DelLemma
    <3> HIDE DEF m
    <3> QED
      BY <1>1, <3>2 DEF m
  <2>2. {q \in FilePtr : files'[q] # NoFile} \subseteq ToSet(vfs_files')
    BY <1>3, <2>1 DEF FileInv, FilesListed
  <2>3. ASSUME "freed" \notin accidents
        PROVE  /\ \A q \in ToSet(vfs_files') : files'[q] # NoFile
               /\ \A i, j \in DOMAIN vfs_files' : vfs_files'[i] = vfs_files'[j] => i = j
    <3>1. /\ \A i, j \in DOMAIN vfs_files : vfs_files[i] = vfs_files[j] => i = j
          /\ \A q \in ToSet(vfs_files) : files[q] # NoFile
      BY <2>3 DEF FileInv, FilesListed
    <3>2. ToSet(vfs_files) \subseteq FilePtr
      BY LenProperties DEF FileInv, ToSet
    <3>3. p \notin ToSet(vfs_files')
      BY <2>1, <3>1
    <3> QED
      BY <1>3, <2>1, <3>1, <3>2, <3>3
  <2> QED
    BY <1>1, <2>1, <2>2, <2>3 DEF FilesListed
<1>12. DeviceExclusive'
  <2> SUFFICES ASSUME "leaked" \notin accidents, NEW t \in Tty
               PROVE  Cardinality(FilesOf(t)') = IF t \in in_use' THEN 1 ELSE 0
    BY <1>1 DEF DeviceExclusive, FilesOf
  <2>1. Cardinality(FilesOf(t)) = IF t \in in_use THEN 1 ELSE 0
    BY DEF FileInv, DeviceExclusive, FilesOf
  <2>2. FilesOf(t) \subseteq FilePtr
    BY DEF FilesOf
  <2>3. CASE t = dev
    <3>1. t # NoDev
      BY VfsAssumption
    <3>2. NodeOf(k).type = "chr"
      BY <1>2, <2>3, <3>1 DEF DevOf
    <3>3. vnodes[k] = Cardinality(FilesOn(k))
      BY <1>2, <3>2 DEF CountInv, VnodesCounted, Dir
    <3>4. p \in FilesOf(t)
      BY <1>1, <1>0, <2>3 DEF FilesOf
    <3>5. FilesOf(t)' = FilesOf(t) \ {p}
      BY <1>3, <3>4 DEF FilesOf
    <3>6. Cardinality(FilesOf(t)) = 1
      BY <2>1, <2>2, <3>4, FiniteFiles, FS_EmptySet
    <3>7. Cardinality(FilesOf(t)') = 0
      BY <2>2, <3>4, <3>5, <3>6, FiniteFiles, FS_RemoveElement
    <3>8. FilesOn(k) \subseteq FilesOf(t)
      BY <1>2, <2>3 DEF FilesOn, FilesOf, FileInv
    <3>9. Cardinality(FilesOn(k)) <= 1
      BY <2>2, <3>6, <3>8, FiniteFiles, FS_Subset
    <3>10. vnodes[k] = 1
      BY <1>5, <3>3, <3>9
    <3> QED
      BY <1>1, <2>3, <3>7, <3>10
  <2>4. CASE t # dev
    <3>1. FilesOf(t)' = FilesOf(t)
      BY <1>1, <1>3, <1>0, <2>4 DEF FilesOf
    <3> QED
      BY <1>1, <2>1, <2>4, <3>1
  <2> QED
    BY <2>3, <2>4
<1>13. in_use' \subseteq Tty
  BY <1>1 DEF FileInv
<1> QED
  BY <1>7, <1>9, <1>10, <1>11, <1>12, <1>13 DEF FileInv

(* A file that is refused may stay in the list, freed. *)
LEMMA RefusedLemma ==
  ASSUME TypeInv, FsInv, CountInv, FileInv, NEW p \in FilePtr, NEW k, Refused(p, k),
         UNCHANGED <<supers, sbs>>
  PROVE  CountInv' /\ FileInv' /\ accidents \subseteq accidents' /\ accidents' \subseteq Accidents
<1>1. /\ UNCHANGED <<files, in_use, vnodes>>
      /\ \/ vfs_files' = Append(vfs_files, p) /\ accidents' = accidents \cup {"freed"}
         \/ UNCHANGED <<vfs_files, accidents>>
  BY DEF Refused, list_add
<1>2. Grows
  BY KeepFs
<1>3. accidents \subseteq accidents' /\ accidents' \subseteq Accidents
  BY <1>1 DEF TypeInv, Accidents
<1>4. CountInv'
  BY <1>1, <1>2, <1>3, CountKeep
<1>5. CASE UNCHANGED <<vfs_files, accidents>>
  <2>1. FileInv'
    BY <1>1, <1>2, <1>5, FileKeep
  <2> QED
    BY <1>3, <1>4, <2>1
<1>6. CASE vfs_files' = Append(vfs_files, p) /\ accidents' = accidents \cup {"freed"}
  <2> DEFINE n == Len(vfs_files)
  <2>1. /\ vfs_files' \in Seq(FilePtr) /\ n \in Nat
        /\ \A i \in 1 .. n : vfs_files'[i] = vfs_files[i]
        /\ DOMAIN vfs_files = 1 .. n /\ DOMAIN vfs_files' = 1 .. n + 1
    BY <1>6, AppendProperties, LenProperties DEF FileInv
  <2> HIDE DEF n
  <2>2. ToSet(vfs_files) \subseteq ToSet(vfs_files')
    BY <2>1 DEF ToSet
  <2>3. FilesListed'
    BY <1>1, <1>6, <2>2 DEF FileInv, FilesListed
  <2>4. \A q \in FilePtr : files[q] # NoFile =>
         (NodeThere(files[q].key) /\ files[q].dev = DevOf(files[q].key))'
    BY <1>1 DEF FileInv, NodeThere, DevOf, NodeOf
  <2>5. DeviceExclusive'
    BY <1>1, <1>6 DEF FileInv, DeviceExclusive
  <2>6. FileInv'
    BY <1>1, <2>1, <2>3, <2>4, <2>5 DEF FileInv
  <2> QED
    BY <1>3, <1>4, <2>6
<1> QED
  BY <1>1, <1>5, <1>6

-----------------------------------------------------------------------------
(* What memfs_ino_lookup finds: nothing, or an entry with the name.        *)
LEMMA LookupNone ==
  ASSUME NEW ms, NEW dir, NEW n, NEW e \in Seq(DirEntry), e = ms.nodes[dir].entries,
         \A x \in DOMAIN e : e[x].name # n
  PROVE  memfs_ino_lookup(ms, dir, n) = 0
<1> DEFINE S == {c \in Range(e) : c.name = n}
<1>1. Matches(e, S) = {}
  BY DEF Matches, Range
<1>2. memfs_ino_lookup(ms, dir, n) = list_find(e, S, [ino |-> 0]).ino
  BY DEF memfs_ino_lookup, Entry
<1> HIDE DEF S
<1>3. list_find(e, S, [ino |-> 0]) = [ino |-> 0]
  BY <1>1 DEF list_find
<1> QED
  BY <1>2, <1>3

(* or the number of an entry with the name.                                *)
Finds(e, n, ino) == \E x \in DOMAIN e : e[x].name = n /\ e[x].ino = ino

(* or the number beside one of the entries with the name.                  *)
LEMMA LookupSome ==
  ASSUME NEW ms, NEW dir, NEW n, NEW e \in Seq(DirEntry), e = ms.nodes[dir].entries,
         NEW y \in DOMAIN e, e[y].name = n
  PROVE  Finds(e, n, memfs_ino_lookup(ms, dir, n))
<1> DEFINE at == {x \in DOMAIN e : e[x].name = n}
           S == {c \in Range(e) : c.name = n}
<1>1. Matches(e, S) = at
  BY DEF Matches, Range
<1>2. memfs_ino_lookup(ms, dir, n) = list_find(e, S, [ino |-> 0]).ino
  BY DEF memfs_ino_lookup, Entry
<1> HIDE DEF S
<1>3. at \subseteq Nat /\ at # {}
  BY LenProperties
<1>4. \E x \in at : \A z \in at : x <= z
  BY <1>3, LeastNumber
<1>5. First(at) \in at
  BY <1>4 DEF First
<1>6. list_find(e, S, [ino |-> 0]) = e[First(at)]
  BY <1>1, <1>3, Zenon DEF list_find
<1> QED
  BY <1>2, <1>5, <1>6 DEF Finds

(* When the name is there once, the number is the one beside it.           *)
LEMMA LookupOnce ==
  ASSUME NEW ms, NEW dir, NEW e \in Seq(DirEntry), e = ms.nodes[dir].entries,
         NEW x \in DOMAIN e, \A y \in DOMAIN e : e[y].name = e[x].name => y = x
  PROVE  memfs_ino_lookup(ms, dir, e[x].name) = e[x].ino
<1>1. PICK n : n = e[x].name
  OBVIOUS
<1>2. Finds(e, n, memfs_ino_lookup(ms, dir, n))
  BY <1>1, LookupSome
<1>3. PICK y \in DOMAIN e : e[y].name = n /\ memfs_ino_lookup(ms, dir, n) = e[y].ino
  BY <1>2 DEF Finds
<1> QED
  BY <1>1, <1>3

(* An entry of a directory is not the root's.                              *)
LEMMA TreeEntry ==
  ASSUME NEW ms, Tree(ms), NEW n \in DOMAIN ms.nodes, NEW x \in DOMAIN ms.nodes[n].entries
  PROVE  /\ ms.nodes[n].type = Dir /\ ms.nodes[n].entries[x].ino \in DOMAIN ms.nodes
         /\ ms.nodes[n].entries[x].ino # MEMFS_ROOT_INO
BY DEF Tree

(* An entry of the cache stands for one entry of a directory,              *)
LEMMA EntryLemma ==
  ASSUME TypeInv, FsInv, PlacesInv, TreeInv, NEW i \in E \ {R}
  PROVE  LET k == NodeKey(dentries, dentries[i].parent)
         IN  /\ dentries[i].parent \in E /\ NodeThere(k) /\ dentries[i].sb = k[1]
             /\ \E x \in DOMAIN NodeOf(k).entries :
                  NodeOf(k).entries[x].name = dentries[i].name
                  /\ NodeOf(k).entries[x].ino = dentries[i].vno
             /\ dentries[i].vno # MEMFS_ROOT_INO
<1> DEFINE k == NodeKey(dentries, dentries[i].parent)
<1>1. /\ dentries[i].parent \in E /\ dentries[i].sb = k[1] /\ dentries[i].vno # 0
      /\ dentries[i].vno = memfs_ino_lookup(supers[k[1]], k[2], dentries[i].name)
  BY DEF TreeInv, Coherent
<1>2. NodeThere(k)
  BY <1>1, KeyLemma
<1> HIDE DEF k
<1>3. Typed(supers[k[1]]) /\ Tree(supers[k[1]]) /\ k[2] \in DOMAIN supers[k[1]].nodes
  BY <1>2 DEF NodeThere, FsInv
<1>4. supers[k[1]].nodes[k[2]].entries \in Seq(DirEntry)
  BY <1>3 DEF Typed, Node
<1>5. \E x \in DOMAIN NodeOf(k).entries :
        NodeOf(k).entries[x].name = dentries[i].name
        /\ NodeOf(k).entries[x].ino = dentries[i].vno
  <2>1. PICK e \in Seq(DirEntry) : e = supers[k[1]].nodes[k[2]].entries
    BY <1>4
  <2>2. PICK n : n = dentries[i].name
    OBVIOUS
  <2>3. (\A x \in DOMAIN e : e[x].name # n) => dentries[i].vno = 0
    BY <1>1, <2>1, <2>2, LookupNone
  <2>4. PICK y \in DOMAIN e : e[y].name = n
    BY <1>1, <2>3
  <2>5. Finds(e, n, memfs_ino_lookup(supers[k[1]], k[2], n))
    BY <2>1, <2>4, LookupSome
  <2> QED
    BY <1>1, <2>1, <2>2, <2>5 DEF NodeOf, Finds
<1>6. dentries[i].vno # MEMFS_ROOT_INO
  <2>1. PICK x \in DOMAIN supers[k[1]].nodes[k[2]].entries :
          supers[k[1]].nodes[k[2]].entries[x].ino = dentries[i].vno
    BY <1>5 DEF NodeOf
  <2> QED
    BY <1>3, <2>1, TreeEntry
<1> QED
  BY <1>1, <1>2, <1>5, <1>6 DEF k

(* and no two stand for the same node.                                     *)
LEMMA KeyUnique ==
  ASSUME TypeInv, FsInv, PlacesInv, TreeInv, NEW i \in E, NEW j \in E,
         NodeKey(dentries, i) = NodeKey(dentries, j)
  PROVE  i = j
<1>1. \A l \in E : l \in Slot /\ (dentries[l].mnt = NoSb => l \in E \ {R})
  BY DEF PlacesInv, E, InUse, Slot, NULL
<1>2. CASE dentries[i].mnt # NoSb /\ dentries[j].mnt # NoSb
  BY <1>2 DEF NodeKey, TreeInv
<1>3. CASE dentries[i].mnt = NoSb /\ dentries[j].mnt = NoSb
  BY <1>1, <1>3 DEF NodeKey, TreeInv, Key0
<1>4. CASE dentries[i].mnt # NoSb /\ dentries[j].mnt = NoSb
  BY <1>1, <1>4, EntryLemma DEF NodeKey
<1>5. CASE dentries[i].mnt = NoSb /\ dentries[j].mnt # NoSb
  BY <1>1, <1>5, EntryLemma DEF NodeKey
<1> QED
  BY <1>2, <1>3, <1>4, <1>5

(* A name of a directory is in the cache, under the directory's entry.     *)
LEMMA CompleteLemma ==
  ASSUME TypeInv, FsInv, PlacesInv, TreeInv, NEW i \in E, NEW n,
         NEW x \in DOMAIN NodeOf(NodeKey(dentries, i)).entries,
         NodeOf(NodeKey(dentries, i)).entries[x].name = n
  PROVE  Cached(dentries, i, n) # {}
<1> DEFINE k == NodeKey(dentries, i)
<1>1. NodeThere(k) /\ k = <<k[1], k[2]>>
  BY KeyLemma DEF NodeKey
<1>2. PICK j \in E \ {R} : NodeKey(dentries, dentries[j].parent) = k /\ dentries[j].name = n
  BY <1>1 DEF TreeInv, NodeThere, NodeOf
<1>3. dentries[j].parent = i
  BY <1>2, EntryLemma, KeyUnique
<1> QED
  BY <1>2, <1>3 DEF Cached, E

(* What the cache does not have under a name, the directory has not.       *)
LEMMA NoEntryLemma ==
  ASSUME TypeInv, FsInv, PlacesInv, TreeInv, NEW i \in E, NEW n, Cached(dentries, i, n) = {}
  PROVE  Lookup(NodeKey(dentries, i), n) = 0
<1> DEFINE k == NodeKey(dentries, i)
<1>1. NodeThere(k)
  BY KeyLemma
<1> HIDE DEF k
<1>2. supers[k[1]].nodes[k[2]].entries \in Seq(DirEntry)
  BY <1>1 DEF NodeThere, FsInv, Typed, Node
<1>3. \A x \in DOMAIN supers[k[1]].nodes[k[2]].entries :
        supers[k[1]].nodes[k[2]].entries[x].name # n
  BY CompleteLemma DEF NodeOf, k
<1>4. memfs_ino_lookup(supers[k[1]], k[2], n) = 0
  BY <1>2, <1>3, LookupNone
<1> QED
  BY <1>4 DEF Lookup, k

(* What is found is a node of the filesystem.                              *)
LEMMA FoundLemma ==
  ASSUME FsInv, NEW k, NodeThere(k), NEW n, Lookup(k, n) # 0
  PROVE  Lookup(k, n) \in DOMAIN supers[k[1]].nodes
<1>1. Tree(supers[k[1]]) /\ k[2] \in DOMAIN supers[k[1]].nodes
      /\ supers[k[1]].nodes[k[2]].entries \in Seq(DirEntry)
  BY DEF NodeThere, FsInv, Typed, Node
<1>2. PICK e \in Seq(DirEntry) : e = supers[k[1]].nodes[k[2]].entries
  BY <1>1
<1>3. \E y \in DOMAIN e : e[y].name = n
  <2> SUFFICES ASSUME \A y \in DOMAIN e : e[y].name # n PROVE FALSE
    OBVIOUS
  <2>1. memfs_ino_lookup(supers[k[1]], k[2], n) = 0
    BY <1>2, LookupNone
  <2> QED
    BY <2>1 DEF Lookup
<1>4. Finds(e, n, memfs_ino_lookup(supers[k[1]], k[2], n))
  BY <1>2, <1>3, LookupSome
<1>5. PICK x \in DOMAIN e : e[x].ino = Lookup(k, n)
  BY <1>4 DEF Finds, Lookup
<1> QED
  BY <1>1, <1>2, <1>5, TreeEntry

-----------------------------------------------------------------------------
(* The steps of a call that mount nothing and open nothing.                *)
LEMMA CoreStep ==
  ASSUME Core, ~wild, R' = R, R # NULL, FsInv', Grows, CacheStep, CallInv', DeviceInv',
         accidents \subseteq accidents', accidents' \subseteq Accidents,
         call' # NoCall => call'.at \in E',
         UNCHANGED <<wild, fs_types, vnodes, files, vfs_files, in_use>>
  PROVE  Core'
<1>1. TypeInv /\ FsInv /\ CountInv /\ FileInv /\ PlacesInv
  BY DEF Core, CacheInv
<1>2. TypeInv'
  BY <1>1 DEF TypeInv, CacheStep
<1>3. CountInv' /\ FileInv'
  BY <1>1, CountKeep, FileKeep
<1>4. PlacesInv'
  BY <1>1, PlacesKeep
<1> QED
  BY <1>2, <1>3, <1>4 DEF Core, CacheInv

(* The steps that change nothing of the cache and of the filesystems.      *)
LEMMA CoreStay ==
  ASSUME Core, ~wild, UNCHANGED <<cache, supers, sbs, fs_types, wild>>,
         CountInv', FileInv', CallInv', DeviceInv', accidents' \subseteq Accidents,
         call' # NoCall => call'.at \in E
  PROVE  Core'
<1>1. dentries' = dentries /\ R' = R /\ E' = E
  BY DEF cache, E, R
<1>2. TypeInv /\ FsInv /\ CacheInv /\ (R = NULL => E = {})
  BY DEF Core
<1>3. TypeInv'
  BY <1>1, <1>2 DEF TypeInv
<1>4. FsInv'
  BY <1>2, KeepFs
<1>5. PlacesInv'
  BY <1>1, <1>2 DEF CacheInv, PlacesInv
<1> QED
  BY <1>1, <1>2, <1>3, <1>4, <1>5 DEF Core, CacheInv

(* Once a pointer went wild, only the types matter.                        *)
LEMMA CoreDerail ==
  ASSUME Core, FsInv', Grows, wild' = TRUE, dentries' \in [Slot -> Dentry], R' = R,
         accidents \subseteq accidents', accidents' \subseteq Accidents, CallInv', DeviceInv',
         CountInv', FileInv', UNCHANGED fs_types
  PROVE  Core'
BY DEF Core, TypeInv

(* One component of a walk (vfs_lookup).                                   *)
LEMMA CoreWalk ==
  ASSUME Core, NEW room \in Room, Walk(room)
  PROVE  Core'
<1>1. ~wild /\ call # NoCall
  BY DEF Walk
<1>2. TypeInv /\ FsInv /\ CacheInv /\ CallInv /\ DeviceInv /\ CountInv /\ FileInv
  BY <1>1 DEF Core
<1> DEFINE n == Head(call.todo)
           k == NodeKey(dentries, call.at)
<1>3. /\ call.todo # << >> /\ n \in Name /\ WalkSteps(n)
      /\ UNCHANGED <<vfs_root_dentry, mounts, vnodes, open>>
  BY <1>2, WalkLemma
<1>4. /\ UNCHANGED <<supers, sbs, fs_types, vnodes, files, vfs_files, in_use>> /\ R' = R
  BY <1>3 DEF mounts, open, R
<1>5. FsInv' /\ Grows
  BY <1>2, <1>4, KeepFs
<1>6. R # NULL /\ R \in E /\ R \in Slot /\ call.at \in E /\ call.at \in Slot
  BY <1>1, <1>2 DEF CallInv, CacheInv, PlacesInv, E, InUse
<1> HIDE DEF n, k
<1>7. ASSUME NEW v \in Slot, Record(v)
      PROVE  accidents \subseteq accidents' /\ accidents' \subseteq Accidents
  BY <1>2, <1>7 DEF Record, TypeInv, Accidents
<1>8. CASE Derail
  <2>1. /\ wild' = TRUE /\ dentries' \in [Slot -> Dentry] /\ UNCHANGED <<call, chr_devs>>
        /\ accidents \subseteq accidents' /\ accidents' \subseteq Accidents
    BY <1>2, <1>8 DEF Derail, TypeInv, Accidents
  <2>2. CallInv'
    BY <1>2, <1>4, <2>1 DEF CallInv
  <2>3. DeviceInv'
    BY <1>2, <1>4, <2>1 DEF DeviceInv, HasNode
  <2>4. CountInv' /\ FileInv'
    BY <1>2, <1>4, <1>5, <2>1, CountKeep, FileKeep
  <2> QED
    BY <1>4, <1>5, <2>1, <2>2, <2>3, <2>4, CoreDerail
<1>9. CASE wild' = wild /\ Fail /\ (Same \/ \E v \in Slot : Drop(v))
  <2>1. CacheStep /\ R \in E' /\ accidents \subseteq accidents' /\ accidents' \subseteq Accidents
    <3>1. CASE Same
      BY <1>2, <1>6, <3>1, SameStep DEF Same, TypeInv
    <3>2. CASE \E v \in Slot : Drop(v)
      <4>1. PICK v \in Slot : Drop(v)
        BY <3>2
      <4>2. dentries[v].mnt = NoSb /\ dentries' = [dentries EXCEPT ![v] = Empty] /\ Record(v)
        BY <4>1 DEF Drop, Spared
      <4>3. v # R
        BY <1>2, <1>6, <4>2 DEF CacheInv, PlacesInv
      <4> QED
        BY <1>2, <1>6, <1>7, <4>2, <4>3, DropStep
    <3> QED
      BY <1>9, <3>1, <3>2
  <2>2. CallInv' /\ DeviceInv' /\ (call' # NoCall => call'.at = R)
    BY <1>1, <1>2, <1>4, <1>5, <1>9, FailLemma
  <2> QED
    BY <1>1, <1>4, <1>5, <1>6, <1>9, <2>1, <2>2, CoreStep
<1>10. CASE wild' = wild /\ \E i \in Cached(dentries, call.at, n) : Touch(i) /\ Advance(i)
  <2>1. PICK i \in Cached(dentries, call.at, n) : Touch(i) /\ Advance(i)
    BY <1>10
  <2>2. i \in E /\ i \in Slot
    BY DEF Cached, E, InUse
  <2>3. CacheStep /\ E' = E
    BY <1>2, <2>1, <2>2, TouchStep
  <2>4. CallInv' /\ DeviceInv' /\ call'.at = i
    BY <1>1, <1>2, <1>3, <1>4, <2>1, <2>2, AdvanceLemma
  <2>5. accidents' = accidents /\ accidents \subseteq Accidents
    BY <1>2, <2>1 DEF Touch, TypeInv
  <2> QED
    BY <1>1, <1>4, <1>5, <1>6, <1>10, <2>2, <2>3, <2>4, <2>5, CoreStep
<1>11. CASE wild' = wild /\ \E v \in Slot : /\ Fill(v, n, Lookup(k, n)) /\ Advance(v)
                                            /\ Lookup(k, n) # 0
  <2>1. PICK v \in Slot : Fill(v, n, Lookup(k, n)) /\ Advance(v) /\ Lookup(k, n) # 0
    BY <1>11
  <2>2. NodeThere(k)
    BY <1>2, <1>6, KeyLemma DEF k, CacheInv
  <2>3. Lookup(k, n) \in DOMAIN supers[k[1]].nodes /\ k[1] \in sbs
    BY <1>2, <2>1, <2>2, FoundLemma DEF NodeThere
  <2>4. PICK ino : ino = Lookup(k, n)
    OBVIOUS
  <2>5. CacheStep /\ E' = E \cup {v}
    BY <1>2, <1>3, <1>4, <1>5, <1>6, <2>1, <2>3, <2>4, FillStep DEF k
  <2>6. CallInv' /\ DeviceInv' /\ call'.at = v
    BY <1>1, <1>2, <1>3, <1>4, <2>1, AdvanceLemma
  <2>7. accidents \subseteq accidents' /\ accidents' \subseteq Accidents
    BY <1>7, <2>1 DEF Fill
  <2> QED
    BY <1>1, <1>4, <1>5, <1>6, <1>11, <2>5, <2>6, <2>7, CoreStep
<1> QED
  BY <1>3, <1>8, <1>9, <1>10, <1>11 DEF WalkSteps, k

(* The creation of a node (vfs_create_node).                               *)
LEMMA CoreCreate ==
  ASSUME Core, NEW room \in Room, CreateNode(room)
  PROVE  Core'
<1>1. ~wild /\ call # NoCall
  BY DEF CreateNode
<1>2. TypeInv /\ FsInv /\ CacheInv /\ CallInv /\ DeviceInv /\ CountInv /\ FileInv
  BY <1>1 DEF Core
<1> DEFINE n == Last(call.path)
           k == NodeKey(dentries, call.at)
<1>3. /\ call.phase = "create" /\ n \in Name /\ CreateSteps(n, k)
      /\ UNCHANGED <<vfs_root_dentry, fs_types, sbs, vnodes, open>>
  BY <1>2, CreateLemma
<1>4. /\ UNCHANGED <<sbs, fs_types, vnodes, files, vfs_files, in_use>> /\ R' = R
  BY <1>3 DEF open, R
<1>5. R # NULL /\ R \in E /\ R \in Slot /\ call.at \in E /\ call.at \in Slot
  BY <1>1, <1>2 DEF CallInv, CacheInv, PlacesInv, E, InUse
<1>6. NodeThere(k)
  BY <1>2, <1>5, KeyLemma DEF CacheInv
<1> HIDE DEF n, k
<1>7. ASSUME NEW v \in Slot, Record(v)
      PROVE  accidents \subseteq accidents' /\ accidents' \subseteq Accidents
  BY <1>2, <1>7 DEF Record, TypeInv, Accidents
<1>8. CASE Derail /\ supers' = supers
  <2>1. /\ wild' = TRUE /\ dentries' \in [Slot -> Dentry] /\ UNCHANGED <<call, chr_devs>>
        /\ accidents \subseteq accidents' /\ accidents' \subseteq Accidents
    BY <1>2, <1>8 DEF Derail, TypeInv, Accidents
  <2>2. CallInv'
    BY <1>2, <1>4, <1>8, <2>1 DEF CallInv
  <2>3. DeviceInv'
    BY <1>2, <1>4, <1>8, <2>1 DEF DeviceInv, HasNode
  <2>4. FsInv' /\ Grows
    BY <1>2, <1>4, <1>8, KeepFs
  <2>5. CountInv' /\ FileInv'
    BY <1>2, <1>4, <2>1, <2>4, CountKeep, FileKeep
  <2> QED
    BY <1>4, <2>1, <2>2, <2>3, <2>4, <2>5, CoreDerail
<1>9. ASSUME wild' = wild, Fail, FsInv', Grows, NEW v \in Slot,
             Same \/ Drop(v) \/ \E i \in E : Touch(i)
      PROVE  Core'
  <2>1. CacheStep /\ R \in E' /\ accidents \subseteq accidents' /\ accidents' \subseteq Accidents
    <3>1. CASE Same
      BY <1>2, <1>5, <3>1, SameStep DEF Same, TypeInv
    <3>2. CASE Drop(v)
      <4>1. dentries[v].mnt = NoSb /\ dentries' = [dentries EXCEPT ![v] = Empty] /\ Record(v)
        BY <3>2 DEF Drop, Spared
      <4>2. v # R
        BY <1>2, <1>5, <4>1 DEF CacheInv, PlacesInv
      <4> QED
        BY <1>2, <1>5, <1>7, <4>1, <4>2, DropStep
    <3>3. CASE \E i \in E : Touch(i)
      BY <1>2, <1>5, <3>3, TouchStep DEF Touch, TypeInv
    <3> QED
      BY <1>9, <3>1, <3>2, <3>3
  <2>2. CallInv' /\ DeviceInv' /\ (call' # NoCall => call'.at = R)
    BY <1>1, <1>2, <1>3, <1>4, <1>9, FailLemma
  <2> QED
    BY <1>1, <1>4, <1>5, <1>9, <2>1, <2>2, CoreStep
<1>10. CASE /\ wild' = wild /\ Fail /\ supers' = supers
            /\ Same \/ (\E v \in Slot : Drop(v)) \/ \E i \in E : Touch(i)
  <2>1. FsInv' /\ Grows
    BY <1>2, <1>4, <1>10, KeepFs
  <2> QED
    BY <1>5, <1>9, <1>10, <2>1
<1>11. CASE /\ wild' = wild /\ Fail /\ \E v \in Slot : Drop(v)
            /\ supers' = [supers EXCEPT ![k[1]] = Numbered(@)]
  <2>1. k[1] \in sbs
    BY <1>6 DEF NodeThere
  <2>2. FsInv' /\ Grows
    BY <1>2, <1>4, <1>11, <2>1, NumberFs
  <2> QED
    BY <1>9, <1>11, <2>2
<1>12. CASE /\ wild' = wild /\ chr_devs' = chr_devs
            /\ call' = IF call.op = "open" THEN Begin(call, "again", call.path) ELSE NoCall
            /\ NodeOf(k).type = Dir /\ \E v \in Slot : Fill(v, n, supers[k[1]].last_ino)
            /\ supers' = [supers EXCEPT ![k[1]] =
                            Grown(@, k[2], n, NewNode(call.type, call.perm, call.dev))]
  <2>0. PICK ino : ino = supers[k[1]].last_ino
    OBVIOUS
  <2>1. PICK v \in Slot : ino = supers[k[1]].last_ino /\ Fill(v, n, ino)
    BY <1>12, <2>0
  <2>2. call \in Pending
    BY <1>1, <1>2 DEF CallInv
  <2>3. call.type \in Types /\ call.perm \in SUBSET {"r", "w"} /\ call.dev \in Device \cup {NoDev}
    BY <2>2 DEF Pending
  <2>4. PICK node \in Node : /\ node = NewNode(call.type, call.perm, call.dev)
                             /\ node.entries = << >> /\ node.type = call.type /\ node.dev = call.dev
    BY <2>3, NewNodeLemma
  <2>5. supers[k[1]].last_ino <= MaxIno
    BY <1>1, <1>2, <1>3, <1>6 DEF CallInv, NodeThere, Key
  <2>6. supers' = [supers EXCEPT ![k[1]] = Grown(@, k[2], n, node)]
    BY <1>12, <2>4
  <2>7. /\ FsInv' /\ Grows
        /\ HasGrown(supers'[k[1]], supers[k[1]], k[2], n, node)
    BY ZenonT(40), <1>2, <1>3, <1>4, <1>6, <1>12, <2>4, <2>5, <2>6, GrowFs
  <2>8. ino \in DOMAIN supers'[k[1]].nodes /\ k[1] \in sbs' /\ k[1] \in Device
        /\ supers'[k[1]].nodes[ino] = node
    BY <1>4, <1>6, <2>1, <2>7 DEF HasGrown, NodeThere, Key
  <2>9. CacheStep /\ E' = E \cup {v}
    BY <1>2, <1>3, <1>4, <1>5, <2>1, <2>7, <2>8, FillStep DEF k
  <2>10. accidents \subseteq accidents' /\ accidents' \subseteq Accidents
    BY <1>7, <2>1 DEF Fill
  <2>11. CallInv' /\ (call' # NoCall => call'.at = R /\ call'.op = "open")
    <3>1. CASE call.op # "open"
      BY <1>12, <3>1 DEF CallInv
    <3>2. CASE call.op = "open"
      <4>1. call' = Begin(call, "again", call.path) /\ Asked(call) /\ call.path \in Seq(Name)
        BY <1>12, <2>2, <3>2 DEF Asked, Pending
      <4>2. /\ call' \in Pending /\ call'.op = "open" /\ call'.phase = "again" /\ call'.at = R
        BY <1>5, <3>2, <4>1, BeginLemma
      <4> QED
        BY <1>4, <1>5, <4>2 DEF CallInv
    <3> QED
      BY <3>1, <3>2
  <2>12. DeviceInv'
    <3>1. ASSUME NEW t \in chr_devs PROVE HasNode(t)'
      <4>1. CASE HasNode(t)
        BY <1>2, <2>7, <4>1, HasNodeLemma
      <4>2. CASE call.op = "register" /\ call.dev = t
        <5>1. node.type = "chr" /\ node.dev = t
          BY <1>1, <1>2, <2>4, <4>2 DEF CallInv
        <5>2. supers'[k[1]] # NoSuper
          <6>1. supers'[k[1]].last_ino \in Nat
            BY <2>7, <2>8 DEF FsInv, Typed
          <6> QED
            BY <6>1 DEF NoSuper
        <5> QED
          BY <2>8, <5>1, <5>2 DEF HasNode
      <4> QED
        BY <1>1, <1>2, <4>1, <4>2 DEF DeviceInv
    <3> QED
      BY <1>2, <1>12, <3>1 DEF DeviceInv
  <2> QED
    BY <1>1, <1>4, <1>5, <1>12, <2>7, <2>9, <2>10, <2>11, <2>12, CoreStep
<1> QED
  BY <1>3, <1>8, <1>10, <1>11, <1>12 DEF CreateSteps, k

-----------------------------------------------------------------------------
(* The calls begin, and those that need no walk.                           *)
LEMMA CoreRegisterType ==
  ASSUME Core, NEW f \in Filesystems, NEW room \in Room, memfs_create(f[1], f[2], room)
  PROVE  Core'
<1>1. PICK name, dev : name = f[1] /\ dev = f[2]
  OBVIOUS
<1>2. /\ ~wild /\ call = NoCall /\ supers[dev] = NoSuper /\ memfs_create(name, dev, room)
      /\ UNCHANGED <<cache, sbs, vnodes, open, chr_devs, call>>
  BY <1>1 DEF memfs_create, Idle
<1>3. /\ dentries' = dentries /\ R' = R /\ UNCHANGED <<sbs, vnodes, files, vfs_files, in_use>>
      /\ UNCHANGED <<chr_devs, call>> /\ E' = E
  BY <1>2 DEF cache, open, R, E
<1>4. TypeInv /\ FsInv /\ CacheInv /\ DeviceInv /\ CountInv /\ FileInv /\ (R = NULL => E = {})
  BY <1>2 DEF Core
<1>5. dev \in Device /\ dev \notin sbs
  <2>1. dev \in Device
    BY <1>1, CallsAssumption
  <2>2. ~Typed(NoSuper)
    BY DEF NoSuper, Typed
  <2> QED
    BY <1>2, <1>4, <2>1, <2>2 DEF FsInv
<1>6. /\ accidents \subseteq accidents' /\ accidents' \subseteq Accidents
      /\ fs_types' \subseteq {h[1] : h \in Filesystems}
      /\ wild' = wild \/ (wild' = TRUE /\ supers' = supers)
      /\ supers' = supers \/ supers' = [supers EXCEPT ![dev] = memfs_init_super]
  <2>1. CASE wild' = TRUE /\ accidents' = accidents \cup {"freed"} /\ UNCHANGED <<supers, fs_types>>
    BY <1>4, <2>1 DEF TypeInv, Accidents
  <2>2. CASE /\ supers' = [supers EXCEPT ![dev] = memfs_init_super]
             /\ fs_types' = fs_types \cup {name} /\ UNCHANGED flaws
    BY <1>1, <1>4, <2>2 DEF TypeInv, flaws
  <2> QED
    BY <1>2, <2>1, <2>2 DEF memfs_create
<1>7. FsInv' /\ Grows
  BY <1>3, <1>4, <1>5, <1>6, KeepFs, OutsideFs
<1>8. CountInv' /\ FileInv'
  BY <1>3, <1>4, <1>6, <1>7, CountKeep, FileKeep
<1>9. TypeInv'
  BY <1>3, <1>4, <1>6 DEF TypeInv
<1>10. CallInv'
  BY <1>2, <1>3 DEF CallInv
<1>11. DeviceInv'
  BY <1>2, <1>3, <1>4, <1>7, HasNodeLemma DEF DeviceInv
<1>12. PlacesInv'
  BY <1>3, <1>4, <1>7, <1>9, PlacesKeep, SameStep DEF CacheInv
<1> QED
  BY <1>2, <1>3, <1>4, <1>7, <1>8, <1>9, <1>10, <1>11, <1>12 DEF Core, CacheInv

(* A call begins: it is at the root, which is there.                       *)
LEMMA CoreBegin ==
  ASSUME Core, NEW c \in Calls, Call(c) \/ dev_register_char_dev(c)
  PROVE  Core'
<1>1. /\ ~wild /\ call = NoCall /\ R # NULL /\ Bounded
      /\ UNCHANGED <<cache, mounts, vnodes, open, flaws>>
  BY DEF Call, dev_register_char_dev, Idle, R
<1>2. TypeInv /\ FsInv /\ CacheInv /\ DeviceInv /\ CountInv /\ FileInv /\ R \in E /\ R \in Slot
  BY <1>1 DEF Core, CacheInv, PlacesInv, E, InUse
<1>3. /\ UNCHANGED <<supers, sbs, fs_types, wild, accidents, vnodes, files, vfs_files, in_use>>
      /\ R' = R
  BY <1>1 DEF mounts, flaws, open, cache, R
<1>4. FsInv' /\ Grows
  BY <1>2, <1>3, KeepFs
<1>5. CountInv' /\ FileInv' /\ accidents' \subseteq Accidents
  BY <1>2, <1>3, <1>4, CountKeep, FileKeep DEF TypeInv
<1>6. \A d \in Device : supers'[d].last_ino <= MaxIno
  BY <1>1, <1>3 DEF Bounded
<1>7. Asked(c) /\ c.path \in Seq(Name)
  <2>1. c \in Request /\ c.type \in Types
    BY CallsAssumption DEF Types
  <2> QED
    BY <2>1 DEF Request, Asked
<1>8. c.path # << >> => Front(c.path) \in Seq(Name)
  BY <1>7, FrontLemma
<1>9. CASE Call(c)
  <2>1. /\ c.op # "register" /\ (c.op \in {"mkdir", "mknod", "mount"} => c.path # << >>)
        /\ call' = (IF c.op \in {"mkdir", "mknod"} THEN Begin(c, "create", Front(c.path))
                    ELSE Begin(c, "find", c.path))
        /\ chr_devs' = chr_devs
    BY <1>9 DEF Call
  <2>2. PICK phase \in {"find", "create", "again"}, path \in Seq(Name) :
          /\ call' = Begin(c, phase, path)
          /\ phase = IF c.op \in {"mkdir", "mknod"} THEN "create" ELSE "find"
    BY <1>7, <1>8, <2>1
  <2>3. /\ call' \in Pending /\ call' # NoCall /\ call'.op = c.op /\ call'.path = c.path
        /\ call'.dev = c.dev /\ call'.fs = c.fs /\ call'.phase = phase /\ call'.at = R
    BY <1>2, <1>7, <2>2, BeginLemma
  <2>4. CallInv'
    <3>1. c.op = "mount" => <<c.fs, c.dev>> \in Filesystems
      BY CallsAssumption
    <3>2. c.op \in {"stat", "open", "mkdir", "mknod", "mount", "register"}
      BY <1>7 DEF Asked
    <3> QED
      BY <1>1, <1>3, <1>6, <2>1, <2>2, <2>3, <3>1, <3>2 DEF CallInv
  <2>5. DeviceInv'
    BY <1>1, <1>2, <1>3, <2>1 DEF DeviceInv, HasNode
  <2> QED
    BY <1>1, <1>2, <1>3, <1>5, <2>3, <2>4, <2>5, CoreStay
<1>10. CASE dev_register_char_dev(c)
  <2>1. /\ c.op = "register" /\ call' = Begin(c, "create", Front(c.path))
        /\ chr_devs' = chr_devs \cup {c.dev}
    BY <1>10 DEF dev_register_char_dev
  <2>2. c.type = "chr" /\ c.dev \in Device /\ c.path # << >>
    BY <2>1, CallsAssumption
  <2>3. /\ call' \in Pending /\ call' # NoCall /\ call'.op = c.op /\ call'.path = c.path
        /\ call'.type = c.type /\ call'.dev = c.dev /\ call'.phase = "create" /\ call'.at = R
    BY <1>2, <1>7, <1>8, <2>1, <2>2, BeginLemma
  <2>4. CallInv'
    BY <1>1, <1>3, <1>6, <2>1, <2>2, <2>3 DEF CallInv
  <2>5. DeviceInv'
    BY <1>1, <1>2, <1>3, <2>1, <2>2, <2>3 DEF DeviceInv, HasNode
  <2> QED
    BY <1>1, <1>2, <1>3, <1>5, <2>3, <2>4, <2>5, CoreStay
<1> QED
  BY <1>9, <1>10

(* A call that cannot copy its path fails and leaves everything else.      *)
LEMMA CoreNoCopy ==
  ASSUME Core, NoCopy
  PROVE  Core'
<1>1. ~wild /\ call # NoCall /\ Fail /\ UNCHANGED <<cache, mounts, vnodes, open, flaws>>
  BY DEF NoCopy
<1>2. TypeInv /\ FsInv /\ CacheInv /\ CallInv /\ DeviceInv /\ CountInv /\ FileInv
  BY <1>1 DEF Core
<1>3. /\ UNCHANGED <<supers, sbs, fs_types, wild, accidents, vnodes, files, vfs_files, in_use>>
      /\ R' = R
  BY <1>1 DEF mounts, flaws, open, cache, R
<1>4. FsInv' /\ Grows
  BY <1>2, <1>3, KeepFs
<1>5. CountInv' /\ FileInv' /\ accidents' \subseteq Accidents
  BY <1>2, <1>3, <1>4, CountKeep, FileKeep DEF TypeInv
<1>6. CallInv' /\ DeviceInv' /\ (call' # NoCall => call'.at = R)
  BY <1>1, <1>2, <1>3, <1>4, FailLemma
<1>7. R \in E
  BY <1>1, <1>2 DEF CallInv, CacheInv, PlacesInv
<1> QED
  BY <1>1, <1>3, <1>5, <1>6, <1>7, CoreStay

(* A call that returns leaves what it registered, for that has its node.   *)
LEMMA ReturnLemma ==
  ASSUME DeviceInv, FsInv, FsInv', Grows, Return, call # NoCall => call.op # "register"
  PROVE  CallInv' /\ DeviceInv' /\ call' = NoCall
<1>1. call' = NoCall /\ chr_devs' = chr_devs
  BY DEF Return
<1>2. CallInv'
  BY <1>1 DEF CallInv
<1>3. DeviceInv'
  BY <1>1, HasNodeLemma DEF DeviceInv
<1> QED
  BY <1>1, <1>2, <1>3

(* vfs_stat only returns.                                                  *)
LEMMA CoreStat ==
  ASSUME Core, Stat
  PROVE  Core'
<1>1. ~wild /\ call.op = "stat" /\ Return /\ UNCHANGED <<cache, mounts, vnodes, open, flaws>>
  BY DEF Stat, Found
<1>2. TypeInv /\ FsInv /\ DeviceInv /\ CountInv /\ FileInv
  BY <1>1 DEF Core
<1>3. /\ UNCHANGED <<supers, sbs, fs_types, wild, accidents, vnodes, files, vfs_files, in_use>>
  BY <1>1 DEF mounts, flaws, open
<1>4. FsInv' /\ Grows
  BY <1>2, <1>3, KeepFs
<1>5. CountInv' /\ FileInv' /\ accidents' \subseteq Accidents
  BY <1>2, <1>3, <1>4, CountKeep, FileKeep DEF TypeInv
<1>6. CallInv' /\ DeviceInv' /\ call' = NoCall
  BY <1>1, <1>2, <1>4, ReturnLemma
<1> QED
  BY <1>1, <1>3, <1>5, <1>6, CoreStay

(* vfs_open counts, lists and marks what it opens, or refuses it.          *)
LEMMA CoreOpen ==
  ASSUME Core, NEW p \in FilePtr, NEW room \in Room, Open(p, room)
  PROVE  Core'
<1>1. /\ ~wild /\ call # NoCall /\ call.op = "open" /\ Return /\ UNCHANGED <<cache, mounts>>
  BY DEF Open, Found
<1>2. TypeInv /\ FsInv /\ CacheInv /\ DeviceInv /\ CountInv /\ FileInv
  BY <1>1 DEF Core
<1>3. UNCHANGED <<supers, sbs, fs_types>> /\ chr_devs' = chr_devs
  BY <1>1 DEF mounts, Return
<1>4. FsInv' /\ Grows
  BY <1>2, <1>3, KeepFs
<1>5. CallInv' /\ DeviceInv' /\ call' = NoCall
  BY <1>1, <1>2, <1>4, ReturnLemma
<1> DEFINE k == NodeKey(dentries, call.at)
<1>6. NodeThere(k)
  BY <1>1, <1>2, KeyLemma DEF CacheInv
<1>7. \/ UNCHANGED <<open, vnodes, flaws>>
      \/ files[p] = NoFile /\ Opens(NodeOf(k)) /\ OpenFile(p, k)
      \/ Refused(p, k)
  BY DEF Open
<1> HIDE DEF k
<1>8. CountInv' /\ FileInv' /\ accidents' \subseteq Accidents /\ wild' = wild
  <2>1. CASE UNCHANGED <<open, vnodes, flaws>>
    <3>1. UNCHANGED <<wild, accidents, vnodes, files, vfs_files, in_use>>
      BY <2>1 DEF open, flaws
    <3> QED
      BY <1>2, <1>4, <3>1, CountKeep, FileKeep DEF TypeInv
  <2>2. CASE files[p] = NoFile /\ Opens(NodeOf(k)) /\ OpenFile(p, k)
    <3>1. CountInv' /\ FileInv'
      BY <1>2, <1>3, <1>6, <2>2, OpenFileLemma
    <3> QED
      BY <1>2, <2>2, <3>1 DEF OpenFile, flaws, TypeInv
  <2>3. CASE Refused(p, k)
    BY <1>2, <1>3, <2>3, RefusedLemma DEF Refused
  <2> QED
    BY <1>7, <2>1, <2>2, <2>3
<1> QED
  BY <1>1, <1>3, <1>5, <1>8, CoreStay

(* vfs_file_close undoes what the open did.                                *)
LEMMA CoreClose ==
  ASSUME Core, NEW p \in FilePtr, Close(p)
  PROVE  Core'
<1>1. /\ ~wild /\ call = NoCall /\ UNCHANGED <<cache, mounts, chr_devs, call, flaws>>
  BY DEF Close, Idle
<1>2. TypeInv /\ FsInv /\ DeviceInv /\ CountInv /\ FileInv
  BY <1>1 DEF Core
<1>3. UNCHANGED <<supers, sbs, fs_types, wild, accidents>>
  BY <1>1 DEF mounts, flaws
<1>4. CountInv' /\ FileInv' /\ accidents' \subseteq Accidents
  BY <1>2, <1>3, CloseLemma DEF TypeInv
<1>5. CallInv'
  BY <1>1 DEF CallInv
<1>6. DeviceInv'
  BY <1>1, <1>2, <1>3 DEF DeviceInv, HasNode
<1> QED
  BY <1>1, <1>3, <1>4, <1>5, <1>6, CoreStay

-----------------------------------------------------------------------------
(* Mounting.  What it leaves of the cache when it succeeds,                *)
LEMMA MountedStep ==
  ASSUME TypeInv, PlacesInv, FsInv', Grows, NEW i \in E, i # R, dentries[i].mnt = NoSb,
         NEW d \in sbs', dentries' = [dentries EXCEPT ![i].mnt = d], R' = R
  PROVE  /\ PlacesInv' /\ dentries' \in [Slot -> Dentry] /\ E' = E
         /\ \A j \in Slot \ {i} : dentries'[j] = dentries[j]
         /\ dentries'[i] = [dentries[i] EXCEPT !.mnt = d]
<1>1. i \in Slot /\ dentries[i] \in Dentry /\ d \in Device /\ d # NoSb
  BY VfsAssumption DEF TypeInv, E, InUse, FsInv
<1>2. \A j \in Slot \ {i} : dentries'[j] = dentries[j]
  BY <1>1 DEF TypeInv
<1>3. dentries'[i] = [dentries[i] EXCEPT !.mnt = d]
  BY <1>1 DEF TypeInv
<1>4. dentries'[i] \in Dentry
  BY <1>1, <1>3 DEF Dentry
<1>5. dentries' \in [Slot -> Dentry]
  BY <1>1, <1>2, <1>4 DEF TypeInv
<1>6. /\ dentries'[i].name = dentries[i].name /\ dentries'[i].vno = dentries[i].vno
      /\ dentries'[i].parent = dentries[i].parent /\ dentries'[i].sb = dentries[i].sb
      /\ dentries'[i].mnt = d
  BY <1>1, <1>3 DEF Dentry
<1>7. E' = E
  BY <1>2, <1>6 DEF E, InUse
<1>8. ASSUME NEW j \in Slot
      PROVE  /\ dentries'[j].name = NoName => dentries'[j] = Empty
             /\ dentries'[j].name # NoName => dentries'[j].vno # 0
             /\ dentries'[j].sb # NoSb => dentries'[j].sb \in sbs'
             /\ dentries'[j].mnt # NoSb => dentries'[j].mnt \in sbs'
  <2>1. CASE j = i
    <3>1. dentries[i].name # NoName
      BY DEF E, InUse
    <3> QED
      BY <1>1, <1>6, <2>1, <3>1 DEF PlacesInv, Grows
  <2>2. CASE j # i
    BY <1>2, <2>2 DEF PlacesInv, Grows
  <2> QED
    BY <2>1, <2>2
<1>9. ASSUME NEW j \in E \ {R}
      PROVE  /\ dentries'[j].parent # NULL /\ dentries'[j].name \in Name
             /\ dentries'[j].sb # NoSb
             /\ dentries'[j].vno \in DOMAIN supers'[dentries'[j].sb].nodes
  <2>1. j \in Slot
    BY DEF E, InUse
  <2>2. /\ dentries'[j].name = dentries[j].name /\ dentries'[j].vno = dentries[j].vno
        /\ dentries'[j].parent = dentries[j].parent /\ dentries'[j].sb = dentries[j].sb
    BY <1>2, <1>6, <2>1
  <2>3. dentries[j].sb \in sbs
    BY <2>1 DEF PlacesInv
  <2> QED
    BY <2>1, <2>2, <2>3 DEF PlacesInv, Grows
<1>10. R # NULL => /\ R \in E /\ dentries'[R].mnt # NoSb
                   /\ dentries'[R].parent = NULL /\ dentries'[R].sb = NoSb
  BY <1>2 DEF PlacesInv, E, InUse
<1>11. PlacesInv'
  BY <1>7, <1>8, <1>9, <1>10 DEF PlacesInv
<1> QED
  BY <1>2, <1>3, <1>5, <1>7, <1>11

(* and the ways it goes, on an entry other than the root: it clears the    *)
(* entry, perhaps with the filesystem; it derails; or it mounts.           *)
MountSteps(c, i) ==
  \/ /\ dentries' = [dentries EXCEPT ![i] = Empty] /\ wild' = wild
     /\ accidents' = accidents \cup {"dropped"} /\ UNCHANGED <<supers, sbs>>
  \/ /\ dentries' = dentries /\ wild' = TRUE /\ supers[c.dev] = NoSuper /\ c.fs \in fs_types
     /\ accidents' = accidents /\ UNCHANGED <<supers, sbs>>
  \/ /\ dentries' = [dentries EXCEPT ![i] = Empty] /\ wild' = wild /\ c.dev \notin sbs
     /\ supers' = [supers EXCEPT ![c.dev] = NoSuper] /\ sbs' = sbs
     /\ accidents' = accidents \cup {"killed"}
  \/ /\ dentries' = [dentries EXCEPT ![i].mnt = c.dev] /\ wild' = wild /\ c.dev \notin sbs
     /\ supers[c.dev] # NoSuper /\ sbs' = sbs \cup {c.dev}
     /\ supers' = [supers EXCEPT ![c.dev] = memfs_sb_mount(@)]
     /\ accidents' = accidents \cup (IF Children(i) = {} THEN {} ELSE {"covered"})

(* vfs_mount goes one of these ways.                                       *)
LEMMA MountOnLemma ==
  ASSUME NEW c, NEW i, dentries[i].parent # NULL, NEW room, MountOn(c, dentries, i, room)
  PROVE  MountSteps(c, i) /\ R' = R
<1>1. \/ /\ dentries' = [dentries EXCEPT ![i] = Empty]
         /\ accidents' = accidents \cup {"dropped"}
         /\ UNCHANGED <<vfs_root_dentry, supers, sbs, wild>>
      \/ /\ c.fs \in fs_types /\ c.dev \notin sbs
         /\ \/ /\ supers[c.dev] = NoSuper /\ wild' = TRUE
               /\ dentries' = dentries /\ UNCHANGED <<vfs_root_dentry, supers, sbs, accidents>>
            \/ /\ supers' = [supers EXCEPT ![c.dev] = NoSuper]
               /\ dentries' = [dentries EXCEPT ![i] = Empty]
               /\ accidents' = accidents \cup {"killed"}
               /\ UNCHANGED <<vfs_root_dentry, sbs, wild>>
            \/ /\ supers[c.dev] # NoSuper
               /\ supers' = [supers EXCEPT ![c.dev] = memfs_sb_mount(supers[c.dev])]
               /\ sbs' = sbs \cup {c.dev} /\ dentries' = [dentries EXCEPT ![i].mnt = c.dev]
               /\ vfs_root_dentry' = vfs_root_dentry
               /\ accidents' = accidents \cup (IF Children(i) = {} THEN {} ELSE {"covered"})
               /\ UNCHANGED wild
  BY DEF MountOn
<1> QED
  BY <1>1 DEF MountSteps, R

(* A mount below the root (vfs_mount).                                     *)
LEMMA CoreMount ==
  ASSUME Core, NEW room \in Room, Mount(room)
  PROVE  Core'
<1>1. /\ ~wild /\ call # NoCall /\ call.op = "mount" /\ Return /\ UNCHANGED <<fs_types, open>>
  BY DEF Mount, Found
<1>2. TypeInv /\ FsInv /\ CacheInv /\ CallInv /\ DeviceInv /\ CountInv /\ FileInv
  BY <1>1 DEF Core
<1>3. UNCHANGED <<fs_types, files, vfs_files, in_use>> /\ chr_devs' = chr_devs
  BY <1>1 DEF open, Return
<1>0. PICK i, k : i = call.at /\ k = <<dentries[i].sb, dentries[i].vno>>
  OBVIOUS
<1>4. i \in E /\ i \in Slot /\ R \in E /\ R # NULL
  BY <1>0, <1>1, <1>2 DEF CacheInv, CallInv, PlacesInv, E, InUse
<1>5. call.dev \in Device
  BY <1>1, <1>2, CallsAssumption DEF CallInv
<1>6. CASE /\ UNCHANGED <<cache, supers, sbs, wild>> /\ UNCHANGED <<vnodes, accidents>>
  <2>1. FsInv' /\ Grows
    BY <1>2, <1>6, KeepFs
  <2>2. CountInv' /\ FileInv' /\ accidents' \subseteq Accidents
    BY <1>2, <1>3, <1>6, <2>1, CountKeep, FileKeep DEF TypeInv
  <2>3. CallInv' /\ DeviceInv' /\ call' = NoCall
    BY <1>1, <1>2, <2>1, ReturnLemma
  <2> QED
    BY <1>1, <1>3, <1>6, <2>2, <2>3, CoreStay
<1>7. CASE /\ dentries[i].mnt = NoSb /\ vnodes' = Acquired(k)
           /\ IF NodeOf(k).type # Dir
              THEN UNCHANGED <<cache, supers, sbs, wild>> /\ accidents' = accidents \cup {"leaked"}
              ELSE MountOn(call, dentries, i, room - Spent(k))
  <2>1. i # R /\ i \in E \ {R} /\ dentries[i].parent # NULL
    BY <1>2, <1>4, <1>7 DEF CacheInv, PlacesInv
  <2>2. NodeThere(k) /\ k \in Key
    <3>1. k = NodeKey(dentries, i)
      BY <1>0, <1>7 DEF NodeKey
    <3> QED
      BY <1>2, <1>4, <3>1, KeyLemma DEF CacheInv, NodeThere
  <2>3. vnodes' = [vnodes EXCEPT ![k] = @ + 1] /\ vnodes[k] + 1 \in Nat /\ 1 \in Int
    BY <1>2, <1>7, <2>2 DEF Acquired, CountInv
  <2>4. ASSUME Grows, accidents \subseteq accidents',
               NodeOf(k).type = Dir \/ "leaked" \in accidents'
        PROVE  CountInv' /\ FileInv'
    <3>1. \A l \in Key : FilesOn(l)' = FilesOn(l)
      BY <1>3 DEF FilesOn
    <3>2. FileInv'
      BY <1>2, <1>3, <2>4, FileKeep
    <3>3. PICK n \in Int : n = 1
      OBVIOUS
    <3>4. /\ vnodes' = [vnodes EXCEPT ![k] = @ + n] /\ vnodes[k] + n \in Nat
          /\ FilesOn(k)' = FilesOn(k) /\ n >= 0
          /\ \A l \in Key \ {k} : FilesOn(l)' = FilesOn(l)
      BY <2>2, <2>3, <3>1, <3>3
    <3>5. CountInv'
      BY <1>2, <2>2, <2>4, <3>4, CountLemma
    <3> QED
      BY <3>2, <3>5
  <2>5. ASSUME FsInv', Grows
        PROVE  CallInv' /\ DeviceInv' /\ call' = NoCall
    BY <1>1, <1>2, <2>5, ReturnLemma
  <2>6. CASE /\ UNCHANGED <<cache, supers, sbs, wild>> /\ accidents' = accidents \cup {"leaked"}
    <3>1. FsInv' /\ Grows
      BY <1>2, <2>6, KeepFs
    <3>2. accidents \subseteq accidents' /\ accidents' \subseteq Accidents
      BY <1>2, <2>6 DEF TypeInv, Accidents
    <3>3. CountInv' /\ FileInv'
      BY <2>4, <2>6, <3>1, <3>2
    <3> QED
      BY <1>1, <1>3, <2>5, <2>6, <3>1, <3>2, <3>3, CoreStay
  <2>7. CASE NodeOf(k).type = Dir /\ MountSteps(call, i) /\ R' = R
    <3>1. accidents \subseteq accidents' /\ accidents' \subseteq Accidents
      BY <1>2, <2>7 DEF MountSteps, TypeInv, Accidents
    <3>2. ASSUME FsInv', Grows, dentries' \in [Slot -> Dentry], wild' \in BOOLEAN,
                 ~wild' => PlacesInv'
          PROVE  Core'
      <4>1. TypeInv'
        BY <1>2, <1>3, <2>7, <3>1, <3>2 DEF TypeInv
      <4> QED
        BY <1>4, <2>4, <2>5, <2>7, <3>1, <3>2, <4>1 DEF Core, CacheInv
    <3>3. CASE /\ dentries' = [dentries EXCEPT ![i] = Empty]
               /\ \/ UNCHANGED <<supers, sbs>>
                  \/ /\ call.dev \notin sbs /\ sbs' = sbs
                     /\ supers' = [supers EXCEPT ![call.dev] = NoSuper]
               /\ wild' = wild
      <4>1. FsInv' /\ Grows
        BY <1>2, <1>5, <3>3, KeepFs, OutsideFs
      <4>2. CacheStep
        BY <1>2, <1>4, <1>7, <3>3, DropStep
      <4>3. PlacesInv'
        BY <1>2, <2>7, <4>1, <4>2, PlacesKeep DEF CacheInv
      <4> QED
        BY <1>2, <3>2, <3>3, <4>1, <4>2, <4>3 DEF CacheStep, TypeInv
    <3>4. CASE dentries' = dentries /\ wild' = TRUE /\ UNCHANGED <<supers, sbs>>
      <4>1. FsInv' /\ Grows
        BY <1>2, <3>4, KeepFs
      <4> QED
        BY <1>2, <3>2, <3>4, <4>1 DEF TypeInv
    <3>5. CASE /\ dentries' = [dentries EXCEPT ![i].mnt = call.dev] /\ wild' = wild
               /\ call.dev \notin sbs /\ supers[call.dev] # NoSuper /\ sbs' = sbs \cup {call.dev}
               /\ supers' = [supers EXCEPT ![call.dev] = memfs_sb_mount(@)]
      <4>1. PICK d \in Device \ sbs : d = call.dev
        BY <1>5, <3>5
      <4>2. FsInv' /\ Grows
        BY <1>2, <3>5, <4>1, MountFs
      <4>3. PlacesInv' /\ dentries' \in [Slot -> Dentry]
        BY <1>2, <1>7, <2>1, <2>7, <3>5, <4>1, <4>2, MountedStep DEF CacheInv
      <4> QED
        BY <1>2, <3>2, <3>5, <4>2, <4>3 DEF TypeInv
    <3> QED
      BY <2>7, <3>3, <3>4, <3>5 DEF MountSteps
  <2>8. NodeOf(k).type = Dir /\ MountOn(call, dentries, i, room - Spent(k)) => MountSteps(call, i) /\ R' = R
    BY <2>1, MountOnLemma
  <2> QED
    BY <1>7, <2>6, <2>7, <2>8
<1> QED
  BY <1>0, <1>6, <1>7 DEF Mount

(* The root is mounted when the cache is empty, on an entry made for it.   *)
RootEntry == NewEntry(Root, NULL, NoSb, 1)

RootSteps(c, v) ==
  \/ /\ dentries' = dentries /\ wild' = wild /\ R' = R
     /\ \/ UNCHANGED <<supers, sbs, accidents>>
        \/ /\ c.dev \notin sbs /\ sbs' = sbs /\ accidents' = accidents \cup {"killed"}
           /\ supers' = [supers EXCEPT ![c.dev] = NoSuper]
  \/ /\ dentries' = [dentries EXCEPT ![v] = RootEntry] /\ wild' = TRUE /\ R' = R
     /\ supers[c.dev] = NoSuper /\ c.fs \in fs_types /\ UNCHANGED <<supers, sbs, accidents>>
  \/ /\ dentries' = [dentries EXCEPT ![v] = [RootEntry EXCEPT !.mnt = c.dev]] /\ wild' = wild
     /\ R' = v /\ c.dev \notin sbs /\ supers[c.dev] # NoSuper /\ sbs' = sbs \cup {c.dev}
     /\ supers' = [supers EXCEPT ![c.dev] = memfs_sb_mount(@)] /\ accidents' = accidents

(* The mount of the root goes one of these ways.                           *)
LEMMA MountRootLemma ==
  ASSUME Core, NEW c \in Calls, NEW room \in Room, MountRoot(c, room)
  PROVE  \E v \in Slot : RootSteps(c, v)
<1> DEFINE g == vfs_dentry_get(dentries, NULL, Root, room)
<1>1. /\ ~wild /\ R = NULL /\ g.slot # NULL
      /\ MountOn(c, [g.d EXCEPT ![g.slot].vno = 1], g.slot, room - 1)
  BY DEF MountRoot, Idle, R
<1>2. dentries \in [Slot -> Dentry] /\ E = {} /\ \A i \in Slot : dentries[i] = Empty
  BY <1>1 DEF Core, TypeInv, CacheInv, PlacesInv, E, InUse
<1>3. room \in Nat /\ NULL \in Slot \cup {NULL} /\ Root \in Name \cup {Root}
      /\ \A i \in Slot \ E : dentries[i] = Empty
  BY <1>2, VfsAssumption
<1>4. \/ \E i \in Cached(dentries, NULL, Root) : Hit(g, i)
      \/ Cached(dentries, NULL, Root) = {} /\ NoPlace(g) /\ Slot \ E = {}
      \/ \E v \in Slot : Cached(dentries, NULL, Root) = {} /\ Spared(v) /\ NoRoom(g, v)
      \/ \E v \in Slot : Cached(dentries, NULL, Root) = {} /\ Spared(v) /\ Made(g, v, Root, NULL)
                         /\ room # 0
  BY <1>2, <1>3, GetLemma
<1> HIDE DEF g
<1>5. Cached(dentries, NULL, Root) = {}
  BY <1>2 DEF Cached, E
<1>6. PICK v \in Slot : Made(g, v, Root, NULL)
  BY <1>1, <1>4, <1>5 DEF NoPlace, NoRoom
<1> DEFINE new == NewEntry(Root, NULL, NoSb, 0)
           d == [dentries EXCEPT ![v] = RootEntry]
<1>7. g.slot = v /\ g.d = [dentries EXCEPT ![v] = new]
  BY <1>6 DEF Made, Sb
<1>8. [new EXCEPT !.vno = 1] = RootEntry
  BY DEF NewEntry, RootEntry
<1> HIDE DEF new
<1>9. [g.d EXCEPT ![g.slot].vno = 1] = [dentries EXCEPT ![v] = [new EXCEPT !.vno = 1]]
  BY <1>2, <1>7
<1>10. MountOn(c, d, v, room - 1)
  BY <1>1, <1>7, <1>8, <1>9
<1>11. d[v] = RootEntry /\ RootEntry.parent = NULL
  BY <1>2 DEF NewEntry, RootEntry
<1>12. Children(v) = {}
  BY <1>2 DEF Children, E
<1>13. [d EXCEPT ![v] = Empty] = dentries
  BY <1>2
<1>14. [d EXCEPT ![v].mnt = c.dev] = [dentries EXCEPT ![v] = [RootEntry EXCEPT !.mnt = c.dev]]
  BY <1>2
<1> HIDE DEF d
<1>15. \/ /\ dentries' = [d EXCEPT ![v] = Empty]
          /\ accidents' = accidents \cup (IF d[v].parent = NULL THEN {} ELSE {"dropped"})
          /\ UNCHANGED <<vfs_root_dentry, supers, sbs, wild>>
       \/ /\ c.fs \in fs_types /\ c.dev \notin sbs
          /\ \/ /\ supers[c.dev] = NoSuper /\ wild' = TRUE
                /\ dentries' = d /\ UNCHANGED <<vfs_root_dentry, supers, sbs, accidents>>
             \/ /\ supers' = [supers EXCEPT ![c.dev] = NoSuper]
                /\ dentries' = [d EXCEPT ![v] = Empty]
                /\ accidents' = accidents \cup {"killed"}
                /\ UNCHANGED <<vfs_root_dentry, sbs, wild>>
             \/ /\ supers[c.dev] # NoSuper
                /\ supers' = [supers EXCEPT ![c.dev] = memfs_sb_mount(supers[c.dev])]
                /\ sbs' = sbs \cup {c.dev} /\ dentries' = [d EXCEPT ![v].mnt = c.dev]
                /\ vfs_root_dentry' = IF d[v].parent = NULL THEN v ELSE vfs_root_dentry
                /\ accidents' = accidents \cup (IF Children(v) = {} THEN {} ELSE {"covered"})
                /\ UNCHANGED wild
  BY <1>10 DEF MountOn
<1>16. accidents \cup {} = accidents
  OBVIOUS
<1>17. RootSteps(c, v)
  BY <1>11, <1>12, <1>13, <1>14, <1>15, <1>16 DEF RootSteps, R, d
<1> QED
  BY <1>17

(* When it succeeds the cache has one entry, the root.                     *)
LEMMA RootStep ==
  ASSUME TypeInv, PlacesInv, E = {}, FsInv', NEW v \in Slot, NEW d \in sbs',
         dentries' = [dentries EXCEPT ![v] = [RootEntry EXCEPT !.mnt = d]], R' = v
  PROVE  PlacesInv' /\ dentries' \in [Slot -> Dentry] /\ E' = {v}
<1> DEFINE new == [RootEntry EXCEPT !.mnt = d]
<1>1. R' \in Slot /\ R' # NULL /\ NULL \notin Slot
  BY DEF Slot, NULL
<1>2. new = [name |-> Root, vno |-> 1, parent |-> NULL, sb |-> NoSb, mnt |-> d, count |-> 1]
  BY DEF RootEntry, NewEntry
<1> HIDE DEF new
<1>3. d \in Device /\ d # NoSb
  BY VfsAssumption DEF FsInv
<1>4. new \in Dentry
  BY <1>2, <1>3 DEF Dentry
<1>5. dentries' \in [Slot -> Dentry] /\ dentries'[v] = new
      /\ \A i \in Slot \ {v} : dentries'[i] = dentries[i]
  BY <1>4 DEF TypeInv, new
<1>6. \A i \in Slot : dentries[i] = Empty
  BY DEF PlacesInv, E, InUse
<1>7. /\ new.name # NoName /\ new.vno # 0 /\ new.sb = NoSb /\ new.mnt = d /\ new.parent = NULL
      /\ Empty.name = NoName /\ Empty.sb = NoSb /\ Empty.mnt = NoSb
  BY <1>2 DEF Empty, Root, NoName
<1>8. E' = {v}
  BY <1>5, <1>6, <1>7 DEF E, InUse
<1>9. PlacesInv'
  <2>1. \A i \in Slot :
          /\ dentries'[i].name = NoName => dentries'[i] = Empty
          /\ dentries'[i].name # NoName => dentries'[i].vno # 0
          /\ dentries'[i].sb # NoSb => dentries'[i].sb \in sbs'
          /\ dentries'[i].mnt # NoSb => dentries'[i].mnt \in sbs'
    BY <1>5, <1>6, <1>7
  <2>2. E' \ {R'} = {}
    BY <1>8
  <2>3. R' \in E' /\ dentries'[R'].mnt # NoSb /\ dentries'[R'].parent = NULL
        /\ dentries'[R'].sb = NoSb
    BY <1>3, <1>5, <1>7, <1>8
  <2> QED
    BY <2>1, <2>2, <2>3 DEF PlacesInv
<1> QED
  BY <1>5, <1>8, <1>9

(* The mount of the root (vfs_mount with no root yet).                     *)
LEMMA CoreMountRoot ==
  ASSUME Core, NEW c \in Calls, NEW room \in Room, MountRoot(c, room)
  PROVE  Core'
<1>1. /\ ~wild /\ call = NoCall /\ R = NULL /\ c.op = "mount"
      /\ UNCHANGED <<fs_types, vnodes, open, chr_devs, call>>
  BY DEF MountRoot, Idle, R
<1>2. TypeInv /\ FsInv /\ PlacesInv /\ DeviceInv /\ CountInv /\ FileInv /\ E = {}
  BY <1>1 DEF Core, CacheInv
<1>3. UNCHANGED <<fs_types, vnodes, files, vfs_files, in_use, chr_devs, call>>
  BY <1>1 DEF open
<1>4. c.dev \in Device
  BY <1>1, CallsAssumption
<1>5. PICK v \in Slot : RootSteps(c, v)
  BY MountRootLemma
<1>6. accidents \subseteq accidents' /\ accidents' \subseteq Accidents
  BY <1>2, <1>5 DEF RootSteps, TypeInv, Accidents
<1>7. ASSUME FsInv', Grows, dentries' \in [Slot -> Dentry], wild' \in BOOLEAN,
             R' \in Slot \cup {NULL}, ~wild' => PlacesInv' /\ (R' = NULL => E' = {})
      PROVE  Core'
  <2>1. TypeInv'
    BY <1>2, <1>3, <1>6, <1>7 DEF TypeInv
  <2>2. CountInv' /\ FileInv'
    BY <1>2, <1>3, <1>6, <1>7, CountKeep, FileKeep
  <2>3. CallInv'
    BY <1>1, <1>3 DEF CallInv
  <2>4. DeviceInv'
    BY <1>1, <1>2, <1>3, <1>7, HasNodeLemma DEF DeviceInv
  <2> QED
    BY <1>1, <1>3, <1>7, <2>1, <2>2, <2>3, <2>4 DEF Core, CacheInv
<1>8. CASE /\ dentries' = dentries /\ wild' = wild /\ R' = R
           /\ \/ UNCHANGED <<supers, sbs>>
              \/ /\ c.dev \notin sbs /\ sbs' = sbs
                 /\ supers' = [supers EXCEPT ![c.dev] = NoSuper]
  <2>1. FsInv' /\ Grows
    BY <1>2, <1>4, <1>8, KeepFs, OutsideFs
  <2>2. CacheStep /\ E' = E
    BY <1>2, <1>8, SameStep
  <2>3. PlacesInv'
    BY <1>2, <1>8, <2>1, <2>2, PlacesKeep
  <2> QED
    BY <1>2, <1>7, <1>8, <2>1, <2>2, <2>3 DEF TypeInv
<1>9. CASE /\ dentries' = [dentries EXCEPT ![v] = RootEntry] /\ wild' = TRUE /\ R' = R
           /\ UNCHANGED <<supers, sbs>>
  <2>1. FsInv' /\ Grows
    BY <1>2, <1>9, KeepFs
  <2>2. RootEntry \in Dentry
    BY DEF RootEntry, NewEntry, Dentry
  <2>3. dentries' \in [Slot -> Dentry]
    BY <1>2, <1>9, <2>2 DEF TypeInv
  <2> QED
    BY <1>2, <1>7, <1>9, <2>1, <2>3 DEF TypeInv
<1>10. CASE /\ dentries' = [dentries EXCEPT ![v] = [RootEntry EXCEPT !.mnt = c.dev]]
            /\ wild' = wild /\ R' = v /\ c.dev \notin sbs /\ supers[c.dev] # NoSuper
            /\ sbs' = sbs \cup {c.dev} /\ supers' = [supers EXCEPT ![c.dev] = memfs_sb_mount(@)]
  <2>1. PICK d \in Device \ sbs : d = c.dev
    BY <1>4, <1>10
  <2>2. FsInv' /\ Grows
    BY <1>2, <1>10, <2>1, MountFs
  <2>3. PlacesInv' /\ dentries' \in [Slot -> Dentry] /\ E' = {v}
    BY <1>2, <1>10, <2>1, <2>2, RootStep
  <2>4. R' # NULL
    BY <1>10 DEF Slot, NULL
  <2> QED
    BY <1>2, <1>7, <1>10, <2>2, <2>3, <2>4 DEF TypeInv
<1> QED
  BY <1>5, <1>8, <1>9, <1>10 DEF RootSteps

-----------------------------------------------------------------------------
(* What holds whatever happens is an invariant.                            *)
LEMMA InitCore == Init => Core
<1> SUFFICES ASSUME Init PROVE Core
  OBVIOUS
<1>1. /\ dentries = [i \in Slot |-> Empty] /\ R = NULL
      /\ supers = [d \in Device |-> NoSuper] /\ fs_types = {} /\ sbs = {}
      /\ vnodes = [k \in Key |-> 0]
      /\ files = [p \in FilePtr |-> NoFile] /\ vfs_files = << >>
      /\ chr_devs = {} /\ in_use = {} /\ call = NoCall /\ wild = FALSE /\ accidents = {}
  BY DEF Init, R, list_init
<1>2. Empty \in Dentry
  BY DEF Empty, Dentry
<1>3. TypeInv
  BY <1>1, <1>2 DEF TypeInv
<1>4. E = {}
  BY <1>1 DEF E, InUse, Empty
<1>5. FsInv
  BY <1>1 DEF FsInv
<1>6. CallInv
  BY <1>1 DEF CallInv
<1>7. DeviceInv
  BY <1>1 DEF DeviceInv
<1>8. \A T \in SUBSET FilePtr : T = {} => Cardinality(T) = 0
  BY FS_EmptySet
<1>9. CountInv
  <2>1. \A k \in Key : vnodes[k] = 0 /\ FilesOn(k) = {}
    BY <1>1 DEF FilesOn
  <2>2. \A k \in Key : Cardinality(FilesOn(k)) = 0
    BY <1>8, <2>1 DEF FilesOn
  <2>3. vnodes \in [Key -> Nat]
    BY <1>1
  <2> QED
    BY <2>1, <2>2, <2>3 DEF CountInv, VnodesCounted
<1>10. FileInv
  <2>1. \A t \in Tty : FilesOf(t) = {}
    BY <1>1 DEF FilesOf
  <2>2. DeviceExclusive
    BY <1>1, <1>8, <2>1 DEF DeviceExclusive, FilesOf
  <2>3. vfs_files \in Seq(FilePtr) /\ ToSet(vfs_files) = {} /\ DOMAIN vfs_files = {}
    BY <1>1 DEF ToSet
  <2>4. FilesListed
    BY <1>1, <2>3 DEF FilesListed
  <2>5. \A p \in FilePtr : files[p] = NoFile
    BY <1>1
  <2>6. files \in [FilePtr -> [key : Key, dev : Device \cup {NoDev}] \cup {NoFile}]
    BY <1>1
  <2> QED
    BY <1>1, <2>2, <2>3, <2>4, <2>5, <2>6 DEF FileInv
<1>11. PlacesInv
  BY <1>1, <1>4 DEF PlacesInv, Empty
<1> QED
  BY <1>1, <1>3, <1>4, <1>5, <1>6, <1>7, <1>9, <1>10, <1>11 DEF Core, CacheInv

(* A step of something else leaves it true,                                *)
LEMMA StutterCore ==
  ASSUME Core, UNCHANGED vars
  PROVE  Core'
<1>1. UNCHANGED <<cache, supers, sbs, fs_types, wild, accidents, call, chr_devs, vnodes, files,
                  vfs_files, in_use>>
  BY DEF vars, cache
<1>2. CASE ~wild
  <2>1. TypeInv /\ FsInv /\ CallInv /\ DeviceInv /\ CountInv /\ FileInv /\ CacheInv
    BY <1>2 DEF Core
  <2>2. CountInv' /\ FileInv'
    BY <1>1, <2>1, KeepFs, CountKeep, FileKeep
  <2>3. CallInv'
    BY <1>1, <2>1 DEF CallInv, R, cache
  <2>4. DeviceInv'
    BY <1>1, <2>1 DEF DeviceInv, HasNode
  <2>5. accidents' \subseteq Accidents /\ (call' # NoCall => call'.at \in E)
    BY <1>1, <2>1 DEF TypeInv, CacheInv
  <2> QED
    BY <1>1, <1>2, <2>2, <2>3, <2>4, <2>5, CoreStay
<1>3. CASE wild
  <2>1. TypeInv /\ FsInv /\ CallInv /\ DeviceInv /\ CountInv /\ FileInv
    BY <1>3 DEF Core
  <2>2. TypeInv' /\ wild'
    BY <1>1, <1>3, <2>1 DEF TypeInv, R, cache
  <2>3. CountInv' /\ FileInv' /\ FsInv'
    BY <1>1, <2>1, KeepFs, CountKeep, FileKeep
  <2>4. CallInv'
    BY <1>1, <2>1 DEF CallInv, R, cache
  <2>5. DeviceInv'
    BY <1>1, <2>1 DEF DeviceInv, HasNode
  <2> QED
    BY <2>2, <2>3, <2>4, <2>5 DEF Core
<1> QED
  BY <1>2, <1>3

(* for every step keeps it.                                                *)
LEMMA NextCore == Core /\ [Next]_vars => Core'
<1> SUFFICES ASSUME Core, [Next]_vars PROVE Core'
  OBVIOUS
<1>1. CASE Next
  <2>1. CASE \E f \in Filesystems, room \in Room : memfs_create(f[1], f[2], room)
    BY <2>1, CoreRegisterType
  <2>2. CASE \E c \in Calls : Call(c) \/ dev_register_char_dev(c)
    BY <2>2, CoreBegin
  <2>3. CASE \E c \in Calls, room \in Room : MountRoot(c, room)
    BY <2>3, CoreMountRoot
  <2>4. CASE NoCopy
    BY <2>4, CoreNoCopy
  <2>5. CASE Stat
    BY <2>5, CoreStat
  <2>6. CASE \E room \in Room : Walk(room)
    BY <2>6, CoreWalk
  <2>7. CASE \E room \in Room : CreateNode(room)
    BY <2>7, CoreCreate
  <2>8. CASE \E room \in Room : Mount(room)
    BY <2>8, CoreMount
  <2>9. CASE \E p \in FilePtr, room \in Room : Open(p, room)
    BY <2>9, CoreOpen
  <2>10. CASE \E p \in FilePtr : Close(p)
    BY <2>10, CoreClose
  <2> QED
    BY <1>1, <2>1, <2>2, <2>3, <2>4, <2>5, <2>6, <2>7, <2>8, <2>9, <2>10 DEF Next
<1>2. CASE UNCHANGED vars
  BY <1>2, StutterCore
<1> QED
  BY <1>1, <1>2

(* What holds whatever happens is an invariant, accidents and all.         *)
THEOREM CoreInvariance == Spec => []Core
BY InitCore, NextCore, PTL DEF Spec

(* The types of TypeOK.                                                    *)
LEMMA CoreTypes ==
  ASSUME Core
  PROVE  TypeOK
<1>1. TypeInv /\ FsInv /\ CountInv /\ FileInv /\ DeviceInv
  BY DEF Core
<1>2. ASSUME NEW d \in Device, supers[d] # NoSuper
      PROVE  /\ supers[d].last_ino \in Nat /\ DOMAIN supers[d].nodes \subseteq 1 .. MaxIno
             /\ \A i \in DOMAIN supers[d].nodes : i < supers[d].last_ino
  <2>1. memfs_init_super.last_ino = 0 /\ DOMAIN memfs_init_super.nodes = {}
    BY DEF memfs_init_super
  <2> QED
    BY <1>1, <1>2, <2>1 DEF FsInv, Typed, Tree
<1> QED
  BY <1>1, <1>2 DEF TypeOK, TypeInv, FsInv, CountInv, FileInv, DeviceInv, R

(* What becomes of a mountpoint.                                           *)
Stays == \A i \in Slot : dentries[i].mnt # NoSb =>
           dentries'[i] = [dentries[i] EXCEPT !.count = dentries'[i].count]

(* A mountpoint that is kept, or left alone, stays.                        *)
LEMMA StaysLemma ==
  ASSUME TypeInv,
         \A i \in Slot : dentries[i].mnt # NoSb => dentries'[i] = dentries[i] \/ Kept(i)
  PROVE  Stays
BY DEF TypeInv, Stays, Kept, Dentry

(* Every step of the code leaves the mountpoints.                          *)
LEMMA NextStays ==
  ASSUME Core, Next
  PROVE  Stays
<1>1. TypeInv
  BY DEF Core
<1>2. ASSUME dentries' = dentries PROVE Stays
  BY <1>1, <1>2, StaysLemma
<1>3. ASSUME NEW v \in Slot, dentries[v].mnt = NoSb, NEW new,
             dentries' = [dentries EXCEPT ![v] = new]
      PROVE  Stays
  <2>1. \A i \in Slot \ {v} : dentries'[i] = dentries[i]
    BY <1>1, <1>3 DEF TypeInv
  <2> QED
    BY <1>1, <1>3, <2>1, StaysLemma
<1>4. ASSUME NEW i \in E, Touch(i) PROVE Stays
  BY <1>1, <1>4, TouchStep, StaysLemma
<1>5. CASE \E room \in Room : Walk(room)
  <2>1. PICK room \in Room : Walk(room)
    BY <1>5
  <2>2. FsInv /\ CacheInv /\ CallInv
    BY <2>1 DEF Core, Walk
  <2>3. WalkSteps(Head(call.todo))
    BY <1>1, <2>1, <2>2, WalkLemma
  <2>4. \A i \in Cached(dentries, call.at, Head(call.todo)) : i \in E
    BY DEF Cached, E
  <2>5. CASE Derail
    BY <1>1, <2>5, StaysLemma DEF Derail
  <2>6. CASE Same
    BY <1>2, <2>6 DEF Same
  <2>7. CASE \E v \in Slot : Drop(v)
    BY <1>3, <2>7 DEF Drop, Spared
  <2>8. CASE \E i \in E : Touch(i)
    BY <1>4, <2>8
  <2>9. CASE \E v \in Slot : \E ino : Fill(v, Head(call.todo), ino)
    BY <1>3, <2>9 DEF Fill, Spared
  <2> QED
    BY <2>3, <2>4, <2>5, <2>6, <2>7, <2>8, <2>9 DEF WalkSteps
<1>6. CASE \E room \in Room : CreateNode(room)
  <2>1. PICK room \in Room : CreateNode(room)
    BY <1>6
  <2>2. FsInv /\ CacheInv /\ CallInv
    BY <2>1 DEF Core, CreateNode
  <2>3. CreateSteps(Last(call.path), NodeKey(dentries, call.at))
    BY <1>1, <2>1, <2>2, CreateLemma
  <2>4. CASE Derail
    BY <1>1, <2>4, StaysLemma DEF Derail
  <2>5. CASE Same
    BY <1>2, <2>5 DEF Same
  <2>6. CASE \E v \in Slot : Drop(v)
    BY <1>3, <2>6 DEF Drop, Spared
  <2>7. CASE \E i \in E : Touch(i)
    BY <1>4, <2>7
  <2>8. CASE \E v \in Slot : \E ino : Fill(v, Last(call.path), ino)
    BY <1>3, <2>8 DEF Fill, Spared
  <2> QED
    BY <2>3, <2>4, <2>5, <2>6, <2>7, <2>8 DEF CreateSteps
<1>7. CASE \E c \in Calls, room \in Room : MountRoot(c, room)
  <2>1. PICK c \in Calls, room \in Room : MountRoot(c, room)
    BY <1>7
  <2>2. E = {} /\ CacheInv
    BY <2>1 DEF Core, MountRoot, Idle, R
  <2>3. \A i \in Slot : dentries[i].mnt = NoSb
    BY <2>2 DEF CacheInv, PlacesInv, E, InUse, Empty
  <2> QED
    BY <2>3 DEF Stays
<1>8. CASE \E room \in Room : Mount(room)
  <2>1. PICK room \in Room : Mount(room)
    BY <1>8
  <2>2. CacheInv /\ CallInv /\ call # NoCall
    BY <2>1 DEF Core, Mount, Found
  <2>3. PICK i \in E : i = call.at
    BY <2>2 DEF CacheInv
  <2>4. i \in Slot
    BY DEF E, InUse
  <2>5. \/ UNCHANGED cache
        \/ dentries[i].mnt = NoSb /\ \E room2 : MountOn(call, dentries, i, room2)
    BY <2>1, <2>3 DEF Mount
  <2>6. CASE UNCHANGED cache
    BY <1>2, <2>6 DEF cache
  <2>7. CASE dentries[i].mnt = NoSb /\ \E room2 : MountOn(call, dentries, i, room2)
    <3>1. dentries[i].parent # NULL
      BY <2>2, <2>7 DEF CacheInv, CallInv, PlacesInv
    <3>2. MountSteps(call, i)
      BY <2>7, <3>1, MountOnLemma
    <3>3. \/ dentries' = dentries
          \/ \E new : dentries' = [dentries EXCEPT ![i] = new]
      BY <3>2 DEF MountSteps
    <3> QED
      BY <1>2, <1>3, <2>4, <2>7, <3>3
  <2> QED
    BY <2>5, <2>6, <2>7
<1>9. CASE \/ \E f \in Filesystems, room \in Room : memfs_create(f[1], f[2], room)
           \/ \E c \in Calls : Call(c) \/ dev_register_char_dev(c)
           \/ NoCopy \/ Stat
           \/ \E p \in FilePtr, room \in Room : Open(p, room)
           \/ \E p \in FilePtr : Close(p)
  <2>1. UNCHANGED cache
    BY <1>9 DEF memfs_create, Call, dev_register_char_dev, NoCopy, Stat, Open, Close
  <2> QED
    BY <1>2, <2>1 DEF cache
<1> QED
  BY <1>5, <1>6, <1>7, <1>8, <1>9 DEF Next

(* A vnode counts the open files that use it, whichever steps of which     *)
(* calls fail: only directories, on which mounts are made, count higher,   *)
(* until a mount fails on something else (vfs.c:484-498, 965-975).         *)
THEOREM CountsFiles == Spec => []VnodesCounted
<1>1. Core => VnodesCounted
  BY DEF Core, CountInv
<1> QED
  BY <1>1, CoreInvariance, PTL

(* The list of open files (vfs.c:614-643, 646-670) is that of the files    *)
(* that are open, each once, until a file is freed that is in the list.    *)
THEOREM ListsFiles == Spec => []FilesListed
<1>1. Core => FilesListed
  BY DEF Core, FileInv
<1> QED
  BY <1>1, CoreInvariance, PTL

(* A tty is in use exactly while one open file is on it (serial.c:329-353).*)
THEOREM TtyExclusive == Spec => []DeviceExclusive
<1>1. Core => DeviceExclusive
  BY DEF Core, FileInv
<1> QED
  BY <1>1, CoreInvariance, PTL

(* A registered device has a node between the calls (devices.c:178-184).   *)
THEOREM DevicesReachable == Spec => []DevicesHaveNodes
<1>1. Core => DevicesHaveNodes
  BY DEF Core, DeviceInv, DevicesHaveNodes, HasNode
<1> QED
  BY <1>1, CoreInvariance, PTL

(* A mountpoint is never evicted, cleared or given to another name         *)
(* (vfs.c:239-242): a step that only counts is all that happens to it.     *)
THEOREM MountpointsStay == Spec => MountsKept
<1>1. Core /\ [Next]_vars => [Stays]_vars
  BY NextStays
<1>2. [Stays]_vars => [\A i \in Slot : dentries[i].mnt # NoSb =>
         dentries'[i] = [dentries[i] EXCEPT !.count = dentries'[i].count]]_vars
  BY DEF Stays
<1> QED
  BY <1>1, <1>2, CoreInvariance, PTL DEF Spec, MountsKept

-----------------------------------------------------------------------------
(* What holds barring the accidents.  A lookup sees the entries only.      *)
LEMMA LookupSame ==
  ASSUME NEW ms, NEW ns, NEW dir, NEW n, ms.nodes[dir].entries = ns.nodes[dir].entries
  PROVE  memfs_ino_lookup(ms, dir, n) = memfs_ino_lookup(ns, dir, n)
BY DEF memfs_ino_lookup, Entry

(* No entry of the cache changes but for its count, and no directory.      *)
LEMMA TreeKeep ==
  ASSUME TypeInv, FsInv, PlacesInv, TreeInv, SameTrees, R' = R, \A j \in Slot : Kept(j)
  PROVE  TreeInv'
<1>1. \A j \in Slot :
        /\ dentries'[j].name = dentries[j].name /\ dentries'[j].vno = dentries[j].vno
        /\ dentries'[j].parent = dentries[j].parent /\ dentries'[j].sb = dentries[j].sb
        /\ dentries'[j].mnt = dentries[j].mnt
  BY KeptLemma DEF TypeInv
<1>2. E' = E /\ E \subseteq Slot
  BY <1>1 DEF E, InUse
<1>3. \A j \in E : NodeKey(dentries', j) = NodeKey(dentries, j) /\ Key0(j)' = Key0(j)
  BY <1>1, <1>2 DEF NodeKey, Key0
<1>4. sbs' = sbs /\ \A d \in sbs : supers'[d].nodes = supers[d].nodes
  BY DEF SameTrees
<1>5. ASSUME NEW i \in E \ {R} PROVE Coherent(i)'
  <2>1. PICK p, k : p = dentries[i].parent /\ k = NodeKey(dentries, p)
    OBVIOUS
  <2>2. p \in E /\ dentries[i].sb = k[1] /\ dentries[i].vno # 0
        /\ dentries[i].vno = memfs_ino_lookup(supers[k[1]], k[2], dentries[i].name)
    BY <2>1 DEF TreeInv, Coherent
  <2>3. NodeThere(k)
    BY <2>1, <2>2, KeyLemma
  <2>4. supers'[k[1]].nodes[k[2]].entries = supers[k[1]].nodes[k[2]].entries
    BY <1>4, <2>3 DEF NodeThere
  <2>5. memfs_ino_lookup(supers'[k[1]], k[2], dentries[i].name)
          = memfs_ino_lookup(supers[k[1]], k[2], dentries[i].name)
    BY <2>4, LookupSame
  <2>6. dentries'[i].parent = p /\ NodeKey(dentries', p) = k /\ dentries'[i].sb = dentries[i].sb
        /\ dentries'[i].vno = dentries[i].vno /\ dentries'[i].name = dentries[i].name
    BY <1>1, <1>2, <1>3, <2>1, <2>2
  <2> QED
    BY <1>2, <2>2, <2>5, <2>6 DEF Coherent
<1>6. \A i, j \in E \ {R} : Key0(i)' = Key0(j)' => i = j
  BY <1>3 DEF TreeInv
<1>7. \A i, j \in E : dentries'[i].mnt # NoSb /\ dentries'[i].mnt = dentries'[j].mnt => i = j
  BY <1>1, <1>2 DEF TreeInv
<1>8. ASSUME NEW d \in sbs, NEW n \in DOMAIN supers[d].nodes,
             NEW x \in DOMAIN supers[d].nodes[n].entries
      PROVE  \E i \in E \ {R} : /\ NodeKey(dentries', dentries'[i].parent) = <<d, n>>
                                /\ dentries'[i].name = supers[d].nodes[n].entries[x].name
  <2>1. PICK i \in E \ {R} : /\ NodeKey(dentries, dentries[i].parent) = <<d, n>>
                             /\ dentries[i].name = supers[d].nodes[n].entries[x].name
    BY DEF TreeInv
  <2>2. dentries[i].parent \in E /\ dentries'[i].parent = dentries[i].parent
    BY <1>1, <1>2 DEF TreeInv, Coherent
  <2> QED
    BY <1>1, <1>2, <1>3, <2>1, <2>2
<1>9. \A d \in sbs : NamesOnce(supers[d])'
  BY <1>4 DEF TreeInv, NamesOnce
<1> QED
  BY <1>2, <1>4, <1>5, <1>6, <1>7, <1>8, <1>9 DEF TreeInv

(* So are steps that do not touch the cache either.                        *)
LEMMA TreeSame ==
  ASSUME TypeInv, FsInv, PlacesInv, TreeInv, SameTrees, R' = R, dentries' = dentries
  PROVE  TreeInv'
<1>1. \A j \in Slot : Kept(j)
  BY DEF TypeInv, Kept, Dentry
<1> QED
  BY <1>1, TreeKeep

(* A directory that has a name once is looked up right.                    *)
LEMMA EntryFound ==
  ASSUME NEW ms, Typed(ms), NamesOnce(ms), NEW dir \in DOMAIN ms.nodes,
         NEW x \in DOMAIN ms.nodes[dir].entries
  PROVE  memfs_ino_lookup(ms, dir, ms.nodes[dir].entries[x].name)
           = ms.nodes[dir].entries[x].ino
<1>1. ms.nodes[dir].entries \in Seq(DirEntry)
  BY DEF Typed, Node
<1>2. PICK e \in Seq(DirEntry) : e = ms.nodes[dir].entries
  BY <1>1
<1>3. \A y \in DOMAIN e : e[y].name = e[x].name => y = x
  BY <1>2 DEF NamesOnce
<1>4. memfs_ino_lookup(ms, dir, e[x].name) = e[x].ino
  BY ZenonT(40), <1>2, <1>3, LookupOnce
<1> QED
  BY <1>2, <1>4

(* What the entries of a filesystem are when a node was made in it: those  *)
(* that were, where they were, and the new one.                            *)
LEMMA GrownEntries ==
  ASSUME NEW ms, Typed(ms), Tree(ms), NEW new, NEW dir \in DOMAIN ms.nodes, NEW name, NEW node,
         node.entries = << >>, HasGrown(new, ms, dir, name, node)
  PROVE  /\ \A n \in DOMAIN ms.nodes : \A x \in DOMAIN ms.nodes[n].entries :
              /\ n \in DOMAIN new.nodes /\ x \in DOMAIN new.nodes[n].entries
              /\ new.nodes[n].entries[x] = ms.nodes[n].entries[x]
         /\ \A n \in DOMAIN new.nodes : \A x \in DOMAIN new.nodes[n].entries :
              \/ /\ n \in DOMAIN ms.nodes /\ x \in DOMAIN ms.nodes[n].entries
                 /\ new.nodes[n].entries[x] = ms.nodes[n].entries[x]
              \/ /\ n = dir /\ x = Len(ms.nodes[dir].entries) + 1
                 /\ new.nodes[n].entries[x] = [name |-> name, ino |-> ms.last_ino]
         /\ dir \in DOMAIN new.nodes /\ Len(ms.nodes[dir].entries) \in Nat
         /\ Len(ms.nodes[dir].entries) + 1 \in DOMAIN new.nodes[dir].entries
         /\ new.nodes[dir].entries[Len(ms.nodes[dir].entries) + 1]
              = [name |-> name, ino |-> ms.last_ino]
<1> DEFINE ino == ms.last_ino
           e == [name |-> name, ino |-> ino]
           s == ms.nodes[dir].entries
<1>1. ms.nodes[dir] \in Node /\ s \in Seq(DirEntry) /\ ino \notin DOMAIN ms.nodes
  BY DEF Typed, Tree, Node
<1>2. new.nodes[dir] = [ms.nodes[dir] EXCEPT !.entries = Append(s, e)]
  BY DEF HasGrown
<1>3. new.nodes[dir].entries = Append(s, e)
  BY <1>1, <1>2 DEF Node
<1> HIDE DEF e
<1>4. /\ Len(s) \in Nat /\ DOMAIN s = 1 .. Len(s) /\ DOMAIN Append(s, e) = 1 .. Len(s) + 1
      /\ \A x \in 1 .. Len(s) : Append(s, e)[x] = s[x]
      /\ Append(s, e)[Len(s) + 1] = e
  BY <1>1
<1> HIDE DEF s
<1>5. /\ \A n \in DOMAIN ms.nodes \ {dir} : new.nodes[n] = ms.nodes[n]
      /\ DOMAIN new.nodes = DOMAIN ms.nodes \cup {ino}
      /\ DOMAIN new.nodes[ino].entries = {}
  BY DEF HasGrown
<1>6. ASSUME NEW n \in DOMAIN ms.nodes, NEW x \in DOMAIN ms.nodes[n].entries
      PROVE  /\ n \in DOMAIN new.nodes /\ x \in DOMAIN new.nodes[n].entries
             /\ new.nodes[n].entries[x] = ms.nodes[n].entries[x]
  <2>1. CASE n = dir
    BY <1>3, <1>4, <1>5, <2>1 DEF s
  <2>2. CASE n # dir
    BY <1>5, <2>2
  <2> QED
    BY <2>1, <2>2
<1>7. ASSUME NEW n \in DOMAIN new.nodes, NEW x \in DOMAIN new.nodes[n].entries
      PROVE  \/ /\ n \in DOMAIN ms.nodes /\ x \in DOMAIN ms.nodes[n].entries
                /\ new.nodes[n].entries[x] = ms.nodes[n].entries[x]
             \/ n = dir /\ x = Len(s) + 1 /\ new.nodes[n].entries[x] = e
  <2>1. CASE n = dir
    <3>1. x \in 1 .. Len(s) + 1
      BY <1>3, <1>4, <2>1
    <3> QED
      BY <1>3, <1>4, <2>1, <3>1 DEF s
  <2>2. CASE n # dir
    BY <1>5, <2>2
  <2> QED
    BY <2>1, <2>2
<1>8. /\ dir \in DOMAIN new.nodes /\ Len(s) \in Nat /\ Len(s) + 1 \in DOMAIN new.nodes[dir].entries
      /\ new.nodes[dir].entries[Len(s) + 1] = e
  BY <1>3, <1>4, <1>5
<1> QED
  BY <1>6, <1>7, <1>8 DEF s, e

(* A node is made, and its entry in the cache, in a place that was free.   *)
NodeMade(p, k, n, v, ino, node) ==
  /\ k = NodeKey(dentries, p) /\ Cached(dentries, p, n) = {} /\ ino = supers[k[1]].last_ino
  /\ dentries' = [dentries EXCEPT ![v] = NewEntry(n, p, k[1], ino)]
  /\ E' = E \cup {v} /\ node.entries = << >>
  /\ \A e \in Device \ {k[1]} : supers'[e] = supers[e]
  /\ HasGrown(supers'[k[1]], supers[k[1]], k[2], n, node)

(* The entries are still those of the directories, one for one.            *)
LEMMA TreeFill ==
  ASSUME TypeInv, FsInv, PlacesInv, TreeInv, FsInv', sbs' = sbs, R' = R, R # NULL,
         NEW p \in E, NEW k, NEW n \in Name, NEW v \in Slot \ E, NEW ino, NEW node,
         NodeMade(p, k, n, v, ino, node)
  PROVE  TreeInv'
<1>0. /\ k = NodeKey(dentries, p) /\ Cached(dentries, p, n) = {} /\ ino = supers[k[1]].last_ino
      /\ dentries' = [dentries EXCEPT ![v] = NewEntry(n, p, k[1], ino)]
      /\ E' = E \cup {v} /\ node.entries = << >>
      /\ \A e \in Device \ {k[1]} : supers'[e] = supers[e]
      /\ HasGrown(supers'[k[1]], supers[k[1]], k[2], n, node)
  BY DEF NodeMade
<1> USE <1>0
<1>1. NodeThere(k) /\ k = <<k[1], k[2]>> /\ E \subseteq Slot /\ R \in E /\ v # R /\ v # p
      /\ k[1] \in sbs /\ k[1] \in Device /\ sbs \subseteq Device
  BY KeyLemma DEF NodeKey, E, InUse, PlacesInv, NodeThere, FsInv
<1>2. PICK d : d = k[1]
  OBVIOUS
<1>3. PICK dir : dir = k[2]
  OBVIOUS
<1>4. PICK ms, new : ms = supers[d] /\ new = supers'[d]
  OBVIOUS
<1>5. PICK l : l = Len(ms.nodes[dir].entries) + 1
  OBVIOUS
<1>6. Typed(ms) /\ Tree(ms) /\ dir \in DOMAIN ms.nodes /\ HasGrown(new, ms, dir, n, node)
      /\ ino = ms.last_ino
  BY <1>1, <1>2, <1>3, <1>4 DEF FsInv, NodeThere
<1>7. Typed(new)
  BY <1>1, <1>2, <1>4 DEF FsInv, Typed
<1>8. /\ \A m \in DOMAIN ms.nodes : \A x \in DOMAIN ms.nodes[m].entries :
           /\ m \in DOMAIN new.nodes /\ x \in DOMAIN new.nodes[m].entries
           /\ new.nodes[m].entries[x] = ms.nodes[m].entries[x]
      /\ \A m \in DOMAIN new.nodes : \A x \in DOMAIN new.nodes[m].entries :
           \/ /\ m \in DOMAIN ms.nodes /\ x \in DOMAIN ms.nodes[m].entries
              /\ new.nodes[m].entries[x] = ms.nodes[m].entries[x]
           \/ m = dir /\ x = l /\ new.nodes[m].entries[x] = [name |-> n, ino |-> ino]
      /\ dir \in DOMAIN new.nodes /\ l \in DOMAIN new.nodes[dir].entries
      /\ new.nodes[dir].entries[l] = [name |-> n, ino |-> ino]
  BY <1>5, <1>6, GrownEntries
<1>9. new.nodes[dir].entries[l].name = n /\ new.nodes[dir].entries[l].ino = ino
  BY <1>8
<1>10. \A x \in DOMAIN ms.nodes[dir].entries : ms.nodes[dir].entries[x].name # n
  <2> SUFFICES ASSUME NEW x \in DOMAIN ms.nodes[dir].entries,
                      ms.nodes[dir].entries[x].name = n
               PROVE  FALSE
    OBVIOUS
  <2>1. NodeOf(k) = ms.nodes[dir]
    BY <1>2, <1>3, <1>4 DEF NodeOf
  <2> QED
    BY <2>1, CompleteLemma
<1>11. NamesOnce(new)
  <2>1. NamesOnce(ms)
    BY <1>1, <1>2, <1>4 DEF TreeInv
  <2> SUFFICES ASSUME NEW m \in DOMAIN new.nodes, NEW x \in DOMAIN new.nodes[m].entries,
                      NEW y \in DOMAIN new.nodes[m].entries,
                      new.nodes[m].entries[x].name = new.nodes[m].entries[y].name
               PROVE  x = y
    BY DEF NamesOnce
  <2>2. CASE /\ m \in DOMAIN ms.nodes /\ x \in DOMAIN ms.nodes[m].entries
             /\ new.nodes[m].entries[x] = ms.nodes[m].entries[x]
    BY <1>8, <1>9, <1>10, <2>1, <2>2 DEF NamesOnce
  <2>3. CASE m = dir /\ x = l
    BY <1>8, <1>9, <1>10, <2>3
  <2> QED
    BY <1>8, <2>2, <2>3
<1>12. \A i \in E : dentries'[i] = dentries[i] /\ NodeKey(dentries', i) = NodeKey(dentries, i)
                    /\ Key0(i)' = Key0(i)
  BY <1>1 DEF TypeInv, NodeKey, Key0
<1>13. /\ dentries'[v].name = n /\ dentries'[v].parent = p /\ dentries'[v].sb = d
       /\ dentries'[v].mnt = NoSb /\ dentries'[v].vno = ino
  BY <1>2 DEF TypeInv, NewEntry
<1>14. Coherent(v)'
  <2>1. memfs_ino_lookup(new, dir, n) = ino
    BY <1>7, <1>8, <1>9, <1>11, EntryFound
  <2>2. ino # 0
    BY <1>6 DEF Tree
  <2>3. NodeKey(dentries', p) = <<d, dir>>
    BY <1>1, <1>2, <1>3, <1>12
  <2> QED
    BY <1>4, <1>13, <2>1, <2>2, <2>3 DEF Coherent
<1>15. ASSUME NEW i \in E \ {R} PROVE Coherent(i)'
  <2>1. PICK q, h : q = dentries[i].parent /\ h = NodeKey(dentries, q)
    OBVIOUS
  <2>2. /\ q \in E /\ NodeThere(h) /\ dentries[i].sb = h[1]
        /\ \E x \in DOMAIN NodeOf(h).entries :
             NodeOf(h).entries[x].name = dentries[i].name
             /\ NodeOf(h).entries[x].ino = dentries[i].vno
    BY <2>1, EntryLemma
  <2>3. dentries[i].vno # 0 /\ dentries[i].vno = memfs_ino_lookup(supers[h[1]], h[2], dentries[i].name)
    BY <2>1 DEF TreeInv, Coherent
  <2>4. memfs_ino_lookup(supers'[h[1]], h[2], dentries[i].name) = dentries[i].vno
    <3>1. CASE h[1] # d
      BY <1>1, <1>2, <2>2, <2>3, <3>1 DEF NodeThere, Key
    <3>2. CASE h[1] = d
      <4>1. PICK x \in DOMAIN ms.nodes[h[2]].entries :
              ms.nodes[h[2]].entries[x].name = dentries[i].name
              /\ ms.nodes[h[2]].entries[x].ino = dentries[i].vno
        BY <1>4, <2>2, <3>2 DEF NodeOf
      <4>2. h[2] \in DOMAIN ms.nodes
        BY <1>4, <2>2, <3>2 DEF NodeThere
      <4>3. h[2] \in DOMAIN new.nodes /\ x \in DOMAIN new.nodes[h[2]].entries
            /\ new.nodes[h[2]].entries[x] = ms.nodes[h[2]].entries[x]
        BY <1>8, <4>1, <4>2
      <4>4. memfs_ino_lookup(new, h[2], new.nodes[h[2]].entries[x].name)
              = new.nodes[h[2]].entries[x].ino
        BY <1>7, <1>11, <4>3, EntryFound
      <4> QED
        BY <1>4, <3>2, <4>1, <4>3, <4>4
    <3> QED
      BY <3>1, <3>2
  <2>5. dentries'[i] = dentries[i] /\ NodeKey(dentries', q) = h
    BY <1>12, <2>1, <2>2
  <2> QED
    BY <2>1, <2>2, <2>3, <2>4, <2>5 DEF Coherent
<1>16. ASSUME NEW i \in E \ {R} PROVE Key0(i) # <<d, ino>>
  <2>1. dentries[i].vno \in DOMAIN supers[dentries[i].sb].nodes
    BY DEF PlacesInv
  <2>2. ino \notin DOMAIN ms.nodes
    BY <1>6 DEF Tree, Typed
  <2> QED
    BY <1>4, <2>1, <2>2 DEF Key0
<1>17. Key0(v)' = <<d, ino>>
  BY <1>13 DEF Key0
<1>18. \A i, j \in E' \ {R} : Key0(i)' = Key0(j)' => i = j
  BY <1>12, <1>16, <1>17 DEF TreeInv
<1>19. \A i, j \in E' : dentries'[i].mnt # NoSb /\ dentries'[i].mnt = dentries'[j].mnt => i = j
  BY <1>12, <1>13 DEF TreeInv
<1>20. ASSUME NEW e \in sbs', NEW m \in DOMAIN supers'[e].nodes,
              NEW x \in DOMAIN supers'[e].nodes[m].entries
       PROVE  \E i \in E' \ {R'} : /\ NodeKey(dentries', dentries'[i].parent) = <<e, m>>
                                   /\ dentries'[i].name = supers'[e].nodes[m].entries[x].name
  <2>1. CASE /\ m \in DOMAIN supers[e].nodes /\ x \in DOMAIN supers[e].nodes[m].entries
             /\ supers'[e].nodes[m].entries[x] = supers[e].nodes[m].entries[x]
    <3>1. PICK i \in E \ {R} : /\ NodeKey(dentries, dentries[i].parent) = <<e, m>>
                               /\ dentries[i].name = supers[e].nodes[m].entries[x].name
      BY <2>1 DEF TreeInv
    <3>2. dentries[i].parent \in E
      BY DEF TreeInv, Coherent
    <3> QED
      BY <1>12, <2>1, <3>1, <3>2
  <2>2. CASE e = d /\ m = dir /\ x = l
    <3>1. NodeKey(dentries', p) = <<d, dir>>
      BY <1>1, <1>2, <1>3, <1>12
    <3>2. supers'[e].nodes[m].entries[x].name = n
      BY <1>4, <1>9, <2>2
    <3> QED
      BY <1>1, <1>13, <2>2, <3>1, <3>2
  <2>3. CASE e # d
    BY <1>1, <1>2, <2>1, <2>3
  <2>4. CASE e = d
    <3>1. m \in DOMAIN new.nodes /\ x \in DOMAIN new.nodes[m].entries
      BY <1>4, <2>4
    <3>2. \/ /\ m \in DOMAIN ms.nodes /\ x \in DOMAIN ms.nodes[m].entries
             /\ new.nodes[m].entries[x] = ms.nodes[m].entries[x]
          \/ m = dir /\ x = l
      BY <1>8, <3>1
    <3> QED
      BY <1>4, <2>1, <2>2, <2>4, <3>2
  <2> QED
    BY <2>3, <2>4
<1>21. ASSUME NEW e \in sbs PROVE NamesOnce(supers[e])'
  <2>1. CASE e = d
    BY <1>4, <1>11, <2>1 DEF NamesOnce
  <2>2. CASE e # d
    <3>1. supers'[e] = supers[e]
      BY <1>1, <1>2, <2>2
    <3> QED
      BY <3>1 DEF TreeInv, NamesOnce
  <2> QED
    BY <2>1, <2>2
<1>22. \A i \in E' \ {R} : Coherent(i)'
  BY <1>14, <1>15
<1>23. \A e \in sbs' : \A m \in DOMAIN supers'[e].nodes :
         \A x \in DOMAIN supers'[e].nodes[m].entries :
           \E i \in E' \ {R'} : /\ NodeKey(dentries', dentries'[i].parent) = <<e, m>>
                                /\ dentries'[i].name = supers'[e].nodes[m].entries[x].name
  BY <1>20
<1>24. \A i \in E' \ {R'} : Coherent(i)'
  BY <1>22
<1>25. \A i, j \in E' \ {R'} : Key0(i)' = Key0(j)' => i = j
  BY <1>18
<1> QED
  BY <1>19, <1>21, <1>23, <1>24, <1>25 DEF TreeInv

(* A filesystem is mounted on an entry under which nothing is cached.      *)
LEMMA TreeMount ==
  ASSUME TypeInv, FsInv, PlacesInv, TreeInv, NEW i \in E, i # R, R' = R, E' = E,
         Children(i) = {}, NEW d \in Device \ sbs, sbs' = sbs \cup {d},
         \A j \in Slot \ {i} : dentries'[j] = dentries[j],
         dentries'[i] = [dentries[i] EXCEPT !.mnt = d],
         \A e \in Device \ {d} : supers'[e] = supers[e],
         DOMAIN supers'[d].nodes = {MEMFS_ROOT_INO},
         supers'[d].nodes[MEMFS_ROOT_INO] = RootNode
  PROVE  TreeInv'
<1>1. i \in Slot /\ dentries[i] \in Dentry /\ E \subseteq Slot /\ sbs \subseteq Device /\ d \notin sbs
  BY DEF TypeInv, E, InUse, FsInv
<1>2. /\ dentries'[i].name = dentries[i].name /\ dentries'[i].vno = dentries[i].vno
      /\ dentries'[i].parent = dentries[i].parent /\ dentries'[i].sb = dentries[i].sb
      /\ dentries'[i].mnt = d
  BY <1>1 DEF Dentry
<1>3. \A j \in E : /\ dentries'[j].name = dentries[j].name /\ dentries'[j].vno = dentries[j].vno
                   /\ dentries'[j].parent = dentries[j].parent /\ dentries'[j].sb = dentries[j].sb
                   /\ Key0(j)' = Key0(j)
  BY <1>1, <1>2 DEF Key0
<1>4. \A j \in E : dentries[j].parent # i
  BY DEF Children, E
<1>5. \A j \in E \ {R} : /\ dentries[j].parent \in E
        /\ NodeKey(dentries', dentries'[j].parent) = NodeKey(dentries, dentries[j].parent)
        /\ NodeThere(NodeKey(dentries, dentries[j].parent))
  <2> SUFFICES ASSUME NEW j \in E \ {R}
               PROVE  /\ dentries[j].parent \in E
                      /\ NodeKey(dentries', dentries'[j].parent) = NodeKey(dentries, dentries[j].parent)
                      /\ NodeThere(NodeKey(dentries, dentries[j].parent))
    OBVIOUS
  <2>1. PICK p : p = dentries[j].parent
    OBVIOUS
  <2>2. p \in E /\ p # i
    BY <1>4, <2>1 DEF TreeInv, Coherent
  <2>3. dentries'[p] = dentries[p] /\ NodeThere(NodeKey(dentries, p))
    BY <1>1, <2>2, KeyLemma
  <2> QED
    BY <1>3, <2>1, <2>2, <2>3 DEF NodeKey
<1>6. ASSUME NEW j \in E \ {R} PROVE Coherent(j)'
  <2>1. PICK p, k : p = dentries[j].parent /\ k = NodeKey(dentries, p)
    OBVIOUS
  <2>2. k[1] \in Device /\ k[1] # d
    BY <1>1, <1>5, <2>1 DEF NodeThere
  <2>3. supers'[k[1]] = supers[k[1]]
    BY <2>2
  <2>4. p \in E /\ dentries[j].sb = k[1] /\ dentries[j].vno # 0
        /\ dentries[j].vno = memfs_ino_lookup(supers[k[1]], k[2], dentries[j].name)
    BY <2>1 DEF TreeInv, Coherent
  <2>5. NodeKey(dentries', dentries'[j].parent) = k /\ dentries'[j].parent = p
    BY <1>3, <1>5, <2>1
  <2> QED
    BY <1>3, <2>3, <2>4, <2>5 DEF Coherent
<1>7. \A j, l \in E' \ {R'} : Key0(j)' = Key0(l)' => j = l
  BY <1>3 DEF TreeInv
<1>8. \A j \in E : dentries[j].mnt # d /\ dentries[j].mnt \in sbs \cup {NoSb}
  BY <1>1, VfsAssumption DEF PlacesInv
<1>9. \A j, l \in E' : dentries'[j].mnt # NoSb /\ dentries'[j].mnt = dentries'[l].mnt => j = l
  <2> SUFFICES ASSUME NEW j \in E, NEW l \in E, dentries'[j].mnt # NoSb,
                      dentries'[j].mnt = dentries'[l].mnt
               PROVE  j = l
    OBVIOUS
  <2>1. \A m \in E \ {i} : dentries'[m].mnt = dentries[m].mnt
    BY <1>1
  <2>2. CASE j = i \/ l = i
    BY <1>2, <1>8, <2>1, <2>2
  <2>3. CASE j # i /\ l # i
    BY <2>1, <2>3 DEF TreeInv
  <2> QED
    BY <2>2, <2>3
<1>10. DOMAIN RootNode.entries = {}
  BY DEF RootNode, NewNode, list_init
<1>11. ASSUME NEW e \in sbs', NEW n \in DOMAIN supers'[e].nodes,
              NEW x \in DOMAIN supers'[e].nodes[n].entries
       PROVE  \E j \in E' \ {R'} : /\ NodeKey(dentries', dentries'[j].parent) = <<e, n>>
                                   /\ dentries'[j].name = supers'[e].nodes[n].entries[x].name
  <2>1. e # d
    BY <1>10
  <2>2. e \in sbs /\ supers'[e] = supers[e]
    BY <1>1, <2>1
  <2>3. PICK j \in E \ {R} : /\ NodeKey(dentries, dentries[j].parent) = <<e, n>>
                             /\ dentries[j].name = supers[e].nodes[n].entries[x].name
    BY <2>2 DEF TreeInv
  <2> QED
    BY <1>3, <1>5, <2>2, <2>3
<1>12. ASSUME NEW e \in sbs' PROVE NamesOnce(supers[e])'
  <2>1. CASE e = d
    BY <1>10, <2>1 DEF NamesOnce
  <2>2. CASE e # d
    <3>1. e \in sbs /\ supers'[e] = supers[e]
      BY <1>1, <2>2
    <3> QED
      BY <3>1 DEF TreeInv, NamesOnce
  <2> QED
    BY <2>1, <2>2
<1>13. \A j \in E' \ {R'} : Coherent(j)'
  BY <1>6
<1> QED
  BY <1>7, <1>9, <1>11, <1>12, <1>13 DEF TreeInv

(* The root is mounted.                                                    *)
LEMMA TreeRoot ==
  ASSUME FsInv, TreeInv, E = {}, NEW v \in Slot, R' = v, E' = {v},
         NEW d \in Device \ sbs, sbs' = sbs \cup {d},
         \A e \in Device \ {d} : supers'[e] = supers[e],
         DOMAIN supers'[d].nodes = {MEMFS_ROOT_INO},
         supers'[d].nodes[MEMFS_ROOT_INO] = RootNode
  PROVE  TreeInv'
<1>1. DOMAIN RootNode.entries = {}
  BY DEF RootNode, NewNode, list_init
<1>2. ASSUME NEW e \in sbs', NEW n \in DOMAIN supers'[e].nodes
      PROVE  DOMAIN supers'[e].nodes[n].entries = {}
  <2>1. CASE e = d
    BY <1>1, <2>1
  <2>2. CASE e # d
    <3>1. e \in sbs /\ supers'[e] = supers[e]
      BY <2>2 DEF FsInv
    <3> QED
      BY <3>1 DEF TreeInv
  <2> QED
    BY <2>1, <2>2
<1>3. \A e \in sbs' : NamesOnce(supers[e])'
  BY <1>2 DEF NamesOnce
<1>4. E' \ {R'} = {}
  OBVIOUS
<1> QED
  BY <1>2, <1>3, <1>4 DEF TreeInv

-----------------------------------------------------------------------------
(* A step without accident comes after none.                               *)
LEMMA CalmLemma ==
  ASSUME accidents \subseteq accidents', Calm'
  PROVE  Calm
BY DEF Calm

(* A type that is registered keeps its filesystem.                         *)
LEMMA RegisteredKeep ==
  ASSUME RegisteredInv, FsInv, FsInv', Grows, fs_types' = fs_types,
         \A d \in Device \ sbs' : supers'[d] = supers[d]
  PROVE  RegisteredInv'
<1> SUFFICES ASSUME NEW f \in Filesystems, f[1] \in fs_types PROVE supers'[f[2]] # NoSuper
  BY DEF RegisteredInv
<1>1. PICK d \in Device : d = f[2]
  BY CallsAssumption
<1>2. supers[d] # NoSuper
  BY <1>1 DEF RegisteredInv
<1>3. CASE d \in sbs'
  <2>1. supers'[d].last_ino \in Nat
    BY <1>3 DEF FsInv, Typed
  <2> QED
    BY <1>1, <2>1 DEF NoSuper
<1>4. CASE d \notin sbs'
  BY <1>1, <1>2, <1>4
<1> QED
  BY <1>3, <1>4

(* The steps that leave the entries and the directories as they are.       *)
LEMMA SettledKeep ==
  ASSUME IInv, ~wild, wild' = wild, accidents \subseteq accidents', FsInv', Grows, SameTrees,
         R' = R, fs_types' = fs_types, \A d \in Device \ sbs : supers'[d] = supers[d],
         Calm' => \A j \in Slot : Kept(j)
  PROVE  Settled'
<1> SUFFICES ASSUME Calm' PROVE ~wild' /\ TreeInv' /\ RegisteredInv'
  BY DEF Settled
<1>1. Calm
  BY CalmLemma
<1>2. TypeInv /\ FsInv /\ PlacesInv /\ TreeInv /\ RegisteredInv
  BY <1>1 DEF IInv, Core, Settled, CacheInv
<1>3. TreeInv'
  BY <1>2, TreeKeep
<1>4. RegisteredInv'
  BY <1>2, RegisteredKeep DEF SameTrees
<1> QED
  BY <1>3, <1>4

(* The steps that change nothing of them at all.                           *)
LEMMA SettledSame ==
  ASSUME IInv, ~wild, wild' = wild, accidents \subseteq accidents',
         UNCHANGED <<cache, supers, sbs, fs_types>>
  PROVE  Settled'
<1>1. TypeInv /\ FsInv
  BY DEF IInv, Core
<1>2. FsInv' /\ Grows /\ SameTrees
  BY <1>1, KeepFs
<1>3. \A j \in Slot : Kept(j)
  BY <1>1 DEF TypeInv, Kept, Dentry, cache
<1>4. R' = R
  BY DEF R, cache
<1> QED
  BY <1>2, <1>3, <1>4, SettledKeep

(* In calm a place that a failing step takes was free already.             *)
LEMMA CalmDrop ==
  ASSUME TypeInv, PlacesInv, Calm', NEW v \in Slot, Drop(v)
  PROVE  \A j \in Slot : Kept(j)
<1>1. v \notin E
  <2> SUFFICES ASSUME v \in E PROVE FALSE
    OBVIOUS
  <2>1. accidents' = accidents \cup {"evicted"}
    BY DEF Drop, Record
  <2> QED
    BY <2>1 DEF Calm
<1>2. dentries[v] = Empty
  BY <1>1 DEF PlacesInv, E, InUse
<1>3. dentries' = dentries
  BY <1>2 DEF Drop, TypeInv
<1> QED
  BY <1>3 DEF TypeInv, Kept, Dentry

(* In calm a walk only finds: every entry of a directory is in the cache.  *)
LEMMA SettledWalk ==
  ASSUME IInv, NEW room \in Room, Walk(room)
  PROVE  Settled'
<1>1. ~wild /\ call # NoCall
  BY DEF Walk
<1>2. TypeInv /\ FsInv /\ CacheInv /\ CallInv /\ PlacesInv
  BY <1>1 DEF IInv, Core, CacheInv
<1> DEFINE n == Head(call.todo)
           k == NodeKey(dentries, call.at)
<1>3. WalkSteps(n) /\ UNCHANGED <<vfs_root_dentry, mounts, vnodes, open>>
  BY <1>2, WalkLemma
<1>4. UNCHANGED <<supers, sbs, fs_types>> /\ R' = R /\ call.at \in E
  BY <1>1, <1>2, <1>3 DEF mounts, R, CacheInv
<1>5. FsInv' /\ Grows /\ SameTrees /\ \A d \in Device \ sbs : supers'[d] = supers[d]
  BY <1>2, <1>4, KeepFs
<1> HIDE DEF n
<1>6. ASSUME wild' = wild, accidents \subseteq accidents', Calm' => \A j \in Slot : Kept(j)
      PROVE  Settled'
  BY <1>1, <1>4, <1>5, <1>6, SettledKeep
<1>7. CASE Derail
  BY <1>7 DEF Derail, Settled, Calm
<1>8. CASE wild' = wild /\ Same
  BY <1>2, <1>6, <1>8 DEF Same, TypeInv, Kept, Dentry
<1>9. ASSUME wild' = wild, NEW v \in Slot, Drop(v)
      PROVE  Settled'
  <2>1. accidents \subseteq accidents'
    BY <1>9 DEF Drop, Record
  <2> QED
    BY <1>2, <1>6, <1>9, <2>1, CalmDrop
<1>10. ASSUME wild' = wild, NEW i \in Cached(dentries, call.at, n), Touch(i)
       PROVE  Settled'
  <2>1. i \in E
    BY DEF Cached, E
  <2>2. accidents \subseteq accidents'
    BY <1>10 DEF Touch
  <2> QED
    BY <1>2, <1>6, <1>10, <2>1, <2>2, TouchStep
<1>11. ASSUME NEW v \in Slot, Fill(v, n, Lookup(k, n)), Lookup(k, n) # 0
       PROVE  Settled'
  <2>1. accidents \subseteq accidents' /\ Cached(dentries, call.at, n) = {}
    BY <1>11 DEF Fill, Record
  <2>2. ASSUME Calm' PROVE FALSE
    <3>1. TreeInv
      BY <2>1, <2>2, CalmLemma DEF IInv, Settled
    <3>2. Lookup(k, n) = 0
      BY <1>2, <1>4, <2>1, <3>1, NoEntryLemma
    <3> QED
      BY <1>11, <3>2
  <2> QED
    BY <2>2 DEF Settled
<1> QED
  BY <1>3, <1>7, <1>8, <1>9, <1>10, <1>11 DEF WalkSteps

(* In calm a creation makes a node and its entry together.                 *)
LEMMA SettledCreate ==
  ASSUME IInv, NEW room \in Room, CreateNode(room)
  PROVE  Settled'
<1>1. ~wild /\ call # NoCall
  BY DEF CreateNode
<1>2. TypeInv /\ FsInv /\ CacheInv /\ CallInv /\ PlacesInv
  BY <1>1 DEF IInv, Core, CacheInv
<1>0. PICK n, k : n = Last(call.path) /\ k = NodeKey(dentries, call.at)
  OBVIOUS
<1>3. /\ call.phase = "create" /\ n \in Name /\ CreateSteps(n, k)
      /\ UNCHANGED <<vfs_root_dentry, fs_types, sbs, vnodes, open>>
  BY <1>0, <1>2, CreateLemma
<1>4. /\ UNCHANGED <<sbs, fs_types>> /\ R' = R /\ R # NULL
      /\ call.at \in E /\ call.at \in Slot
  BY <1>1, <1>2, <1>3 DEF R, CacheInv, CallInv, E, InUse
<1>5. NodeThere(k) /\ k[1] \in sbs
  BY <1>0, <1>2, <1>4, KeyLemma DEF NodeThere
<1>6. ASSUME wild' = wild, accidents \subseteq accidents', FsInv', Grows, SameTrees,
             \A d \in Device \ sbs : supers'[d] = supers[d], Calm' => \A j \in Slot : Kept(j)
      PROVE  Settled'
  BY <1>1, <1>4, <1>6, SettledKeep
<1>7. ASSUME supers' = supers
      PROVE  FsInv' /\ Grows /\ SameTrees /\ \A d \in Device \ sbs : supers'[d] = supers[d]
  BY <1>2, <1>4, <1>7, KeepFs
<1>8. CASE Derail
  BY <1>8 DEF Derail, Settled, Calm
<1>9. CASE wild' = wild /\ supers' = supers /\ Same
  BY <1>2, <1>6, <1>7, <1>9 DEF Same, TypeInv, Kept, Dentry
<1>10. ASSUME wild' = wild, NEW v \in Slot, Drop(v),
              \/ supers' = supers
              \/ supers' = [supers EXCEPT ![k[1]] = Numbered(@)]
       PROVE  Settled'
  <2>1. accidents \subseteq accidents'
    BY <1>10 DEF Drop, Record
  <2>2. Calm' => \A j \in Slot : Kept(j)
    BY <1>2, <1>10, CalmDrop
  <2>3. CASE supers' = supers
    BY <1>6, <1>7, <1>10, <2>1, <2>2, <2>3
  <2>4. CASE supers' = [supers EXCEPT ![k[1]] = Numbered(@)]
    <3>1. PICK d \in sbs : d = k[1]
      BY <1>5
    <3>2. FsInv' /\ Grows /\ SameTrees
      BY <1>2, <1>4, <2>4, <3>1, NumberFs
    <3>3. \A e \in Device \ sbs : supers'[e] = supers[e]
      BY <1>2, <2>4, <3>1 DEF FsInv
    <3> QED
      BY <1>6, <1>10, <2>1, <2>2, <3>2, <3>3
  <2> QED
    BY <1>10, <2>3, <2>4
<1>11. ASSUME wild' = wild, supers' = supers, NEW i \in E, Touch(i)
       PROVE  Settled'
  <2>1. accidents \subseteq accidents'
    BY <1>11 DEF Touch
  <2> QED
    BY <1>2, <1>6, <1>7, <1>11, <2>1, TouchStep
<1>12. ASSUME wild' = wild, NodeOf(k).type = Dir, NEW v \in Slot, NEW ino,
              ino = supers[k[1]].last_ino, Fill(v, n, ino),
              supers' = [supers EXCEPT ![k[1]] =
                           Grown(@, k[2], n, NewNode(call.type, call.perm, call.dev))]
       PROVE  Settled'
  <2>1. Cached(dentries, call.at, n) = {} /\ Record(v)
        /\ dentries' = [dentries EXCEPT ![v] = NewEntry(n, call.at, k[1], ino)]
    BY <1>0, <1>12 DEF Fill
  <2> SUFFICES ASSUME Calm' PROVE ~wild' /\ TreeInv' /\ RegisteredInv'
    BY DEF Settled
  <2>2. v \notin E
    <3> SUFFICES ASSUME v \in E PROVE FALSE
      OBVIOUS
    <3>1. accidents' = accidents \cup {"evicted"}
      BY <2>1 DEF Record
    <3> QED
      BY <3>1 DEF Calm
  <2>3. TreeInv /\ RegisteredInv
    <3>1. accidents \subseteq accidents'
      BY <2>1 DEF Record
    <3> QED
      BY <3>1, CalmLemma DEF IInv, Settled
  <2>4. call \in Pending
    BY <1>1, <1>2 DEF CallInv
  <2>5. call.type \in Types /\ call.perm \in SUBSET {"r", "w"} /\ call.dev \in Device \cup {NoDev}
    BY <2>4 DEF Pending
  <2>6. PICK node \in Node : /\ node = NewNode(call.type, call.perm, call.dev)
                             /\ node.entries = << >>
    BY <2>5, NewNodeLemma
  <2>7. supers[k[1]].last_ino <= MaxIno
    BY <1>1, <1>2, <1>3, <1>5 DEF CallInv, NodeThere, Key
  <2>8. supers' = [supers EXCEPT ![k[1]] = Grown(@, k[2], n, node)]
    BY <1>12, <2>6
  <2>9. /\ FsInv' /\ Grows /\ \A e \in Device \ {k[1]} : supers'[e] = supers[e]
        /\ HasGrown(supers'[k[1]], supers[k[1]], k[2], n, node)
    BY ZenonT(40), <1>2, <1>3, <1>4, <1>5, <1>12, <2>6, <2>7, <2>8, GrowFs
  <2>10. E' = E \cup {v}
    <3>1. ino \in DOMAIN supers'[k[1]].nodes /\ k[1] \in sbs'
      BY <1>4, <1>5, <1>12, <2>9 DEF HasGrown
    <3> QED
      BY <1>0, <1>2, <1>3, <1>4, <1>12, <2>9, <3>1, FillStep
  <2>11. PICK p \in E : p = call.at
    BY <1>4
  <2>12. v \in Slot \ E /\ k = NodeKey(dentries, p) /\ Cached(dentries, p, n) = {}
         /\ dentries' = [dentries EXCEPT ![v] = NewEntry(n, p, k[1], ino)]
    BY <1>0, <2>1, <2>2, <2>11
  <2>13. NodeMade(p, k, n, v, ino, node)
    BY <1>12, <2>6, <2>9, <2>10, <2>12 DEF NodeMade
  <2>14. TreeInv'
    BY <1>2, <1>3, <1>4, <2>3, <2>9, <2>12, <2>13, TreeFill
  <2>15. RegisteredInv'
    <3>1. \A d \in Device \ sbs' : supers'[d] = supers[d]
      BY <1>4, <1>5, <2>9
    <3> QED
      BY <1>2, <1>4, <2>3, <2>9, <3>1, RegisteredKeep
  <2> QED
    BY <1>1, <1>12, <2>14, <2>15
<1> QED
  BY <1>3, <1>8, <1>9, <1>10, <1>11, <1>12 DEF CreateSteps

(* A mount in calm covers a directory without entries.                     *)
LEMMA SettledMount ==
  ASSUME IInv, NEW room \in Room, Mount(room)
  PROVE  Settled'
<1>1. /\ ~wild /\ call # NoCall /\ call.op = "mount" /\ fs_types' = fs_types
  BY DEF Mount, Found
<1>2. TypeInv /\ FsInv /\ CacheInv /\ CallInv /\ PlacesInv
  BY <1>1 DEF IInv, Core, CacheInv
<1>3. PICK i \in E : i = call.at
  BY <1>1, <1>2 DEF CacheInv
<1>4. call.dev \in Device /\ <<call.fs, call.dev>> \in Filesystems /\ R # NULL
      /\ i \in Slot
  BY <1>1, <1>2, CallsAssumption DEF CallInv, E, InUse
<1>5. \/ UNCHANGED <<cache, supers, sbs, wild>> /\ accidents \subseteq accidents'
      \/ dentries[i].mnt = NoSb /\ \E left : MountOn(call, dentries, i, left)
  BY <1>3 DEF Mount
<1>6. CASE UNCHANGED <<cache, supers, sbs, wild>> /\ accidents \subseteq accidents'
  BY <1>1, <1>6, SettledSame
<1>7. CASE dentries[i].mnt = NoSb /\ \E left : MountOn(call, dentries, i, left)
  <2>1. i # R /\ dentries[i].parent # NULL
    BY <1>2, <1>4, <1>7 DEF PlacesInv
  <2>2. MountSteps(call, i) /\ R' = R
    BY <1>7, <2>1, MountOnLemma
  <2> SUFFICES ASSUME Calm' PROVE ~wild' /\ TreeInv' /\ RegisteredInv'
    BY DEF Settled
  <2>3. accidents \subseteq accidents'
    BY <2>2 DEF MountSteps
  <2>4. TreeInv /\ RegisteredInv
    BY <2>3, CalmLemma DEF IInv, Settled
  <2>5. call.fs \in fs_types => supers[call.dev] # NoSuper
    <3>1. PICK f \in Filesystems : f = <<call.fs, call.dev>>
      BY <1>4
    <3>2. f[1] = call.fs /\ f[2] = call.dev
      BY <3>1
    <3> QED
      BY <2>4, <3>2 DEF RegisteredInv
  <2>6. "dropped" \notin accidents' /\ "killed" \notin accidents' /\ "covered" \notin accidents'
    BY DEF Calm
  <2>7. /\ dentries' = [dentries EXCEPT ![i].mnt = call.dev] /\ wild' = wild
        /\ call.dev \notin sbs /\ supers[call.dev] # NoSuper /\ sbs' = sbs \cup {call.dev}
        /\ supers' = [supers EXCEPT ![call.dev] = memfs_sb_mount(@)]
        /\ Children(i) = {}
    BY <2>2, <2>5, <2>6 DEF MountSteps
  <2>8. PICK d \in Device \ sbs : d = call.dev
    BY <1>4, <2>7
  <2>9. /\ FsInv' /\ Grows /\ \A e \in Device \ {d} : supers'[e] = supers[e]
        /\ DOMAIN supers'[d].nodes = {MEMFS_ROOT_INO}
        /\ supers'[d].nodes[MEMFS_ROOT_INO] = RootNode
    BY <1>2, <2>7, <2>8, MountFs
  <2>10. /\ E' = E /\ \A j \in Slot \ {i} : dentries'[j] = dentries[j]
         /\ dentries'[i] = [dentries[i] EXCEPT !.mnt = d]
    <3>1. d \in sbs' /\ dentries' = [dentries EXCEPT ![i].mnt = d]
      BY <2>7, <2>8
    <3> QED
      BY <1>2, <1>7, <2>1, <2>2, <2>9, <3>1, MountedStep
  <2>11. sbs' = sbs \cup {d}
    BY <2>7, <2>8
  <2>12. TreeInv'
    BY <1>2, <2>1, <2>2, <2>4, <2>7, <2>9, <2>10, <2>11, TreeMount
  <2>13. RegisteredInv'
    BY <1>1, <1>2, <2>4, <2>9, <2>11, RegisteredKeep
  <2> QED
    BY <1>1, <2>7, <2>12, <2>13
<1> QED
  BY <1>5, <1>6, <1>7

(* The mount of the root starts the tree.                                  *)
LEMMA SettledMountRoot ==
  ASSUME IInv, NEW c \in Calls, NEW room \in Room, MountRoot(c, room)
  PROVE  Settled'
<1>1. /\ ~wild /\ R = NULL /\ c.op = "mount" /\ fs_types' = fs_types
  BY DEF MountRoot, Idle, R
<1>2. Core /\ TypeInv /\ FsInv /\ PlacesInv /\ E = {}
  BY <1>1 DEF IInv, Core, CacheInv
<1>3. <<c.fs, c.dev>> \in Filesystems /\ c.dev \in Device
  BY <1>1, CallsAssumption
<1>4. PICK v \in Slot : RootSteps(c, v)
  BY <1>2, MountRootLemma
<1> SUFFICES ASSUME Calm' PROVE ~wild' /\ TreeInv' /\ RegisteredInv'
  BY DEF Settled
<1>5. accidents \subseteq accidents'
  BY <1>4 DEF RootSteps
<1>6. TreeInv /\ RegisteredInv
  BY <1>5, CalmLemma DEF IInv, Settled
<1>7. c.fs \in fs_types => supers[c.dev] # NoSuper
  <2>1. PICK f \in Filesystems : f = <<c.fs, c.dev>>
    BY <1>3
  <2>2. f[1] = c.fs /\ f[2] = c.dev
    BY <2>1
  <2> QED
    BY <1>6, <2>2 DEF RegisteredInv
<1>8. "killed" \notin accidents'
  BY DEF Calm
<1>9. CASE dentries' = dentries /\ wild' = wild /\ R' = R /\ UNCHANGED <<supers, sbs, accidents>>
  <2>1. FsInv' /\ Grows /\ SameTrees
    BY <1>2, <1>9, KeepFs
  <2>2. TreeInv'
    BY <1>2, <1>6, <1>9, <2>1, TreeSame
  <2>3. RegisteredInv'
    BY <1>1, <1>2, <1>6, <1>9, <2>1, RegisteredKeep
  <2> QED
    BY <1>1, <1>9, <2>2, <2>3
<1>10. CASE /\ dentries' = [dentries EXCEPT ![v] = [RootEntry EXCEPT !.mnt = c.dev]]
            /\ wild' = wild /\ R' = v /\ c.dev \notin sbs /\ supers[c.dev] # NoSuper
            /\ sbs' = sbs \cup {c.dev} /\ supers' = [supers EXCEPT ![c.dev] = memfs_sb_mount(@)]
  <2>1. PICK d \in Device \ sbs : d = c.dev
    BY <1>3, <1>10
  <2>2. /\ FsInv' /\ Grows /\ \A e \in Device \ {d} : supers'[e] = supers[e]
        /\ DOMAIN supers'[d].nodes = {MEMFS_ROOT_INO}
        /\ supers'[d].nodes[MEMFS_ROOT_INO] = RootNode
    BY <1>2, <1>10, <2>1, MountFs
  <2>3. sbs' = sbs \cup {d} /\ d \in sbs'
    BY <1>10, <2>1
  <2>4. E' = {v}
    BY <1>2, <1>10, <2>1, <2>2, <2>3, RootStep
  <2>5. TreeInv'
    BY <1>2, <1>6, <1>10, <2>2, <2>3, <2>4, TreeRoot
  <2>6. RegisteredInv'
    BY <1>1, <1>2, <1>6, <2>2, <2>3, RegisteredKeep
  <2> QED
    BY <1>1, <1>10, <2>5, <2>6
<1> QED
  BY <1>4, <1>7, <1>8, <1>9, <1>10 DEF RootSteps

(* A type is registered after its filesystem is made.                      *)
LEMMA SettledRegisterType ==
  ASSUME IInv, NEW f \in Filesystems, NEW room \in Room, memfs_create(f[1], f[2], room)
  PROVE  Settled'
<1>1. PICK name, dev : name = f[1] /\ dev = f[2]
  OBVIOUS
<1>2. /\ ~wild /\ supers[dev] = NoSuper /\ memfs_create(name, dev, room)
      /\ UNCHANGED <<cache, sbs>>
  BY <1>1 DEF memfs_create, Idle
<1>3. dentries' = dentries /\ R' = R /\ sbs' = sbs
  BY <1>2 DEF cache, R
<1>4. TypeInv /\ FsInv /\ PlacesInv
  BY <1>2 DEF IInv, Core, CacheInv
<1>5. dev \in Device /\ dev \notin sbs
  <2>1. dev \in Device
    BY <1>1, CallsAssumption
  <2>2. ~Typed(NoSuper)
    BY DEF NoSuper, Typed
  <2> QED
    BY <1>2, <1>4, <2>1, <2>2 DEF FsInv
<1> SUFFICES ASSUME Calm' PROVE ~wild' /\ TreeInv' /\ RegisteredInv'
  BY DEF Settled
<1>6. /\ supers' = [supers EXCEPT ![dev] = memfs_init_super]
      /\ fs_types' = fs_types \cup {name} /\ wild' = wild /\ accidents' = accidents
  <2>1. "freed" \notin accidents'
    BY DEF Calm
  <2> QED
    BY <1>2, <2>1 DEF memfs_create, flaws
<1>7. TreeInv /\ RegisteredInv
  BY <1>6, CalmLemma DEF IInv, Settled
<1>8. SameTrees
  BY <1>3, <1>4, <1>5, <1>6, OutsideFs
<1>9. TreeInv'
  BY <1>3, <1>4, <1>7, <1>8, TreeSame
<1>10. RegisteredInv'
  <2> SUFFICES ASSUME NEW h \in Filesystems, h[1] \in fs_types \cup {name}
               PROVE  supers'[h[2]] # NoSuper
    BY <1>6 DEF RegisteredInv
  <2>1. memfs_init_super # NoSuper
    <3>1. memfs_init_super.last_ino = 0 /\ NoSuper.last_ino = -1
      BY DEF memfs_init_super, NoSuper
    <3> QED
      BY <3>1
  <2>2. supers'[dev] = memfs_init_super /\ \A e \in Device \ {dev} : supers'[e] = supers[e]
    BY <1>4, <1>5, <1>6 DEF FsInv
  <2>3. h[2] \in Device
    BY CallsAssumption
  <2>4. CASE h[2] = dev
    BY <2>1, <2>2, <2>4
  <2>5. CASE h[2] # dev
    <3>1. h[1] # name
      BY <1>1, <2>5, CallsAssumption
    <3> QED
      BY <1>7, <2>2, <2>3, <2>5, <3>1 DEF RegisteredInv
  <2> QED
    BY <2>4, <2>5
<1> QED
  BY <1>2, <1>6, <1>9, <1>10

-----------------------------------------------------------------------------
(* The whole invariant.                                                    *)
THEOREM InitInv == Init => IInv
<1> SUFFICES ASSUME Init PROVE IInv
  OBVIOUS
<1>1. /\ dentries = [i \in Slot |-> Empty] /\ R = NULL /\ fs_types = {} /\ sbs = {} /\ wild = FALSE
  BY DEF Init, R
<1>2. E = {}
  BY <1>1 DEF E, InUse, Empty
<1>3. TreeInv /\ RegisteredInv
  BY <1>1, <1>2 DEF TreeInv, RegisteredInv
<1> QED
  BY <1>1, <1>3, InitCore DEF IInv, Settled

(* It is inductive: no step of any call takes it away.                     *)
THEOREM NextInv == IInv /\ [Next]_vars => IInv'
<1> SUFFICES ASSUME IInv, [Next]_vars PROVE IInv'
  OBVIOUS
<1>1. Core'
  BY NextCore DEF IInv
<1>2. ASSUME Next PROVE Settled'
  <2>1. CASE \E f \in Filesystems, room \in Room : memfs_create(f[1], f[2], room)
    BY <2>1, SettledRegisterType
  <2>2. CASE \E c \in Calls, room \in Room : MountRoot(c, room)
    BY <2>2, SettledMountRoot
  <2>3. CASE \E room \in Room : Walk(room)
    BY <2>3, SettledWalk
  <2>4. CASE \E room \in Room : CreateNode(room)
    BY <2>4, SettledCreate
  <2>5. CASE \E room \in Room : Mount(room)
    BY <2>5, SettledMount
  <2>6. CASE \/ \E c \in Calls : Call(c) \/ dev_register_char_dev(c)
             \/ NoCopy \/ Stat
             \/ \E p \in FilePtr : Close(p)
    <3>1. ~wild /\ UNCHANGED <<cache, mounts, flaws>>
      BY <2>6 DEF Call, dev_register_char_dev, NoCopy, Stat, Found, Close, Idle
    <3> QED
      BY <3>1, SettledSame DEF mounts, flaws
  <2>7. CASE \E p \in FilePtr, room \in Room : Open(p, room)
    <3>1. ~wild /\ UNCHANGED <<cache, mounts>>
      BY <2>7 DEF Open, Found
    <3>2. wild' = wild /\ accidents \subseteq accidents'
      BY <2>7 DEF Open, OpenFile, Refused, flaws
    <3> QED
      BY <3>1, <3>2, SettledSame DEF mounts
  <2> QED
    BY <1>2, <2>1, <2>2, <2>3, <2>4, <2>5, <2>6, <2>7 DEF Next
<1>3. CASE UNCHANGED vars
  <2>1. UNCHANGED <<cache, supers, sbs, fs_types, wild, accidents>>
    BY <1>3 DEF vars, cache
  <2>2. CASE wild
    BY <1>1, <2>1, <2>2 DEF IInv, Settled, Calm
  <2>3. CASE ~wild
    BY <1>1, <2>1, <2>3, SettledSame DEF IInv
  <2> QED
    BY <2>2, <2>3
<1> QED
  BY <1>1, <1>2, <1>3 DEF IInv

(* So it holds of every behaviour.                                         *)
THEOREM Invariance == Spec => []IInv
BY InitInv, NextInv, PTL DEF Spec

(* The state is well typed and, barring the accidents, no null and no      *)
(* freed pointer is followed, whatever fails and wherever the heap is full *)
(* (vfs.c:88-154, 678-686, 923-1039).                                      *)
THEOREM NeverWild == Spec => []StaysInC
<1>1. IInv => StaysInC
  BY CoreTypes DEF IInv, Settled, StaysInC
<1> QED
  BY <1>1, Invariance, PTL

(* Barring the accidents, between calls every entry of the cache names the *)
(* node that its parent's directory has under its name, and none is half   *)
(* made, whichever step of a call failed (vfs.c:678-803, 811-898).         *)
THEOREM CacheTrue == Spec => []CacheCoherent
<1>1. IInv => CacheCoherent
  <2> SUFFICES ASSUME IInv, Calm, NEW i \in InUse(dentries), i # vfs_root_dentry
               PROVE  LET k == NodeKey(dentries, dentries[i].parent)
                      IN  /\ dentries[i].sb = k[1] /\ dentries[i].vno # 0
                          /\ dentries[i].vno =
                               memfs_ino_lookup(supers[k[1]], k[2], dentries[i].name)
    BY DEF CacheCoherent
  <2>1. Coherent(i)
    BY DEF IInv, Settled, TreeInv, E, R
  <2> QED
    BY <2>1 DEF Coherent
<1> QED
  BY <1>1, Invariance, PTL

(* Barring the accidents, asking the cache alone whether a name exists     *)
(* (vfs.c:732-745) keeps the names of every directory apart.               *)
THEOREM NamesApart == Spec => []NamesUnique
<1>1. IInv => NamesUnique
  <2> SUFFICES ASSUME IInv, Calm, NEW d \in Device, supers[d] # NoSuper,
                      NEW n \in DOMAIN supers[d].nodes,
                      NEW i \in DOMAIN supers[d].nodes[n].entries,
                      NEW j \in DOMAIN supers[d].nodes[n].entries,
                      supers[d].nodes[n].entries[i].name = supers[d].nodes[n].entries[j].name
               PROVE  i = j
    BY DEF NamesUnique
  <2>1. d \in sbs
    <3>1. DOMAIN memfs_init_super.nodes = {}
      BY DEF memfs_init_super
    <3> QED
      BY <3>1 DEF IInv, Core, FsInv
  <2>2. NamesOnce(supers[d])
    BY <2>1 DEF IInv, Settled, TreeInv
  <2> QED
    BY <2>2 DEF NamesOnce
<1> QED
  BY <1>1, Invariance, PTL

-----------------------------------------------------------------------------
(* What a path names.  Goes holds of the nodes that the first m names of a *)
(* path lead through.                                                      *)
Onward(k, n) == Crossing(<<k[1], memfs_ino_lookup(supers[k[1]], k[2], n)>>)

Goes(g, m, path) ==
  /\ m \in 0 .. Len(path) /\ g = [n \in 0 .. m |-> g[n]]
  /\ g[0] = <<dentries[R].mnt, MEMFS_ROOT_INO>>
  /\ \A n \in 1 .. m : g[n] = Onward(g[n - 1], path[n])

WalkInv ==
  call # NoCall /\ call.phase # "create" =>
    \E m \in 0 .. Len(call.path) : \E g :
      /\ Goes(g, m, call.path) /\ g[m] = NodeKey(dentries, call.at)
      /\ Len(call.todo) = Len(call.path) - m
      /\ \A n \in 1 .. Len(call.todo) : call.todo[n] = call.path[m + n]

Named == Calm => WalkInv

(* The nodes that a whole path leads through end where it resolves to.     *)
LEMMA ResolveLemma ==
  ASSUME NEW path \in Seq(Name), NEW g, Goes(g, Len(path), path)
  PROVE  Resolve(path) = g[Len(path)]
<1> DEFINE l == Len(path)
           Step(n, a) == IF n = 0 THEN <<dentries[vfs_root_dentry].mnt, MEMFS_ROOT_INO>>
                         ELSE LET k == a[n - 1]
                              IN  Crossing(<<k[1], memfs_ino_lookup(supers[k[1]], k[2], path[n])>>)
           A == CHOOSE a : a = [n \in 0 .. l |-> Step(n, a)]
<1>1. Resolve(path) = A[l]
  BY DEF Resolve
<1>2. l \in Nat
  OBVIOUS
<1>3. /\ g = [n \in 0 .. l |-> g[n]]
      /\ \A n \in 0 .. l : g[n] = Step(n, g)
  <2>1. \A n \in 0 .. l : n = 0 \/ n \in 1 .. l
    BY <1>2
  <2> QED
    BY <2>1 DEF Goes, Onward, R
<1> HIDE DEF l
<1>4. g = [n \in 0 .. l |-> Step(n, g)]
  <2> HIDE DEF Step
  <2> QED
    BY <1>3
<1>5. A = [n \in 0 .. l |-> Step(n, A)]
  <2> HIDE DEF Step
  <2> QED
    BY <1>4
<1> HIDE DEF A
<1>6. \A n \in 0 .. l : A[n] = Step(n, A)
  <2> HIDE DEF Step
  <2> QED
    BY <1>5
<1>7. A[0] = g[0]
  <2>1. 0 \in 0 .. l
    BY <1>2
  <2>2. A[0] = Step(0, A) /\ g[0] = Step(0, g)
    BY <1>3, <1>6, <2>1
  <2> QED
    BY <2>2
<1>8. ASSUME NEW n \in 1 .. l, A[n - 1] = g[n - 1]
      PROVE  A[n] = g[n]
  <2>1. n \in 0 .. l /\ n # 0
    BY <1>2
  <2> QED
    BY <1>3, <1>6, <1>8, <2>1
<1>9. {n \in 0 .. l : A[n] # g[n]} = {}
  <2> SUFFICES ASSUME {n \in 0 .. l : A[n] # g[n]} # {} PROVE FALSE
    OBVIOUS
  <2>1. {n \in 0 .. l : A[n] # g[n]} \subseteq Nat
    OBVIOUS
  <2> DEFINE S == {n \in 0 .. l : A[n] # g[n]}
  <2> HIDE DEF S
  <2>2. PICK x \in S : \A y \in S : x <= y
    BY <2>1, LeastNumber DEF S
  <2>3. x \in 0 .. l /\ A[x] # g[x]
    BY DEF S
  <2>4. x - 1 \notin S /\ x # 0
    BY <1>2, <1>7, <2>2, <2>3
  <2>5. A[x - 1] = g[x - 1] /\ x \in 1 .. l
    BY <1>2, <2>3, <2>4 DEF S
  <2> QED
    BY <1>8, <2>3, <2>5
<1>10. A[l] = g[l]
  BY <1>2, <1>9
<1> QED
  BY <1>1, <1>10 DEF l

(* The node of an entry is the one its key leads to across the mounts.     *)
LEMMA CrossingLemma ==
  ASSUME TreeInv, NEW i \in E \ {R}
  PROVE  Crossing(Key0(i)) = NodeKey(dentries, i)
<1> DEFINE on == {j \in InUse(dentries) : dentries[j].mnt # NoSb /\ j # vfs_root_dentry
                     /\ <<dentries[j].sb, dentries[j].vno>> = Key0(i)}
<1>1. on = IF dentries[i].mnt = NoSb THEN {} ELSE {i}
  <2>1. \A j \in on : j \in E \ {R} /\ Key0(j) = Key0(i)
    BY DEF E, R, Key0
  <2>2. \A j \in on : j = i
    BY <2>1 DEF TreeInv
  <2>3. i \in on <=> dentries[i].mnt # NoSb
    BY DEF E, R, Key0
  <2> HIDE DEF on
  <2>4. \A j \in on : dentries[j].mnt # NoSb
    BY DEF on
  <2> QED
    BY <2>2, <2>3, <2>4
<1>2. Crossing(Key0(i)) = IF on = {} THEN Key0(i)
                          ELSE <<dentries[CHOOSE j \in on : TRUE].mnt, MEMFS_ROOT_INO>>
  BY DEF Crossing
<1> HIDE DEF on
<1> QED
  BY <1>1, <1>2 DEF NodeKey, Key0

(* An entry under another leads on from its node.                          *)
LEMMA OnwardLemma ==
  ASSUME PlacesInv, TreeInv, R # NULL, NEW p \in E, NEW n, NEW i \in Cached(dentries, p, n)
  PROVE  Onward(NodeKey(dentries, p), n) = NodeKey(dentries, i)
<1>1. i \in E /\ dentries[i].parent = p /\ dentries[i].name = n /\ p # NULL
  BY DEF Cached, E, InUse, Slot, NULL
<1>2. i # R
  BY <1>1 DEF PlacesInv
<1>3. PICK k : k = NodeKey(dentries, p)
  OBVIOUS
<1>4. Key0(i) = <<k[1], memfs_ino_lookup(supers[k[1]], k[2], n)>>
  BY <1>1, <1>2, <1>3 DEF TreeInv, Coherent, Key0
<1> QED
  BY <1>1, <1>2, <1>3, <1>4, CrossingLemma DEF Onward

(* Where no entry is more than counted, every node leads on as before.     *)
LEMMA CrossingSame ==
  ASSUME TypeInv, \A j \in Slot : Kept(j), R' = R, NEW k
  PROVE  Crossing(k)' = Crossing(k)
<1> DEFINE on == {j \in InUse(dentries) : dentries[j].mnt # NoSb /\ j # vfs_root_dentry
                     /\ <<dentries[j].sb, dentries[j].vno>> = k}
<1>1. \A j \in Slot : /\ dentries'[j].name = dentries[j].name
                      /\ dentries'[j].vno = dentries[j].vno
                      /\ dentries'[j].sb = dentries[j].sb
                      /\ dentries'[j].mnt = dentries[j].mnt
  BY KeptLemma DEF TypeInv
<1>2. on' = on
  BY <1>1 DEF InUse, R
<1>3. on \subseteq Slot
  BY DEF InUse
<1>4. Crossing(k) = IF on = {} THEN k
                    ELSE <<dentries[CHOOSE j \in on : TRUE].mnt, MEMFS_ROOT_INO>>
  BY DEF Crossing
<1>5. Crossing(k)' = IF on' = {} THEN k
                     ELSE <<dentries'[CHOOSE j \in on' : TRUE].mnt, MEMFS_ROOT_INO>>
  BY DEF Crossing
<1>6. PICK s : s = on
  OBVIOUS
<1>7. on' = s
  BY <1>2, <1>6
<1> HIDE DEF on
<1>8. s # {} => (CHOOSE j \in s : TRUE) \in Slot
  BY <1>3, <1>6
<1> QED
  BY <1>1, <1>4, <1>5, <1>6, <1>7, <1>8

(* Nor do the nodes a path leads through change.                           *)
LEMMA GoesSame ==
  ASSUME TypeInv, PlacesInv, R # NULL, \A j \in Slot : Kept(j), R' = R, supers' = supers,
         NEW g, NEW m, NEW path, Goes(g, m, path)
  PROVE  Goes(g, m, path)'
<1>1. R \in Slot
  BY DEF PlacesInv, E, InUse
<1>2. dentries'[R].mnt = dentries[R].mnt
  BY <1>1, KeptLemma DEF TypeInv
<1>3. ASSUME NEW k, NEW n PROVE Onward(k, n)' = Onward(k, n)
  <2>1. PICK q : q = <<k[1], memfs_ino_lookup(supers[k[1]], k[2], n)>>
    OBVIOUS
  <2>2. q = <<k[1], memfs_ino_lookup(supers'[k[1]], k[2], n)>>
    BY <2>1
  <2>3. Crossing(q)' = Crossing(q)
    BY CrossingSame
  <2> QED
    BY <2>1, <2>2, <2>3 DEF Onward
<1>4. \A n \in 1 .. m : g[n] = Onward(g[n - 1], path[n])'
  BY <1>3 DEF Goes
<1> QED
  BY <1>2, <1>4 DEF Goes

(* A call that begins has gone nowhere.                                    *)
LEMMA StartLemma ==
  ASSUME R' # NULL, PlacesInv', call'.path \in Seq(Name), call'.at = R', call'.todo = call'.path
  PROVE  WalkInv'
<1>1. PICK path, at, r : path \in Seq(Name) /\ path = call'.path /\ at = dentries'[R'].mnt /\ r = R'
  OBVIOUS
<1>2. NodeKey(dentries', r) = <<at, MEMFS_ROOT_INO>>
  BY <1>1 DEF PlacesInv, NodeKey
<1> DEFINE g == [n \in 0 .. 0 |-> <<at, MEMFS_ROOT_INO>>]
<1>3. Goes(g, 0, path)' /\ g[0] = NodeKey(dentries', call'.at)
  BY <1>1, <1>2 DEF Goes
<1>4. /\ Len(call'.todo) = Len(call'.path) - 0
      /\ \A n \in 1 .. Len(call'.todo) : call'.todo[n] = call'.path[0 + n]
      /\ 0 \in 0 .. Len(call'.path)
  <2>1. Len(path) \in Nat
    OBVIOUS
  <2> QED
    BY <2>1, <1>1
<1> HIDE DEF g
<1> QED
  BY <1>1, <1>3, <1>4 DEF WalkInv

(* One that goes on has gone one name further.                             *)
LEMMA FurtherLemma ==
  ASSUME TypeInv, PlacesInv, TreeInv, CallInv, R # NULL, call # NoCall, call.at \in E,
         call.phase # "create", call.todo # << >>, WalkInv, R' = R, supers' = supers,
         NEW i \in Cached(dentries, call.at, Head(call.todo)), \A j \in Slot : Kept(j),
         call'.at = i, call'.todo = Tail(call.todo), call'.path = call.path
  PROVE  WalkInv'
<1>1. PICK path \in Seq(Name), todo \in Seq(Name), at \in E :
        path = call.path /\ todo = call.todo /\ at = call.at
  BY DEF CallInv, Pending
<1>2. PICK m, g :
        /\ m \in 0 .. Len(path)
        /\ Goes(g, m, path) /\ g[m] = NodeKey(dentries, at)
        /\ Len(todo) = Len(path) - m
        /\ \A n \in 1 .. Len(todo) : todo[n] = path[m + n]
  BY <1>1 DEF WalkInv
<1>3. /\ Len(todo) \in Nat \ {0} /\ Len(path) \in Nat /\ m \in Nat
      /\ Head(todo) = todo[1] /\ Len(Tail(todo)) = Len(todo) - 1
      /\ \A n \in 1 .. Len(todo) - 1 : Tail(todo)[n] = todo[n + 1]
  <2>1. todo # << >>
    BY <1>1
  <2> QED
    BY <1>2, <2>1, EmptySeq, HeadTailProperties
<1>4. m + 1 \in 1 .. Len(path) /\ Head(todo) = path[m + 1]
  BY <1>2, <1>3
<1>5. PICK k : k = NodeKey(dentries, i)
  OBVIOUS
<1>6. Onward(g[m], path[m + 1]) = k
  BY <1>1, <1>2, <1>4, <1>5, OnwardLemma
<1> DEFINE h == [n \in 0 .. m + 1 |-> IF n = m + 1 THEN k ELSE g[n]]
<1>7. Goes(h, m + 1, path)
  <2>1. h = [n \in 0 .. m + 1 |-> h[n]] /\ m + 1 \in 0 .. Len(path)
    BY <1>3, <1>4
  <2>2. h[0] = g[0]
    BY <1>3
  <2>3. ASSUME NEW n \in 1 .. m + 1 PROVE h[n] = Onward(h[n - 1], path[n])
    <3>1. n - 1 \in 0 .. m + 1 /\ n - 1 # m + 1 /\ n \in 0 .. m + 1
      BY <1>3
    <3>2. h[n - 1] = g[n - 1]
      BY <3>1
    <3>3. CASE n = m + 1
      <4>1. n - 1 = m /\ h[n] = k
        BY <1>3, <3>1, <3>3
      <4> QED
        BY <1>6, <3>2, <3>3, <4>1
    <3>4. CASE n # m + 1
      <4>1. n \in 1 .. m /\ h[n] = g[n]
        BY <1>3, <3>1, <3>4
      <4> QED
        BY <1>2, <3>2, <4>1 DEF Goes
    <3> QED
      BY <3>3, <3>4
  <2> HIDE DEF h
  <2> QED
    BY <1>2, <2>1, <2>2, <2>3 DEF Goes
<1>8. h[m + 1] = k
  BY <1>3
<1> HIDE DEF h
<1>9. PICK f : f = h
  OBVIOUS
<1>10. Goes(f, m + 1, path)'
  BY <1>7, <1>9, GoesSame
<1>11. NodeKey(dentries', i) = k
  <2>1. i \in Slot
    BY DEF Cached, InUse
  <2> QED
    BY <1>5, <2>1, KeptLemma DEF NodeKey, TypeInv
<1>12. /\ Len(Tail(todo)) = Len(path) - (m + 1) /\ m + 1 \in 0 .. Len(path)
       /\ \A n \in 1 .. Len(Tail(todo)) : Tail(todo)[n] = path[(m + 1) + n]
  <2>1. ASSUME NEW n \in 1 .. Len(Tail(todo)) PROVE Tail(todo)[n] = path[(m + 1) + n]
    <3>1. n + 1 \in 1 .. Len(todo) /\ n \in 1 .. Len(todo) - 1
      BY <1>3
    <3>2. Tail(todo)[n] = todo[n + 1] /\ todo[n + 1] = path[m + (n + 1)]
      BY <1>2, <1>3, <3>1
    <3>3. m + (n + 1) = (m + 1) + n
      BY <1>3
    <3> QED
      BY <3>2, <3>3
  <2> QED
    BY <1>2, <1>3, <1>4, <2>1
<1>13. PICK l : l = m + 1
  OBVIOUS
<1>14. /\ l \in 0 .. Len(call'.path) /\ Goes(f, l, call.path)'
       /\ f[l] = NodeKey(dentries, call.at)'
       /\ Len(call'.todo) = Len(call'.path) - l
       /\ \A n \in 1 .. Len(call'.todo) : call'.todo[n] = call'.path[l + n]
  <2>1. call'.path = path /\ call'.todo = Tail(todo)
    BY <1>1
  <2>2. Goes(f, l, call.path)'
    BY <1>10, <1>13, <2>1 DEF Goes
  <2> QED
    BY <1>8, <1>9, <1>11, <1>12, <1>13, <2>1, <2>2
<1> QED
  BY <1>14 DEF WalkInv

(* The steps: one that fails, or that creates, is at no entry to speak of. *)
LEMMA FailNamed ==
  ASSUME Fail
  PROVE  WalkInv'
<1>1. CASE call' = NoCall
  BY <1>1 DEF WalkInv
<1>2. CASE call' # NoCall
  <2>1. call' = Begin(call, "create", Front(call.path))
    BY <1>2 DEF Fail
  <2>2. call'.phase = "create"
    BY <2>1 DEF Begin
  <2> QED
    BY <2>2 DEF WalkInv
<1> QED
  BY <1>1, <1>2

(* A step of a walk goes to the entry of the next name.                    *)
LEMMA NamedWalk ==
  ASSUME IInv, Named, NEW room \in Room, Walk(room), Calm'
  PROVE  WalkInv'
<1>1. ~wild /\ call # NoCall
  BY DEF Walk
<1>2. /\ TypeInv /\ FsInv /\ CacheInv /\ CallInv /\ DeviceInv /\ PlacesInv
      /\ R # NULL /\ call.at \in E
  BY <1>1 DEF IInv, Core, CacheInv, CallInv
<1> DEFINE n == Head(call.todo)
           k == NodeKey(dentries, call.at)
<1>3. call.todo # << >> /\ WalkSteps(n) /\ UNCHANGED <<vfs_root_dentry, mounts, vnodes, open>>
  BY <1>2, WalkLemma
<1>4. R' = R /\ UNCHANGED <<supers, sbs>>
  BY <1>3 DEF R, mounts
<1> HIDE DEF n
<1>5. CASE Derail
  BY <1>5 DEF Derail, Calm
<1>6. ASSUME NEW i \in Cached(dentries, call.at, n), Touch(i), Advance(i)
      PROVE  WalkInv'
  <2>1. i \in E /\ i \in Slot
    BY DEF Cached, E, InUse
  <2>2. Calm
    BY <1>6, CalmLemma DEF Touch
  <2>3. TreeInv /\ WalkInv
    BY <2>2 DEF IInv, Settled, Named
  <2>4. /\ call'.at = i /\ call'.todo = Tail(call.todo) /\ call'.path = call.path
        /\ call'.phase = call.phase
    BY <1>1, <1>2, <1>3, <1>4, <1>6, <2>1, AdvanceLemma
  <2>5. \A j \in Slot : Kept(j)
    BY <1>2, <1>6, <2>1, TouchStep
  <2>6. CASE call.phase = "create"
    BY <2>4, <2>6 DEF WalkInv
  <2>7. CASE call.phase # "create"
    BY <1>1, <1>2, <1>3, <1>4, <1>6, <2>3, <2>4, <2>5, <2>7, FurtherLemma DEF n
  <2> QED
    BY <2>6, <2>7
<1>7. ASSUME NEW v \in Slot, Fill(v, n, Lookup(k, n)), Lookup(k, n) # 0
      PROVE  WalkInv'
  <2>1. accidents \subseteq accidents' /\ Cached(dentries, call.at, n) = {}
    BY <1>7 DEF Fill, Record
  <2>2. TreeInv
    BY <2>1, CalmLemma DEF IInv, Settled
  <2>3. Lookup(k, n) = 0
    BY <1>2, <2>1, <2>2, NoEntryLemma
  <2> QED
    BY <1>7, <2>3
<1> QED
  BY <1>3, <1>5, <1>6, <1>7, FailNamed DEF WalkSteps

(* A call begins at the root, and so does an open that has created.        *)
LEMMA BeginNamed ==
  ASSUME R' = R, R # NULL, PlacesInv', R \in Slot, NEW c, Asked(c),
         NEW phase \in {"find", "create", "again"}, call' = Begin(c, phase, c.path)
  PROVE  WalkInv'
<1>1. c.path \in Seq(Name)
  BY DEF Asked
<1>2. call'.path = c.path /\ call'.todo = c.path /\ call'.at = R
  BY <1>1, BeginLemma
<1> QED
  BY <1>1, <1>2, StartLemma

(* An open that has created walks again; other creations return.           *)
LEMMA NamedCreate ==
  ASSUME IInv, IInv', NEW room \in Room, CreateNode(room), Calm'
  PROVE  WalkInv'
<1>1. ~wild /\ call # NoCall
  BY DEF CreateNode
<1>2. TypeInv /\ FsInv /\ CacheInv /\ CallInv
  BY <1>1 DEF IInv, Core
<1>3. /\ CreateSteps(Last(call.path), NodeKey(dentries, call.at))
      /\ UNCHANGED <<vfs_root_dentry, fs_types, sbs, vnodes, open>>
  BY <1>2, CreateLemma
<1>4. R' = R /\ R # NULL /\ R \in Slot /\ call \in Pending /\ PlacesInv'
  <2>1. ~wild'
    BY DEF IInv, Settled
  <2>2. PlacesInv'
    BY <2>1 DEF IInv, Core, CacheInv
  <2> QED
    BY <1>1, <1>2, <1>3, <2>2 DEF R, CallInv, TypeInv
<1>5. Asked(call)
  BY <1>4 DEF Pending, Asked
<1>6. CASE Derail
  BY <1>6 DEF Derail, Calm
<1>7. CASE Fail
  BY <1>7, FailNamed
<1>8. CASE call' = IF call.op = "open" THEN Begin(call, "again", call.path) ELSE NoCall
  <2>1. CASE call.op = "open"
    BY <1>4, <1>5, <1>8, <2>1, BeginNamed
  <2>2. CASE call.op # "open"
    BY <1>8, <2>2 DEF WalkInv
  <2> QED
    BY <2>1, <2>2
<1> QED
  BY <1>3, <1>6, <1>7, <1>8 DEF CreateSteps

(* The calls of the kernel begin like that.                                *)
LEMMA NamedBegin ==
  ASSUME IInv, IInv', NEW c \in Calls, Call(c) \/ dev_register_char_dev(c), Calm'
  PROVE  WalkInv'
<1>1. R' = R /\ R # NULL
  BY DEF Call, dev_register_char_dev, cache, R
<1>2. PlacesInv' /\ R \in Slot
  <2>1. ~wild'
    BY DEF IInv, Settled
  <2> QED
    BY <1>1, <2>1 DEF IInv, Core, CacheInv, TypeInv
<1>3. Asked(c)
  <2>1. c \in Request /\ c.type \in Types
    BY CallsAssumption DEF Types
  <2> QED
    BY <2>1 DEF Request, Asked
<1>4. CASE call' = Begin(c, "find", c.path)
  BY <1>1, <1>2, <1>3, <1>4, BeginNamed
<1>5. CASE call' = Begin(c, "create", Front(c.path))
  <2>1. call'.phase = "create"
    BY <1>5 DEF Begin
  <2> QED
    BY <2>1 DEF WalkInv
<1> QED
  BY <1>4, <1>5 DEF Call, dev_register_char_dev

(* Nothing else moves a call that is in progress.                          *)
LEMMA StutterNamed ==
  ASSUME Named, UNCHANGED vars
  PROVE  Named'
<1>1. UNCHANGED <<dentries, vfs_root_dentry, supers, call, accidents>>
  BY DEF vars
<1>2. CASE call = NoCall \/ call.phase = "create"
  BY <1>1, <1>2 DEF Named, WalkInv
<1>3. CASE call # NoCall /\ call.phase # "create" /\ Calm
  <2>1. PICK m, g :
          /\ m \in 0 .. Len(call.path)
          /\ Goes(g, m, call.path) /\ g[m] = NodeKey(dentries, call.at)
          /\ Len(call.todo) = Len(call.path) - m
          /\ \A n \in 1 .. Len(call.todo) : call.todo[n] = call.path[m + n]
    BY <1>3 DEF Named, WalkInv
  <2>2. Goes(g, m, call.path)'
    <3>1. ASSUME NEW k PROVE Crossing(k)' = Crossing(k)
      BY <1>1 DEF Crossing
    <3>2. ASSUME NEW k, NEW n PROVE Onward(k, n)' = Onward(k, n)
      <4>1. PICK q : q = <<k[1], memfs_ino_lookup(supers[k[1]], k[2], n)>>
        OBVIOUS
      <4>2. q = <<k[1], memfs_ino_lookup(supers'[k[1]], k[2], n)>>
        BY <1>1, <4>1
      <4> QED
        BY <3>1, <4>1, <4>2 DEF Onward
    <3> QED
      BY <1>1, <2>1, <3>2 DEF Goes, R
  <2> QED
    BY <1>1, <2>1, <2>2 DEF Named, WalkInv
<1> QED
  BY <1>1, <1>2, <1>3 DEF Named, Calm

(* Barring the accidents, the entry that a walk is at stands for the node  *)
(* that the names behind it lead to, and the names ahead are the rest.     *)
LEMMA NextNamed == IInv /\ IInv' /\ Named /\ [Next]_vars => Named'
<1> SUFFICES ASSUME IInv, IInv', Named, [Next]_vars PROVE Named'
  OBVIOUS
<1>1. ASSUME Next, Calm' PROVE WalkInv'
  <2>1. CASE \E room \in Room : Walk(room)
    BY <1>1, <2>1, NamedWalk
  <2>2. CASE \E room \in Room : CreateNode(room)
    BY <1>1, <2>2, NamedCreate
  <2>3. CASE \E c \in Calls : Call(c) \/ dev_register_char_dev(c)
    BY <1>1, <2>3, NamedBegin
  <2>4. CASE NoCopy
    BY <2>4, FailNamed DEF NoCopy
  <2>5. CASE \/ \E f \in Filesystems, room \in Room : memfs_create(f[1], f[2], room)
             \/ \E c \in Calls, room \in Room : MountRoot(c, room)
             \/ Stat
             \/ \E room \in Room : Mount(room)
             \/ \E p \in FilePtr, room \in Room : Open(p, room)
             \/ \E p \in FilePtr : Close(p)
    <3>1. call' = NoCall
      BY <2>5 DEF memfs_create, MountRoot, Stat, Mount, Open, Close, Idle, Return
    <3> QED
      BY <3>1 DEF WalkInv
  <2> QED
    BY <1>1, <2>1, <2>2, <2>3, <2>4, <2>5 DEF Next
<1> QED
  BY <1>1, StutterNamed DEF Named

(* Barring the accidents a walk that ends well ends at the node that its   *)
(* path names, from the trees and the mounts alone, so the cache never     *)
(* changes which file a call gets (vfs.c:811-898).                         *)
THEOREM PathsFound == Spec => []FindsNamed
<1>1. Init => Named
  BY DEF Init, Named, WalkInv
<1>2. Spec => []Named
  BY <1>1, NextNamed, Invariance, PTL DEF Spec
<1>3. IInv /\ Named => FindsNamed
  <2> SUFFICES ASSUME IInv, Named, WalkEnds, Calm
               PROVE  NodeKey(dentries, call.at) = Resolve(call.path)
    BY DEF FindsNamed
  <2>1. WalkInv /\ call # NoCall /\ call.phase # "create" /\ call.todo = << >>
    BY DEF Named, WalkEnds
  <2>2. PICK m, g :
          /\ m \in 0 .. Len(call.path)
          /\ Goes(g, m, call.path) /\ g[m] = NodeKey(dentries, call.at)
          /\ Len(call.todo) = Len(call.path) - m
    BY <2>1 DEF WalkInv
  <2>3. call.path \in Seq(Name)
    BY <2>1 DEF IInv, Core, CallInv, Pending
  <2>4. m = Len(call.path)
    BY <2>1, <2>2, <2>3
  <2>5. PICK path \in Seq(Name) : path = call.path
    BY <2>3
  <2> QED
    BY <2>2, <2>4, <2>5, ResolveLemma
<1> QED
  BY <1>2, <1>3, Invariance, PTL

================================================================================
