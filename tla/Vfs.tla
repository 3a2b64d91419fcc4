--------------------------------- MODULE Vfs ---------------------------------
(***************************************************************************)
(* vfs.c over the dentry cache and memfs, with the registry of character   *)
(* devices (devices.c) and the exclusive open of a tty (serial.c): mounts, *)
(* the walk of a path, creation, stat, open and close.                     *)
(*                                                                         *)
(* One call runs at a time.  A step is one component of the walk of its    *)
(* path, or the part of the call after the walk; room is the number of the *)
(* step's allocations that succeed.  A failing call that changes nothing   *)
(* is no step.  wild: the code followed a null or a freed pointer, after   *)
(* which nothing is modelled.                                              *)
(***************************************************************************)
EXTENDS Memfs, Dentries, SequencesExt

CONSTANTS
  Filesystems,            \* what memfs_create is called with: name, device
  FilePtr,                \* the addresses of open files: a bound
  Tty,                    \* the devices that serial.c opens exclusively
  MEMFS_MAX_FS,           \* memfs.c:8: 5 in the code
  Calls,                  \* the calls made, with their arguments
  Room,                   \* how many allocations of a step may succeed
  MaxIno, MaxCount        \* bounds on the nodes of a filesystem and d_count

VARIABLES
  dentries, vfs_root_dentry,       \* the cache, and the entry of "/"
  supers,                          \* memfs_supers, by device number
  fs_types, sbs,                   \* vfs_fs_types, vfs_sbs (their devices)
  vnodes,                          \* vfs_vnodes: v_count, 0 when not listed
  files, vfs_files,                \* the open files, and the list of them
  chr_devs, in_use,                \* registered devices, ttys in use
  call,                            \* the call in progress, or NoCall
  wild,
  accidents                        \* history, see Accidents

vars == <<dentries, vfs_root_dentry, supers, fs_types, sbs, vnodes, files, vfs_files,
          chr_devs, in_use, call, wild, accidents>>
cache == <<dentries, vfs_root_dentry>>
mounts == <<supers, fs_types, sbs>>
open == <<files, vfs_files, in_use>>
flaws == <<wild, accidents>>

(* What upsets the code, each on record from when it happens:              *)
(*   evicted  the cache was full and an entry in use gave way (vfs.c:309)  *)
(*   dropped  a failed mount cleared the entry it was given (989-1013)     *)
(*   covered  a directory with cached children got a mount (1031)          *)
(*   freed    a failure left a freed object in a list (104, 621)           *)
(*   killed   a failed mount cleared the filesystem, its type stays (1023) *)
(*   leaked   a mount on what is no directory kept its vnode (965-975)     *)
(* The last only upsets the counts.                                        *)
Accidents == {"evicted", "dropped", "covered", "freed", "killed", "leaked"}
Calm == accidents \subseteq {"leaked"}

ASSUME VfsAssumption ==
  /\ VFS_MAX_DENTRIES \in Nat \ {0} /\ MEMFS_MAX_FS \in Nat
  /\ MaxIno \in Nat \ {0} /\ MaxCount \in Nat /\ IsFiniteSet(FilePtr)
  /\ Room \subseteq Nat /\ Root \notin Name /\ NoName \notin Name
  /\ NoSb \notin Device /\ NoDev \notin Device /\ Tty \subseteq Device

(* A filesystem's name and its device go together, and each call is made   *)
(* as the kernel makes it: a mount names both, a registration makes a      *)
(* character device, an open creates a regular file (vfs.c:1109).          *)
Request == [op : {"stat", "open", "mkdir", "mknod", "mount", "register"}, path : Seq(Name),
            flags : SUBSET {"r", "w", "create", "excl"}, perm : SUBSET {"r", "w"},
            type : STRING, dev : Device \cup {NoDev}, fs : STRING]
ASSUME CallsAssumption ==
  /\ Filesystems \subseteq STRING \X Device
  /\ \A f, g \in Filesystems : f[1] = g[1] => f = g
  /\ Calls \subseteq Request
  /\ \A c \in Calls :
       /\ c.op = "mount" => <<c.fs, c.dev>> \in Filesystems
       /\ c.op = "register" => c.type = "chr" /\ c.dev \in Device /\ c.path # << >>
       /\ c.op = "open" => c.type = "regular" /\ c.dev = NoDev

Key == Device \X (1 .. MaxIno)             \* a vnode: its superblock and number
NoFile == [key |-> << >>, dev |-> NoDev]   \* the address is free
NoCall == [op |-> "none"]
Idle == call = NoCall /\ ~wild

Init ==                                    \* vfs_init (906-916), memfs.c:43
  /\ dentries = [i \in Slot |-> Empty] /\ vfs_root_dentry = NULL
  /\ supers = [d \in Device |-> NoSuper] /\ fs_types = {} /\ sbs = {}
  /\ vnodes = [k \in Key |-> 0]
  /\ files = [p \in FilePtr |-> NoFile] /\ vfs_files = list_init
  /\ chr_devs = {} /\ in_use = {} /\ call = NoCall /\ wild = FALSE /\ accidents = {}

-----------------------------------------------------------------------------
(* Filesystem types: memfs_create (memfs.c:527-552) with its calls of      *)
(* vfs_fs_type_register and vfs_fs_type_alloc (vfs.c:88-154).  The fourth  *)
(* allocation, of the type's name, fails when the type is in the list:     *)
(* line 103 passes the wrong key, so the freed type stays there.           *)

memfs_create(name, dev, room) ==
  /\ Idle /\ supers[dev] = NoSuper /\ name \notin fs_types
  /\ Cardinality({d \in Device : supers[d] # NoSuper}) < MEMFS_MAX_FS
  /\ \/ /\ room = 3 /\ wild' = TRUE /\ accidents' = accidents \cup {"freed"}
        /\ UNCHANGED <<supers, fs_types>>
     \/ /\ room > 3 /\ supers' = [supers EXCEPT ![dev] = memfs_init_super]
        /\ fs_types' = fs_types \cup {name} /\ UNCHANGED flaws
  /\ UNCHANGED <<cache, sbs, vnodes, open, chr_devs, call>>

-----------------------------------------------------------------------------
(* vnodes (375-498).                                                       *)

(* vfs_node_from_dentry (678-686): the root of what is mounted on the      *)
(* entry, or the vnode it names.                                           *)
NodeKey_sb(d, i) == <<d[i].sb, d[i].vno>>  \* mutant: the mountpoint not followed
NodeKey(d, i) ==
  IF d[i].mnt = NoSb THEN <<d[i].sb, d[i].vno>> ELSE <<d[i].mnt, MEMFS_ROOT_INO>>

NodeOf(k) == supers[k[1]].nodes[k[2]]

(* vfs_vnode_get_or_read (502-536) with memfs_sb_read_vnode: a vnode that  *)
(* is not in use is built, from two allocations.                           *)
Loads(k, room) ==
  vnodes[k] > 0 \/ (room >= 2 /\ k[2] \in DOMAIN supers[k[1]].nodes)
Spent(k) == IF vnodes[k] > 0 THEN 0 ELSE 2

Acquired(k) == [vnodes EXCEPT ![k] = @ + 1]
Released(k) == [vnodes EXCEPT ![k] = @ - 1]      \* destroyed at 0 (484-498)

Evicts(g) == accidents' = IF g.evicts THEN accidents \cup {"evicted"} ELSE accidents

-----------------------------------------------------------------------------
(* Starting and failing.  Paths are sequences of names, "/" the empty one. *)

Begin(c, phase, path) ==
  [op |-> c.op, path |-> c.path, flags |-> c.flags, perm |-> c.perm, type |-> c.type,
   dev |-> c.dev, fs |-> c.fs, phase |-> phase, todo |-> path, at |-> vfs_root_dentry]

(* What call returns to when a step of it fails: an open that may create   *)
(* goes on to create, whatever the reason was (1107); a registration is    *)
(* undone (devices.c:178-184).                                             *)
Fail_kept ==                               \* mutant: lines 178-184 left out
  /\ call' = IF call.op = "open" /\ call.phase = "find" /\ "create" \in call.flags
                /\ call.path # << >>
             THEN Begin(call, "create", Front(call.path)) ELSE NoCall
  /\ UNCHANGED chr_devs
Fail ==
  /\ call' = IF call.op = "open" /\ call.phase = "find" /\ "create" \in call.flags
                /\ call.path # << >>
             THEN Begin(call, "create", Front(call.path)) ELSE NoCall
  /\ chr_devs' = IF call.op = "register" THEN chr_devs \ {call.dev} ELSE chr_devs

Return == call' = NoCall /\ UNCHANGED chr_devs

(* The bounds: no call begins beyond them.                                 *)
Bounded ==
  /\ \A i \in Slot : dentries[i].count <= MaxCount
  /\ \A d \in Device : supers[d].last_ino <= MaxIno
  /\ \A k \in Key : vnodes[k] <= MaxCount
  /\ Len(vfs_files) <= Cardinality(FilePtr)

(* stat, open, mkdir, mknod and mount.  Without a root only "/" can be     *)
(* mounted (MountRoot), and nothing is ever mounted on or created as "/".  *)
Call(c) ==
  /\ Idle /\ Bounded /\ vfs_root_dentry # NULL /\ c.op # "register"
  /\ c.op \in {"mkdir", "mknod", "mount"} => c.path # << >>
  /\ call' = IF c.op \in {"mkdir", "mknod"} THEN Begin(c, "create", Front(c.path))
             ELSE Begin(c, "find", c.path)
  /\ UNCHANGED <<cache, mounts, vnodes, open, chr_devs, flaws>>

(* dev_register_char_dev (devices.c:119-188) up to its call of vfs_mknod.  *)
dev_register_char_dev(c) ==
  /\ Idle /\ Bounded /\ vfs_root_dentry # NULL /\ c.op = "register" /\ c.dev \notin chr_devs
  /\ chr_devs' = chr_devs \cup {c.dev}
  /\ call' = Begin(c, "create", Front(c.path))
  /\ UNCHANGED <<cache, mounts, vnodes, open, flaws>>

(* The copy of the path cannot be allocated (707-711, 826-830).            *)
NoCopy ==
  /\ call # NoCall /\ ~wild /\ call.at = vfs_root_dentry
  /\ call.todo = IF call.phase = "create" THEN Front(call.path) ELSE call.path
  /\ Fail /\ UNCHANGED <<cache, mounts, vnodes, open, flaws>>

-----------------------------------------------------------------------------
(* vfs_lookup (811-898), a component a step.                               *)

Advance(slot) ==
  /\ call' = [call EXCEPT !.todo = Tail(@), !.at = slot] /\ UNCHANGED chr_devs

Forget_left(g) == dentries' = g.d           \* mutant: no vfs_dentry_reset (861-879)
Forget(g) == dentries' = [g.d EXCEPT ![g.slot] = Empty]

Walk(room) ==
  /\ call # NoCall /\ ~wild /\ call.todo # << >>
  /\ LET g == vfs_dentry_get(dentries, call.at, Head(call.todo), room)
         k == NodeKey(g.d, call.at)
         ino == memfs_ino_lookup(supers[k[1]], k[2], Head(call.todo))
         found == /\ Loads(k, room - 1) /\ NodeOf(k).type = Dir /\ ino # 0
     IN  /\ Evicts(g)
         /\ \/ g.slot = NULL /\ dentries' = g.d /\ Fail /\ UNCHANGED wild
            \/ /\ g.slot # NULL /\ g.d[g.slot].vno # 0
               /\ dentries' = g.d /\ Advance(g.slot) /\ UNCHANGED wild
            \/ /\ g.slot # NULL /\ g.d[g.slot].vno = 0
               /\ \/ /\ k[1] = NoSb /\ wild' = TRUE /\ dentries' = g.d
                     /\ UNCHANGED <<call, chr_devs>>
                  \/ /\ k[1] # NoSb /\ found /\ Advance(g.slot) /\ UNCHANGED wild
                     /\ dentries' = [g.d EXCEPT ![g.slot].vno = ino]
                  \/ /\ k[1] # NoSb /\ ~found /\ Forget(g) /\ Fail /\ UNCHANGED wild
  /\ UNCHANGED <<vfs_root_dentry, mounts, vnodes, open>>

Found(op) == call # NoCall /\ ~wild /\ call.todo = << >> /\ call.op = op
             /\ call.phase # "create"

-----------------------------------------------------------------------------
(* vfs_create_node (692-803) after the walk to the parent.                 *)

Exists_never(g) == FALSE                    \* mutant: lines 741-745 left out
Exists(g) == g.slot # NULL /\ g.d[g.slot].vno # 0

CreateNode(room) ==
  /\ call # NoCall /\ ~wild /\ call.todo = << >> /\ call.phase = "create"
  /\ LET g == vfs_dentry_get(dentries, call.at, Last(call.path), room)
         k == NodeKey(g.d, call.at)
         made == memfs_ino_mknod(supers[k[1]], k[2], Last(call.path), call.type,
                                 call.perm, call.dev, room - 1 - Spent(k))
         loaded == Loads(k, room - 1) /\ NodeOf(k).type = Dir
     IN  /\ Evicts(g)
         /\ \/ /\ g.slot = NULL \/ Exists(g)
               /\ dentries' = g.d /\ Fail /\ UNCHANGED <<supers, wild>>
            \/ /\ g.slot # NULL /\ ~Exists(g)
               /\ \/ /\ k[1] = NoSb /\ wild' = TRUE /\ dentries' = g.d
                     /\ UNCHANGED <<supers, call, chr_devs>>
                  \/ /\ k[1] # NoSb /\ ~loaded /\ Forget(g) /\ Fail
                     /\ UNCHANGED <<supers, wild>>
                  \/ /\ k[1] # NoSb /\ loaded /\ supers' = [supers EXCEPT ![k[1]] = made.ms]
                     /\ UNCHANGED wild
                     /\ IF made.ino = 0 THEN Forget(g) /\ Fail
                        ELSE /\ dentries' = [g.d EXCEPT ![g.slot].vno = made.ino]
                             /\ UNCHANGED chr_devs
                             /\ call' = IF call.op = "open"
                                        THEN Begin(call, "again", call.path) ELSE NoCall
  /\ UNCHANGED <<vfs_root_dentry, fs_types, sbs, vnodes, open>>

-----------------------------------------------------------------------------
(* vfs_stat (1042-1068): the vnode is loaded and released.  Here and below *)
(* the entry belongs to a superblock: Walk derails where one does not.     *)

Stat ==
  /\ Found("stat") /\ Return
  /\ UNCHANGED <<cache, mounts, vnodes, open, flaws>>

(* vfs_open (1119-1157) and vfs_file_open (580-643).  A regular file or a  *)
(* directory opens; a device when it is registered (devices.c:199-217) and *)
(* when serial_open finds the tty unused (serial.c:329-345); anything else *)
(* fails after its file, already in the list, has been freed.              *)
Permits(node) == call.flags \cap {"r", "w"} \subseteq node.perm

Opens(node) ==
  \/ node.type \in {Dir, "regular"}
  \/ node.type = "chr" /\ node.dev \in chr_devs /\ node.dev \notin in_use

DevOf(k) == IF NodeOf(k).type = "chr" THEN NodeOf(k).dev ELSE NoDev

OpenFile(p, k) ==
  /\ files' = [files EXCEPT ![p] = [key |-> k, dev |-> DevOf(k)]]
  /\ vfs_files' = list_add(vfs_files, p)
  /\ in_use' = in_use \cup ({DevOf(k)} \cap Tty)
  /\ vnodes' = Acquired(k) /\ UNCHANGED flaws

Refused_kept(p, k) ==                       \* mutant: the vnode not released (1135-1151)
  /\ vnodes' = Acquired(k)
  /\ UNCHANGED <<files, vfs_files, in_use, flaws>>
Refused_listed(p, k) ==                     \* mutant: list_find_del left out (614, 636)
  /\ IF Permits(NodeOf(k))
     THEN vfs_files' = list_add(vfs_files, p)
     ELSE UNCHANGED vfs_files
  /\ UNCHANGED <<files, in_use, vnodes, flaws>>
Refused(p, k) ==
  /\ IF Permits(NodeOf(k)) /\ NodeOf(k).type \notin {Dir, "regular", "chr"}
     THEN vfs_files' = list_add(vfs_files, p) /\ accidents' = accidents \cup {"freed"}
     ELSE UNCHANGED <<vfs_files, accidents>>
  /\ UNCHANGED <<files, in_use, vnodes, wild>>

Open(p, room) ==
  /\ Found("open")
  /\ LET k == NodeKey(dentries, call.at)
         excluded == call.phase = "find" /\ {"create", "excl"} \subseteq call.flags
     IN  \/ /\ excluded \/ ~Loads(k, room) \/ room < Spent(k) + 2
            /\ UNCHANGED <<open, vnodes, flaws>>
         \/ /\ ~excluded /\ Loads(k, room) /\ room >= Spent(k) + 2 /\ files[p] = NoFile
            /\ IF Permits(NodeOf(k)) /\ Opens(NodeOf(k)) THEN OpenFile(p, k) ELSE Refused(p, k)
  /\ Return /\ UNCHANGED <<cache, mounts>>

(* vfs_file_close (646-670): release is called when this is the last file  *)
(* of the vnode, and gives the tty free (serial.c:347-353).                *)
Frees_never(k) == FALSE                     \* mutant: f_ops.release not called
Frees(k) == vnodes[k] = 1

Close(p) ==
  /\ Idle /\ files[p] # NoFile /\ p \in ToSet(vfs_files)
  /\ vfs_files' = list_find_del(vfs_files, {p})
  /\ files' = [files EXCEPT ![p] = NoFile]
  /\ vnodes' = Released(files[p].key)
  /\ in_use' = IF Frees(files[p].key) THEN in_use \ {files[p].dev} ELSE in_use
  /\ UNCHANGED <<cache, mounts, chr_devs, call, flaws>>

-----------------------------------------------------------------------------
(* vfs_mount (923-1039).                                                   *)

Children(i) == {j \in InUse(dentries) : dentries[j].parent = i}

(* Lines 986-1038, d being the cache and i the entry to mount on.          *)
MountOn(c, d, i, room) ==
  LET ms == supers[c.dev]
  IN  \/ /\ c.fs \notin fs_types \/ c.dev \in sbs \/ room < 2
         /\ dentries' = [d EXCEPT ![i] = Empty]
         /\ accidents' = accidents \cup (IF d[i].parent = NULL THEN {} ELSE {"dropped"})
         /\ UNCHANGED <<vfs_root_dentry, supers, sbs, wild>>
      \/ /\ c.fs \in fs_types /\ c.dev \notin sbs /\ room >= 2
         /\ \/ /\ ms = NoSuper /\ wild' = TRUE      \* vfs_sb_dealloc: no sb_fs_type yet
               /\ dentries' = d /\ UNCHANGED <<vfs_root_dentry, supers, sbs, accidents>>
            \/ /\ ms # NoSuper /\ MountFails(ms, room - 2)
               /\ supers' = [supers EXCEPT ![c.dev] = NoSuper]
               /\ dentries' = [d EXCEPT ![i] = Empty]
               /\ accidents' = accidents \cup {"killed"}
               /\ UNCHANGED <<vfs_root_dentry, sbs, wild>>
            \/ /\ ms # NoSuper /\ ~MountFails(ms, room - 2)
               /\ supers' = [supers EXCEPT ![c.dev] = memfs_sb_mount(ms)]
               /\ sbs' = sbs \cup {c.dev} /\ dentries' = [d EXCEPT ![i].mnt = c.dev]
               /\ vfs_root_dentry' = IF d[i].parent = NULL THEN i ELSE vfs_root_dentry
               /\ accidents' = accidents \cup (IF Children(i) = {} THEN {} ELSE {"covered"})
               /\ UNCHANGED wild

MountRoot(c, room) ==
  /\ Idle /\ c.op = "mount" /\ c.path = << >> /\ vfs_root_dentry = NULL
  /\ LET g == vfs_dentry_get(dentries, NULL, Root, room)
     IN  g.slot # NULL /\ MountOn(c, [g.d EXCEPT ![g.slot].vno = 1], g.slot, room - 1)
  /\ UNCHANGED <<fs_types, vnodes, open, chr_devs, call>>

(* The vnode loaded at line 965 to see its type is never released, be it a *)
(* directory's or not.                                                     *)
Mount(room) ==
  /\ Found("mount") /\ Return
  /\ LET d == dentries[call.at]
         k == <<d.sb, d.vno>>
         left == room - Spent(k)
         nothing == UNCHANGED <<cache, supers, sbs, wild>>
     IN  \/ /\ d.mnt # NoSb \/ ~Loads(k, room)
            /\ nothing /\ UNCHANGED <<vnodes, accidents>>
         \/ /\ d.mnt = NoSb /\ Loads(k, room) /\ vnodes' = Acquired(k)
            /\ IF NodeOf(k).type # Dir
               THEN nothing /\ accidents' = accidents \cup {"leaked"}
               ELSE MountOn(call, dentries, call.at, left)
  /\ UNCHANGED <<fs_types, open>>

-----------------------------------------------------------------------------
Next ==
  \/ \E f \in Filesystems, room \in Room : memfs_create(f[1], f[2], room)
  \/ \E c \in Calls : Call(c) \/ dev_register_char_dev(c)
  \/ \E c \in Calls, room \in Room : MountRoot(c, room)
  \/ NoCopy \/ Stat
  \/ \E room \in Room : Walk(room) \/ CreateNode(room) \/ Mount(room)
  \/ \E p \in FilePtr, room \in Room : Open(p, room)
  \/ \E p \in FilePtr : Close(p)

Spec == Init /\ [][Next]_vars

-----------------------------------------------------------------------------
(* Properties. *)

(* Every pointer is null or names an entry, every count and number is in   *)
(* its range, and a file in the list is one of the addresses.              *)
TypeOK ==
  /\ dentries \in [Slot -> Dentry] /\ vfs_root_dentry \in Slot \cup {NULL}
  /\ \A d \in Device : supers[d] # NoSuper =>
       /\ supers[d].last_ino \in Nat /\ DOMAIN supers[d].nodes \subseteq 1 .. MaxIno
       /\ \A i \in DOMAIN supers[d].nodes : i < supers[d].last_ino
  /\ fs_types \subseteq {f[1] : f \in Filesystems} /\ sbs \subseteq Device /\ vnodes \in [Key -> Nat]
  /\ files \in [FilePtr -> [key : Key, dev : Device \cup {NoDev}] \cup {NoFile}]
  /\ vfs_files \in Seq(FilePtr) /\ chr_devs \subseteq Device /\ in_use \subseteq Tty
  /\ wild \in BOOLEAN /\ accidents \subseteq Accidents

(* The state is well typed and, barring the accidents, the code follows no *)
(* null or freed pointer, whatever fails and wherever the heap is full.    *)
StaysInC == TypeOK /\ (Calm => ~wild)

(* A mountpoint stays in the cache, under the name and the parent it has:  *)
(* nothing else records where a filesystem is mounted (vfs.c:239-242).     *)
MountsKept ==
  [][\A i \in Slot : dentries[i].mnt # NoSb =>
       dentries'[i] = [dentries[i] EXCEPT !.count = dentries'[i].count]]_vars

(* Between calls the cache says what the filesystems say: an entry names   *)
(* the node that the directory its parent stands for has under its name,   *)
(* and no half-made entry is left, whichever step of a call failed.        *)
CacheCoherent ==
  call = NoCall /\ Calm => \A i \in InUse(dentries) :
    \/ i = vfs_root_dentry
    \/ LET k == NodeKey(dentries, dentries[i].parent)
       IN  /\ dentries[i].sb = k[1] /\ dentries[i].vno # 0
           /\ dentries[i].vno = memfs_ino_lookup(supers[k[1]], k[2], dentries[i].name)

(* No directory gets two entries of one name, although vfs_create_node     *)
(* asks the cache alone whether the name exists (732-745).                 *)
NamesUnique ==
  Calm => \A d \in Device : supers[d] # NoSuper =>
    \A n \in DOMAIN supers[d].nodes : LET e == supers[d].nodes[n].entries IN
      \A i, j \in DOMAIN e : e[i].name = e[j].name => i = j

(* A vnode counts the open files that use it, and no failed call but a     *)
(* mount keeps one: only directories, where mounts belong, are counted     *)
(* higher, until a mount fails on something else.                          *)
FilesOn(k) == {p \in FilePtr : files[p] # NoFile /\ files[p].key = k}
VnodesCounted ==
  \A k \in Key : vnodes[k] # Cardinality(FilesOn(k)) =>
    /\ vnodes[k] > Cardinality(FilesOn(k))
    /\ NodeOf(k).type = Dir \/ "leaked" \in accidents

(* The list holds the open files, each once; a file that could not be      *)
(* opened is not left in it, but for the accident "freed".                 *)
FilesListed ==
  /\ {p \in FilePtr : files[p] # NoFile} \subseteq ToSet(vfs_files)
  /\ "freed" \notin accidents =>
       /\ \A p \in ToSet(vfs_files) : files[p] # NoFile
       /\ \A i, j \in DOMAIN vfs_files : vfs_files[i] = vfs_files[j] => i = j

(* A tty is marked in use exactly while one file on it is open: two opens  *)
(* never share it, and no close or failed open leaves it busy, whichever   *)
(* of its nodes it was opened through, barring the accident "leaked".      *)
DeviceExclusive ==
  "leaked" \notin accidents => \A t \in Tty :
    LET f == {p \in FilePtr : files[p] # NoFile /\ files[p].dev = t}
    IN  Cardinality(f) = IF t \in in_use THEN 1 ELSE 0

(* Between calls a registered device has a node that leads to it: a        *)
(* registration whose node could not be made is undone.                    *)
DevicesHaveNodes ==
  call = NoCall => \A t \in chr_devs : \E d \in Device : supers[d] # NoSuper /\
    \E n \in DOMAIN supers[d].nodes :
      supers[d].nodes[n].type = "chr" /\ supers[d].nodes[n].dev = t

(* The node a path names, from the trees and the mounts alone: the root of *)
(* the root filesystem, then one entry a component, crossing every mount.  *)
Crossing(k) ==
  LET on == {i \in InUse(dentries) : dentries[i].mnt # NoSb /\ i # vfs_root_dentry
                                     /\ <<dentries[i].sb, dentries[i].vno>> = k}
  IN  IF on = {} THEN k ELSE <<dentries[CHOOSE i \in on : TRUE].mnt, MEMFS_ROOT_INO>>
Resolve(path) ==
  LET at[n \in 0 .. Len(path)] ==
        IF n = 0 THEN <<dentries[vfs_root_dentry].mnt, MEMFS_ROOT_INO>>
        ELSE LET k == at[n - 1]
             IN  Crossing(<<k[1], memfs_ino_lookup(supers[k[1]], k[2], path[n])>>)
  IN  at[Len(path)]

(* A walk that ends well ends at the node its path names, so the cache     *)
(* never changes which file a call gets.                                   *)
WalkEnds == call # NoCall /\ ~wild /\ call.todo = << >> /\ call.phase # "create"
FindsNamed ==
  WalkEnds /\ Calm => NodeKey(dentries, call.at) = Resolve(call.path)

(* The same with evictions, as vfs.c:237-238 has it: dentries "exist only  *)
(* for performance purposes, so there is no real problem to release them". *)
EvictionHarmless ==
  WalkEnds /\ accidents = {"evicted"} => NodeKey(dentries, call.at) = Resolve(call.path)
===============================================================================
