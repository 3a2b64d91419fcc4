-------------------------------- MODULE Memfs --------------------------------
(***************************************************************************)
(* fs/memfs.c, the filesystem in memory behind "/" and "/dev": its         *)
(* superblocks, the nodes of each and the entries of the directories.      *)
(* What regular files hold is module Files.  room is always the number of  *)
(* the step's allocations that succeed before the heap is full.            *)
(***************************************************************************)
EXTENDS Lists, Functions

NoDev == "no device"                       \* FILE_NODEV
NoSuper == [last_ino |-> -1]               \* name == NULL: the place is free

MEMFS_ROOT_INO == 1
Dir == "directory"

NewNode(type, perm, dev) ==
  [type |-> type, perm |-> perm, dev |-> dev, entries |-> list_init]

(* memfs_init_super (159-175), after the allocation of the name.           *)
memfs_init_super == [last_ino |-> 0, nodes |-> << >>]

WithNode(ms, ino, node) ==
  [ms EXCEPT !.nodes = [i \in DOMAIN ms.nodes \cup {ino} |->
                          IF i = ino THEN node ELSE ms.nodes[i]]]

(* memfs_node_alloc takes the inode number before it has the node in the   *)
(* list (105-128): a failure in between loses the number.                  *)
Numbered(ms) == [ms EXCEPT !.last_ino = @ + 1]

Entry(ms, dir, name, null) ==
  LET entries == ms.nodes[dir].entries
  IN  list_find(entries, {e \in Range(entries) : e.name = name}, null)

(* memfs_ino_lookup (291-307): the number of the first entry with the      *)
(* name, 0 when there is none.                                             *)
memfs_ino_lookup(ms, dir, name) == Entry(ms, dir, name, [ino |-> 0]).ino

(* memfs_ino_mknod (310-335), which create and mkdir call: the node and    *)
(* its place in the list are two allocations, the entry, its name and its  *)
(* place in the directory three.  ino is 0 when one of them fails.         *)
memfs_ino_mknod(ms, dir, name, type, perm, dev, room) ==
  LET ino == ms.last_ino
      ms1 == WithNode(Numbered(ms), ino, NewNode(type, perm, dev))
  IN  IF room = 0 THEN [ms |-> ms, ino |-> 0]
      ELSE IF room < 5 THEN [ms |-> Numbered(ms), ino |-> 0]
      ELSE [ms |-> [ms1 EXCEPT !.nodes[dir].entries =
                      list_add(@, [name |-> name, ino |-> ino])],
            ino |-> ino]

(* memfs_sb_mount (452-477): the first mount makes the root node, which is *)
(* renumbered after it got the number 0.  Fails without its allocations.   *)
MountFails(ms, room) == MEMFS_ROOT_INO \notin DOMAIN ms.nodes /\ room < 2
memfs_sb_mount(ms) ==
  IF MEMFS_ROOT_INO \in DOMAIN ms.nodes THEN ms
  ELSE LET ms1 == WithNode(Numbered(ms), MEMFS_ROOT_INO, NewNode(Dir, {"r", "w"}, NoDev))
       IN  [ms1 EXCEPT !.last_ino = IF @ <= 1 THEN 2 ELSE @]
===============================================================================
