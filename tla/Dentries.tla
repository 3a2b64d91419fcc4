------------------------------ MODULE Dentries ------------------------------
(***************************************************************************)
(* The dentry cache of vfs.c: a fixed array of entries that name a vnode   *)
(* under a parent entry, and from which the least used entry is evicted    *)
(* when a name needs a place.  A pointer to an entry is its index, so an   *)
(* entry that is given to another name keeps the children it had.          *)
(***************************************************************************)
EXTENDS Integers

CONSTANTS
  VFS_MAX_DENTRIES,       \* vfs.c:249: 100 in the code
  Name,                   \* the components of the paths considered
  Device                  \* device numbers: filesystems and character devices

Slot   == 1 .. VFS_MAX_DENTRIES
NULL   == 0                         \* no entry; entries count from one here
NoName == "no name"                 \* d_name == NULL: the place is free
NoSb   == "no superblock"           \* a superblock is known by its device number
Root   == "/"                       \* the name of the dentry with no parent

(* vfs.h:190-202. *)
Dentry == [name : Name \cup {Root, NoName}, vno : Nat, parent : Slot \cup {NULL},
           sb : Device \cup {NoSb}, mnt : Device \cup {NoSb}, count : Nat]

(* vfs_dentry_reset (vfs.c:256-261): all zeroes. *)
Empty == [name |-> NoName, vno |-> 0, parent |-> NULL, sb |-> NoSb, mnt |-> NoSb, count |-> 0]

InUse(d)       == {i \in Slot : d[i].name # NoName}
Cached_any(d, p, n) ==                          \* mutant: the parent not compared
  {i \in InUse(d) : d[i].name = n}
Cached(d, p, n) == {i \in InUse(d) : d[i].parent = p /\ d[i].name = n}
Evictable_any(d) == InUse(d)                    \* mutant: mountpoints not spared
Evictable(d)   == {i \in InUse(d) : d[i].mnt = NoSb}

(* The place for a new entry (269-305): the last free one, or the entry    *)
(* with the lowest count, mountpoints excepted, the first of several.      *)
Victim(d) ==
  LET free == Slot \ InUse(d)
  IN  IF free # {} THEN CHOOSE i \in free : \A j \in free : j <= i
      ELSE IF Evictable(d) = {} THEN NULL
      ELSE CHOOSE i \in Evictable(d) : \A j \in Evictable(d) :
             d[i].count < d[j].count \/ (d[i].count = d[j].count /\ i <= j)

(* vfs_dentry_get (264-339).  room is the number of allocations that       *)
(* succeed; the result is the entry, or NULL, the cache, and whether an    *)
(* entry in use was dropped.  The victim may be the parent itself: then    *)
(* the new entry is its own parent, and belongs to no superblock (319-333).*)
vfs_dentry_get(d, parent, name, room) ==
  LET hit == Cached(d, parent, name)
      i == CHOOSE k \in hit : \A j \in hit : k <= j
      v == Victim(d)
      new == [Empty EXCEPT !.name = name, !.parent = parent, !.count = 1]
      d1 == [d EXCEPT ![v] = new]
      sb == IF parent = NULL THEN NoSb
            ELSE IF d1[parent].mnt = NoSb THEN d1[parent].sb ELSE d1[parent].mnt
  IN  IF hit # {} THEN [slot |-> i, d |-> [d EXCEPT ![i].count = @ + 1], evicts |-> FALSE]
      ELSE IF v = NULL THEN [slot |-> NULL, d |-> d, evicts |-> FALSE]
      ELSE IF room = 0
      THEN [slot |-> NULL, d |-> [d EXCEPT ![v] = Empty], evicts |-> v \in InUse(d)]
      ELSE [slot |-> v, d |-> [d1 EXCEPT ![v].sb = sb], evicts |-> v \in InUse(d)]
===============================================================================
