-------------------------------- MODULE Lists --------------------------------
(***************************************************************************)
(* list.c: the linked list in which memfs keeps the entries of a directory *)
(* and the VFS its open files.  A list is the sequence of its values; the  *)
(* one allocation of list_add is accounted for by the caller.              *)
(***************************************************************************)
EXTENDS Sequences, Integers

list_init == << >>

list_add(l, val) == Append(l, val)

(* The code's cmp is the set S of the values it accepts.  The positions of *)
(* l at which it holds, and the first of them.                             *)
Matches(l, S) == {i \in DOMAIN l : l[i] \in S}
First(I) == CHOOSE i \in I : \A j \in I : i <= j

(* -1 when nothing matches; positions count from zero, as the code's do.   *)
list_find_pos(l, S) ==
  IF Matches(l, S) = {} THEN -1 ELSE First(Matches(l, S)) - 1

list_find(l, S, null) ==
  IF Matches(l, S) = {} THEN null ELSE l[First(Matches(l, S))]

(* The list without its element at pos; as it is when there is none.       *)
list_del(l, pos) ==
  IF pos \in 0 .. Len(l) - 1
  THEN SubSeq(l, 1, pos) \o SubSeq(l, pos + 2, Len(l)) ELSE l

list_find_del(l, S) == list_del(l, list_find_pos(l, S))
===============================================================================
