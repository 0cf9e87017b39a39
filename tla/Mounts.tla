------------------------------- MODULE Mounts -------------------------------
(***************************************************************************)
(* The mount table of one mount namespace and what the calls of            *)
(* src/sys/mount.rs do to it.                                              *)
(*                                                                         *)
(* A path is the sequence of its components.  A table is the sequence of   *)
(* mounts in the order in which they were made; `sub' is the directory of  *)
(* the file system that the mount shows at `at'.  A node is a place in a   *)
(* file system.                                                            *)
(***************************************************************************)
EXTENDS Integers, Sequences, SequencesExt, FiniteSetsExt

Mount(at, fs, sub, flags) == [at |-> at, fs |-> fs, sub |-> sub, flags |-> flags]

Node(fs, path) == [fs |-> fs, path |-> path]

Drop(p, n) == SubSeq(p, n + 1, Len(p))

Under(p, q) == IsPrefix(q, p)

(* The mount that a path leads into: the latest one above it.  A later     *)
(* mount on a directory hides the earlier ones beneath it.                 *)
Top(table, p) == Max({i \in DOMAIN table : Under(p, table[i].at)})

MountOf(table, p) == table[Top(table, p)]

Locate(table, p) ==
  LET m == MountOf(table, p) IN Node(m.fs, m.sub \o Drop(p, Len(m.at)))

Writable(table, p) == "ro" \notin MountOf(table, p).flags

IsMountPoint(table, p) == MountOf(table, p).at = p

mount(table, fs, p, flags) == Append(table, Mount(p, fs, <<>>, flags))

(* The mounts of a table at the given indices, in their order.             *)
Selected(table, indices) ==
  FlattenSeq([i \in DOMAIN table |-> IF i \in indices THEN <<table[i]>> ELSE <<>>])

(* What a recursive bind of p copies: the mounts under it that can still   *)
(* be reached.                                                             *)
Submounts(table, p) ==
  Selected(table, {i \in DOMAIN table : /\ Under(table[i].at, p) /\ table[i].at # p
                                        /\ Top(table, table[i].at) = i})

(* Mounts as they are, seen at other places.                               *)
Moved(table, place(_)) == [i \in DOMAIN table |-> [table[i] EXCEPT !.at = place(@)]]

(* bind: the copy has the flags of the original.                           *)
bind(table, p, q, recursive) ==
  LET n == Locate(table, p) IN
  Append(table, Mount(q, n.fs, n.path, MountOf(table, p).flags))
  \o (IF recursive THEN Moved(Submounts(table, p), LAMBDA a : q \o Drop(a, Len(p))) ELSE <<>>)

(* remount_ro: one mount, MS_REC or not, and its flags are the ones given. *)
remount_ro(table, p) == [table EXCEPT ![Top(table, p)].flags = {"ro"}]

(* pivot_root(".", "."): paths now start at the new root, and the old root *)
(* lies over it until it is detached.                                      *)
pivot_root(table, root) ==
  LET inside == Selected(table, {i \in DOMAIN table : Under(table[i].at, root)}) IN
  Append(Moved(inside, LAMBDA a : Drop(a, Len(root))), table[1])

umount_top(table) == SubSeq(table, 1, Len(table) - 1)
=============================================================================
