-------------------------------- MODULE DirTree --------------------------------
(* Paths, and the methods of DirTree (src/src/DirTree.cc) that a backend    *)
(* calls.  A path is the sequence of its names and a tree a function from   *)
(* paths to what is known of the entry.  Each method holds the mutex of all *)
(* trees, so each is one operator.                                          *)
EXTENDS Integers, SequencesExt

(* isPathOrDescendant *)
Under(path, ancestor) == IsPrefix(ancestor, path)

Parent(path) == Front(path)

(* A path below oldPath as it is called below newPath. *)
Rebased(path, oldPath, newPath) ==
  newPath \o SubSeq(path, Len(oldPath) + 1, Len(path))

Keep(tree, paths) == [path \in DOMAIN tree \cap paths |-> tree[path]]

(* add: an entry that is known keeps what is known of it. *)
Add(tree, path, value) ==
  [p \in DOMAIN tree \cup {path} |-> IF p \in DOMAIN tree THEN tree[p] ELSE value]

Below(tree, path) == {p \in DOMAIN tree : Under(p, path)}

(* extract: what is returned, and what is left. *)
Extracted(tree, path) == Keep(tree, Below(tree, path))
NotExtracted(tree, path) == Keep(tree, DOMAIN tree \ Below(tree, path))

(* remove: what is below goes only with a known directory. *)
TreeRemoved(tree, path) ==
  IF path \in DOMAIN tree /\ tree[path] = "dir"
    THEN NotExtracted(tree, path)
    ELSE Keep(tree, DOMAIN tree \ {path})

(* restore: entries taken out below oldPath are put back below newPath, over *)
(* what is there.                                                           *)
Restored(tree, entries, oldPath, newPath) ==
  [path \in {Rebased(p, oldPath, newPath) : p \in DOMAIN entries} |->
     entries[Rebased(path, newPath, oldPath)]] @@ tree
=============================================================================
