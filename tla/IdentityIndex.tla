---------------------------- MODULE IdentityIndex ----------------------------
(* The methods of IdentityIndex (src/src/macos/IdentityIndex.cc): what is   *)
(* known of the paths of a tree, and, the other way round, which paths an   *)
(* identity (a device and an inode) has.  An entry is a record with the     *)
(* fields identity, mtime, linkCount and isDirectory.                       *)
EXTENDS DirTree, FiniteSets

NoEntries == [path \in {} |-> 0]
EmptyIndex == [byPath |-> NoEntries, byIdentity |-> NoEntries]

Indexed(index) == DOMAIN index.byPath

PathsOf(index, identity) ==
  IF identity \in DOMAIN index.byIdentity THEN index.byIdentity[identity] ELSE {}

PathCount(index, identity) == Cardinality(PathsOf(index, identity))

(* removeExact, of each of some paths. *)
RemoveExact(index, paths) ==
  LET known    == paths \cap Indexed(index)
      left(id) == index.byIdentity[id]
                    \ {path \in known : index.byPath[path].identity = id}
  IN [byPath     |-> [path \in Indexed(index) \ known |-> index.byPath[path]],
      byIdentity |-> [id \in {i \in DOMAIN index.byIdentity : left(i) # {}} |-> left(id)]]

Put(index, path, entry) ==
  [byPath |-> [p \in Indexed(index) \cup {path} |->
                 IF p = path THEN entry ELSE index.byPath[p]],
   byIdentity |-> [id \in DOMAIN index.byIdentity \cup {entry.identity} |->
                     IF id = entry.identity THEN PathsOf(index, id) \cup {path}
                                            ELSE index.byIdentity[id]]]

(* mutant: a path that gets another identity stays with the one it had *)
PutOver(index, path, entry) == Put(index, path, entry)

(* add *)
AddEntry(index, path, entry) == Put(RemoveExact(index, {path}), path, entry)

(* remove: a directory, or what is not known itself, goes with all below it. *)
RemoveTree(index, path) ==
  RemoveExact(index, IF path \in Indexed(index) /\ ~index.byPath[path].isDirectory
                       THEN {path} ELSE Below(index.byPath, path))

(* rename, of what is not a directory: its callers rename nothing else. *)
RenameFile(index, oldPath, newPath) ==
  AddEntry(RemoveExact(index, {oldPath}), newPath, index.byPath[oldPath])

(* Both maps say the same. *)
Agree(index) ==
  /\ DOMAIN index.byIdentity = {index.byPath[path].identity : path \in Indexed(index)}
  /\ \A id \in DOMAIN index.byIdentity :
       index.byIdentity[id] = {path \in Indexed(index) : index.byPath[path].identity = id}
=============================================================================
