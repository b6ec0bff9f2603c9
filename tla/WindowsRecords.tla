---------------------------- MODULE WindowsRecords ----------------------------
(* What a subscription of the Windows backend (windows/WindowsBackend.cc)   *)
(* makes of a notification: a batch of records, each of which says that     *)
(* something was added, removed, modified or renamed at a path.  The        *)
(* subscription looks at the disk, keeps its tree and tells the client.     *)
(* The disk changes at any time: between the record and the look, and       *)
(* between two looks.  Paths that differ in case only are one path to the   *)
(* file system, not to the subscription.                                    *)
(*                                                                          *)
(* How the read, the thread and the stop of a subscription work, and the    *)
(* errors of a completion, is in Windows.                                   *)
EXTENDS Events, DirTree, FiniteSetsExt

CONSTANTS Name, Lower,   \* names, and each in lower case
          InitialDisk,   \* the trees there may be at first
          IgnoreOption,  \* the sets of paths a client may ask to ignore
          Spot,          \* the paths where changes are made
          MaxOps,        \* bound on the changes of the file system
          MaxRecords,    \* records that fit into the kernel's buffer
          MayOverlap     \* see Unlisted, Vacated and SeenEarly

ASSUME LowerAssumption == Lower \in [Name -> Name]

VARIABLES
  \* the file system and the kernel
  disk,      \* a function from the paths there are to [kind, rev, past]
  ops,       \* the number of changes so far
  records,   \* what the kernel has recorded since the last completion
  moved,     \* from where to where something was moved, with nothing replaced
  \* the subscription
  phase,     \* "scan", "on", "batch" or "overflowed"
  tree,      \* mTree, a function from paths to kinds
  batch,     \* the records of mReadBuffer that have yet to be processed
  mPendingRenamePath, \* or NoPath
  mRemovedPaths, mPreviousRemovedPaths,
  mRenameSequence,
  found,     \* the stack of readTree or of addPath
  opening,   \* the directory addPath lists next, or NoPath
  \* the client
  ignored,   \* its option: these paths are ignored, with all below them
  mEvents,   \* what it will be told
  copy       \* what it keeps of the tree, by what it was told

fsVars      == <<disk, ops, records, moved>>
removedVars == <<mRemovedPaths, mPreviousRemovedPaths>>
renameVars  == <<mPendingRenamePath, mRenameSequence, removedVars>>
addVars     == <<found, opening>>
clientVars  == <<ignored, copy>>
recordVars  == <<fsVars, phase, tree, batch, renameVars, addVars, clientVars, mEvents>>

Root == <<"root">>
Outside == <<"outside">>
NoPath == <<>>
None == [x \in {} |-> NoId]
Unread == 0    \* the contents of a file that was gone when it was read

InRoot(path) == Under(path, Root)
Ignored(path) == \E p \in ignored : Under(path, p)

(* Names of one length that the file system takes for the same. *)
SameName(a, b) == Lower[a] = Lower[b]
SamePath(p, q) == /\ Len(p) = Len(q) /\ p[1] = q[1]
                  /\ \A i \in 2 .. Len(p) : SameName(p[i], q[i])

(* What Watcher::isIgnored adds for ignored paths in other letters is left out. *)
ASSUME IgnoreAssumption ==
  \A path \in UNION IgnoreOption : \A i \in 2 .. Len(path), n \in Name :
    SameName(n, path[i]) => n = path[i]

(* One path is, or is below, the other. *)
Within(p, path) == Len(p) >= Len(path) /\ SamePath(SubSeq(p, 1, Len(path)), path)

(* The paths on the disk that a call finds which is given this one. *)
Spelled(path) == {p \in DOMAIN disk : SamePath(p, path)}
IsDir(path) == path \in DOMAIN disk /\ disk[path].kind = "dir"
Children(path) == {p \in DOMAIN disk : Len(p) = Len(path) + 1 /\ Under(p, path)}

(* GetFileAttributesEx; "special" is a reparse point or a device. *)
AttributesOf(path) == {disk[p].kind : p \in Spelled(path)}
Supported(path) == AttributesOf(path) \cap {"dir", "file"} # {}
Unsupported(path) == "special" \in AttributesOf(path)
KindAt(path) == CHOOSE kind \in AttributesOf(path) : TRUE

----------------------------------------------------------------------------
(* The file system and the kernel.  What does not fit is lost, and the      *)
(* completion says that something was.                                      *)
Record(action, path) == [action |-> action, path |-> path]
Lost == <<[action |-> "lost", path |-> Root]>>

Post(new) ==
  LET here == SelectSeq(new, LAMBDA r : InRoot(r.path))
  IN records' = IF records = Lost \/ Len(records) + Len(here) > MaxRecords
                  THEN Lost ELSE records \o here

Change == /\ ops < MaxOps /\ ops' = ops + 1
          /\ UNCHANGED <<phase, tree, batch, renameVars, addVars, clientVars, mEvents>>

(* What the subscription has yet to look at. *)
Recorded(action) ==
  {r.path : r \in {s \in Range(records) \cup Range(batch) : s.action = action}}
Looking == {p \in found \cup {opening} : p # NoPath}

(* Something below came, and the subscription has yet to see it there. *)
Unlisted(path) ==
  \/ \E p \in Looking : Within(p, path)
  \/ \E p \in Recorded("added") \cup Recorded("newName") : Within(p, path) /\ Len(p) > Len(path)

(* A rename from there is recorded, and has yet to be processed. *)
Vacated(path) ==
  \E p \in Recorded("oldName") \cup ({mPendingRenamePath} \ {NoPath}) : SamePath(p, path)

(* The tree has the outcome of a rename before the record of it is          *)
(* processed, or the client has it and is to be told that it was created.   *)
SeenEarly(path) ==
  LET told   == {k[1] : k \in {l \in DOMAIN mEvents : mEvents[l].isCreated}}
      client == DOMAIN copy \cup (told \ DOMAIN tree)
      Among(tops, paths) == \E p \in tops, q \in paths : Within(q, p) /\ Within(q, path)
  IN \/ Among(Recorded("newName") \cap DOMAIN tree, DOMAIN tree)
     \/ Among(Looking \cup told, client)

New(kind) == [kind |-> kind, rev |-> ops + 1, past |-> {}]

MakeEntry(path, kind) ==
  /\ Change /\ UNCHANGED moved /\ InRoot(path)
  /\ Spelled(path) = {} /\ IsDir(Parent(path))
  /\ MayOverlap \/ ~Vacated(path)
  /\ disk' = Add(disk, path, New(kind))
  /\ Post(<<Record("added", path)>>)

WriteFile(path) ==
  /\ Change /\ UNCHANGED moved /\ InRoot(path)
  /\ path \in DOMAIN disk /\ disk[path].kind = "file"
  /\ disk' = [disk EXCEPT ![path].rev = ops + 1]
  /\ Post(<<Record("modified", path)>>)

DeleteEntry(path) ==
  /\ Change /\ UNCHANGED moved /\ InRoot(path)
  /\ path \in DOMAIN disk /\ Children(path) = {} /\ (MayOverlap \/ ~SeenEarly(path))
  /\ disk' = NotExtracted(disk, path)
  /\ Post(<<Record("removed", path)>>)

(* A rename within the watched tree is a pair of records; from one          *)
(* directory to another it may be a removal and an addition.  A removal of  *)
(* what it replaces comes first, and may come first if only the case of the *)
(* name changes.                                                            *)
MoveRecords(from, to) ==
  LET pair == <<Record("oldName", from), Record("newName", to)>>
      apart == <<Record("removed", from), Record("added", to)>>
      moves == IF ~InRoot(from) \/ ~InRoot(to) THEN {apart}
               ELSE {pair} \cup (IF Parent(from) = Parent(to) THEN {} ELSE {apart})
      first == IF to \in DOMAIN disk THEN {<<Record("removed", to)>>}
               ELSE IF SamePath(from, to) THEN {<<>>, <<Record("removed", from)>>}
               ELSE {<<>>}
  IN {f \o m : f \in first, m \in moves}

Moved(path) == [disk[path] EXCEPT !.past = @ \cup {path}]

MoveEntry(from, to) ==
  LET below == Below(disk, from)
      taken == [p \in below |-> Moved(p)]
  IN /\ Change
     /\ from \in DOMAIN disk /\ IsDir(Parent(to)) /\ (InRoot(from) \/ InRoot(to))
     /\ from # to /\ ~Under(to, from)
     /\ {Rebased(p, from, to) : p \in below} \subseteq Spot
     /\ Spelled(to) \subseteq {from, to}
     /\ to \in DOMAIN disk => disk[to].kind # "dir" /\ disk[from].kind # "dir"
     /\ MayOverlap \/ ~(Unlisted(from) \/ Vacated(to) \/ SeenEarly(from) \/ SeenEarly(to))
     /\ disk' = Restored(NotExtracted(disk, from), taken, from, to)
     /\ moved' = IF to \in DOMAIN disk THEN moved
                 ELSE moved \cup UNION {{<<old, Rebased(p, from, to)>> : old \in Moved(p).past}
                                          : p \in below}
     /\ \E new \in MoveRecords(from, to) : Post(new)

----------------------------------------------------------------------------
(* Subscription::run: the read is issued, then readTree lists the           *)
(* directories on its stack.  Files that come and go meanwhile are recorded. *)
Listed(path) == {p \in Children(path) : ~Ignored(p) /\ Supported(p)}

ReadDirectory(path) ==
  /\ phase = "scan" /\ path \in found
  /\ IF IsDir(path)
       THEN /\ tree' = tree @@ [p \in Listed(path) |-> disk[p].kind]
            /\ found' = (found \ {path}) \cup {p \in Listed(path) : IsDir(p)}
       ELSE tree' = TreeRemoved(tree, path) /\ found' = found \ {path}
  /\ UNCHANGED <<fsVars, phase, batch, renameVars, opening, clientVars, mEvents>>

(* What there is to know. *)
Look == [p \in {q \in DOMAIN disk : InRoot(q) /\ q # Root /\ ~Ignored(q) /\ Supported(q)}
           |-> [kind |-> disk[p].kind, rev |-> disk[p].rev]]

ReadNow(path, kind) ==
  [kind |-> kind, rev |-> IF path \in DOMAIN disk THEN disk[path].rev ELSE Unread]

(* The client starts from what the subscription has found. *)
ScanEnds ==
  /\ phase = "scan" /\ found = {}
  /\ phase' = "on"
  /\ copy' = [p \in DOMAIN tree |-> ReadNow(p, tree[p])]
  /\ UNCHANGED <<fsVars, tree, batch, renameVars, addVars, ignored, mEvents>>

(* failOverflow, and a new subscription after it. *)
Overflow ==
  /\ phase = "on" /\ records = Lost
  /\ phase' = "overflowed"
  /\ UNCHANGED <<fsVars, tree, batch, renameVars, addVars, clientVars, mEvents>>

Resubscribe ==
  /\ phase = "overflowed" /\ phase' = "scan"
  /\ records' = <<>>
  /\ tree' = None /\ found' = {Root} /\ mEvents' = None /\ copy' = None
  /\ mPendingRenamePath' = NoPath /\ mRenameSequence' = 0
  /\ mRemovedPaths' = {} /\ mPreviousRemovedPaths' = {}
  /\ UNCHANGED <<disk, ops, moved, batch, opening, ignored>>

----------------------------------------------------------------------------
(* processEvents.  The completion has what was recorded when its read was   *)
(* issued, or the first thing that was recorded afterwards.                 *)
Complete(n) ==
  /\ phase = "on" /\ records # Lost /\ n \in 1 .. Len(records)
  /\ phase' = "batch"
  /\ batch' = SubSeq(records, 1, n)
  /\ records' = SubSeq(records, n + 1, Len(records))
  /\ mPreviousRemovedPaths' = mRemovedPaths /\ mRemovedPaths' = {}
  /\ UNCHANGED <<disk, ops, moved, tree, mPendingRenamePath, mRenameSequence, addVars,
                 clientVars, mEvents>>

Key(path, kind) == <<path, kind>>

(* The tree and the events together. *)
AsIs == [tree |-> tree, events |-> mEvents]
Becomes(new) == tree' = new.tree /\ mEvents' = new.events

(* mutant: what was below is not told of *)
ItselfRemoved(old, path) ==
  [tree |-> NotExtracted(old.tree, path),
   events |-> IF path \in DOMAIN old.tree THEN Removed(old.events, Key(path, old.tree[path]))
                                          ELSE old.events]

(* removePath *)
PathRemoved(old, path) ==
  LET gone == Extracted(old.tree, path)
  IN [tree |-> NotExtracted(old.tree, path),
      events |-> FoldSet(LAMBDA p, events : Removed(events, Key(p, gone[p])),
                         old.events, DOMAIN gone)]

(* mutant: the path is forgotten, what is there stays *)
Forgotten == AsIs

(* flushPendingRename *)
Flushed == IF mPendingRenamePath = NoPath THEN AsIs
           ELSE PathRemoved(AsIs, mPendingRenamePath)

(* processEvent, for the next record *)
Path == Head(batch).path

Processes == /\ phase = "batch" /\ batch # <<>> /\ found = {} /\ opening = NoPath
             /\ batch' = Tail(batch)
             /\ UNCHANGED <<fsVars, phase, opening, clientVars>>

Handles(action) == Processes /\ ~Ignored(Path) /\ Head(batch).action = action

Flush == mPendingRenamePath' = NoPath

HandleIgnored ==
  /\ Processes /\ Ignored(Path)
  /\ Flush /\ Becomes(Flushed)
  /\ UNCHANGED <<mRenameSequence, removedVars, found>>

HandleAdded ==
  /\ Handles("added")
  /\ Flush /\ Becomes(Flushed)
  /\ mRemovedPaths' = mRemovedPaths \ {Path}
  /\ mPreviousRemovedPaths' = mPreviousRemovedPaths \ {Path}
  /\ found' = {Path}
  /\ UNCHANGED mRenameSequence

HandleModified ==
  LET known == Supported(Path) /\ Path \in DOMAIN Flushed.tree
  IN /\ Handles("modified")
     /\ Flush
     /\ Becomes([tree |-> Flushed.tree,
                 events |-> IF known /\ KindAt(Path) = "file"
                              THEN Updated(Flushed.events, Key(Path, "file"))
                              ELSE Flushed.events])
     /\ UNCHANGED <<mRenameSequence, removedVars, found>>

(* If the path is there in other letters, the case of its name changed. *)
Respelled(path) == {Append(Parent(path), Last(p)) : p \in {q \in Spelled(path) :
                                                             Last(q) # Last(path)}}

HandleRemoved ==
  /\ Handles("removed")
  /\ Flush /\ Becomes(PathRemoved(Flushed, Path))
  /\ mRemovedPaths' = mRemovedPaths \cup {Path}
  /\ found' = Respelled(Path)
  /\ UNCHANGED <<mRenameSequence, mPreviousRemovedPaths>>

HandleOldName ==
  /\ Handles("oldName")
  /\ mPendingRenamePath' = Path /\ Becomes(Flushed)
  /\ UNCHANGED <<mRenameSequence, removedVars, found>>

(* mutant: a target whose removal was processed already is not seen *)
TargetIsKnown == Path \in DOMAIN tree

(* The other half of a rename: what the tree has under the old path moves,  *)
(* also if a later rename has taken it away from the new path already.      *)
TargetExisted == Path \in DOMAIN tree \cup mRemovedPaths \cup mPreviousRemovedPaths

MovedEvents(entries, from, to) ==
  LET id == mRenameSequence + 1
      Told(p, events) ==
        LET new  == Rebased(p, from, to)
            gone == Removed(events, Key(p, entries[p]))
        IN IF Unsupported(to) \/ Ignored(new) THEN gone
             ELSE IF TargetExisted THEN Created(gone, Key(new, entries[p]))
             ELSE Renamed(events, Key(p, entries[p]), Key(new, entries[p]),
                          <<id, SubSeq(p, Len(from) + 1, Len(p))>>)
  IN FoldSet(Told, mEvents, DOMAIN entries)

HandlePair ==
  LET old      == mPendingRenamePath
      entries  == Extracted(tree, old)
      visible  == Keep(entries, {p \in DOMAIN entries : ~Ignored(Rebased(p, old, Path))})
      freed    == IF TargetExisted THEN TreeRemoved(NotExtracted(tree, old), Path)
                                   ELSE NotExtracted(tree, old)
      restored == IF Unsupported(Path) THEN freed ELSE Restored(freed, visible, old, Path)
      told     == MovedEvents(entries, old, Path)
      appears  == Supported(Path) /\ Path \notin DOMAIN restored
      none     == DOMAIN entries = {}
  IN /\ Handles("newName") /\ mPendingRenamePath # NoPath
     /\ Flush /\ mRenameSequence' = mRenameSequence + 1
     /\ IF Path \in DOMAIN tree THEN UNCHANGED removedVars
        ELSE /\ mRemovedPaths' = mRemovedPaths \ {Path}
             /\ mPreviousRemovedPaths' = IF Path \in mRemovedPaths THEN mPreviousRemovedPaths
                                         ELSE mPreviousRemovedPaths \ {Path}
     /\ Becomes([tree |-> IF appears THEN Add(restored, Path, KindAt(Path)) ELSE restored,
                 events |-> IF appears /\ none THEN Created(told, Key(Path, KindAt(Path)))
                                               ELSE told])
     /\ found' = IF Supported(Path) /\ KindAt(Path) = "dir" /\ (none \/ ignored # {})
                   THEN {Path} ELSE {}

HandleNewName ==
  /\ Handles("newName") /\ mPendingRenamePath = NoPath
  /\ found' = IF Supported(Path) THEN {Path} ELSE {}
  /\ UNCHANGED <<renameVars, tree, mEvents>>

BatchEnds ==
  /\ phase = "batch" /\ batch = <<>> /\ found = {} /\ opening = NoPath
  /\ phase' = "on"
  /\ Flush /\ Becomes(Flushed)
  /\ mPreviousRemovedPaths' = {}
  /\ UNCHANGED <<fsVars, batch, mRenameSequence, mRemovedPaths, addVars, clientVars>>

----------------------------------------------------------------------------
(* addPath looks at what is on its stack, and lists what is a directory.    *)
AddPath(path) ==
  LET known == ~Ignored(path) /\ Supported(path)
  IN /\ phase = "batch" /\ path \in found /\ opening = NoPath
     /\ found' = found \ {path}
     /\ opening' = IF known /\ KindAt(path) = "dir" THEN path ELSE NoPath
     /\ IF known /\ path \notin DOMAIN tree
          THEN Becomes([tree |-> Add(tree, path, KindAt(path)),
                        events |-> Created(mEvents, Key(path, KindAt(path)))])
          ELSE UNCHANGED <<tree, mEvents>>
     /\ UNCHANGED <<fsVars, phase, batch, renameVars, clientVars>>

ListPath ==
  /\ opening # NoPath /\ opening' = NoPath
  /\ found' = found \cup UNION {{Append(opening, Last(p)) : p \in Children(q)}
                                : q \in {r \in Spelled(opening) : IsDir(r)}}
  /\ UNCHANGED <<fsVars, phase, tree, batch, renameVars, clientVars, mEvents>>

(* The client is told: it forgets what is deleted and reads what is created *)
(* or updated, unless that is gone again.                                   *)
Told(types) == {k \in Reported(mEvents) : TypeOf(mEvents[k]) \in types}

Drain ==
  /\ phase \in {"on", "batch"} /\ mEvents # None
  /\ LET read == Told({"create", "update"})
         kept == DOMAIN copy \ {k[1] : k \in Told({"delete"}) \cup read}
     IN copy' = [p \in kept \cup {k[1] : k \in read} |->
                   IF p \in kept THEN copy[p]
                   ELSE ReadNow(p, IF <<p, "dir">> \in read THEN "dir" ELSE "file")]
  /\ mEvents' = None
  /\ UNCHANGED <<fsVars, phase, tree, batch, renameVars, addVars, ignored>>

----------------------------------------------------------------------------
RecordsInit ==
  /\ disk \in InitialDisk /\ ignored \in IgnoreOption
  /\ ops = 0 /\ records = <<>> /\ moved = {}
  /\ phase = "scan" /\ tree = None /\ batch = <<>>
  /\ mPendingRenamePath = NoPath /\ mRenameSequence = 0
  /\ mRemovedPaths = {} /\ mPreviousRemovedPaths = {}
  /\ found = {Root} /\ opening = NoPath
  /\ mEvents = None /\ copy = None

FileSystem ==
  \E path \in Spot :
    \/ \E kind \in {"dir", "file", "special"} : MakeEntry(path, kind)
    \/ WriteFile(path) \/ DeleteEntry(path)
    \/ \E to \in Spot : MoveEntry(path, to)

Scanning == ScanEnds \/ \E path \in found : ReadDirectory(path)

Processing ==
  \/ \E n \in 1 .. Len(records) : Complete(n)
  \/ HandleIgnored \/ HandleAdded \/ HandleModified \/ HandleRemoved
  \/ HandleOldName \/ HandlePair \/ HandleNewName
  \/ ListPath \/ \E path \in found : AddPath(path)
  \/ BatchEnds

RecordsNext == FileSystem \/ Scanning \/ Overflow \/ Resubscribe \/ Processing \/ Drain

RecordsSpec == RecordsInit /\ [][RecordsNext]_recordVars

----------------------------------------------------------------------------
(* All records are processed. *)
Quiet == phase = "on" /\ records = <<>>

(* The subscription's tree is the one on the disk then, in the letters of   *)
(* the disk, although processEvent and addPath ask the disk later than the  *)
(* record was made and mPendingRenamePath waits for a record that may come  *)
(* with another completion, or never.                                       *)
TreeIsDisk == Quiet => tree = [p \in DOMAIN Look |-> Look[p].kind]

(* A client that forgets what it is told was deleted and reads what was     *)
(* created or updated has the tree and the last state of every file when    *)
(* all is processed and told: what removePath, addPath and a pair of        *)
(* records put into mEvents makes up for every change to mTree.             *)
CopyIsRight ==
  Quiet /\ mEvents = None =>
    /\ DOMAIN copy = DOMAIN Look
    /\ \A p \in DOMAIN Look : /\ copy[p].kind = Look[p].kind
                              /\ copy[p].kind = "file" => copy[p].rev \in {Look[p].rev, Unread}

(* Two events with one id are about one file or directory that was moved    *)
(* from the deleted path to the created one, where nothing was before; or   *)
(* about one path in other letters, after the directory's were changed.     *)
(* What targetExisted remembers of a replaced file in mRemovedPaths and in  *)
(* mPreviousRemovedPaths keeps a replacement from being told as a rename.   *)
RenamesAreMoves ==
  \A gone, new \in Batch(mEvents) :
    (/\ gone.renameId # NoId /\ gone.renameId = new.renameId
     /\ gone.type = "delete" /\ new.type = "create")
      => \/ <<gone.entry[1], new.entry[1]>> \in moved
         \/ SamePath(gone.entry[1], new.entry[1])
=============================================================================
