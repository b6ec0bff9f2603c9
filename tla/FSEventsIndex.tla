---------------------------- MODULE FSEventsIndex ----------------------------
(* What the macOS backend (src/src/macos/FSEventsBackend.cc) makes of a     *)
(* batch of file system events: FSEvents says which paths something         *)
(* happened to and, in flags that add up, what; the backend looks at the    *)
(* disk, compares with its index and tells the client.  The disk changes at *)
(* any time: between the event and the look, and between two looks.         *)
(*                                                                          *)
(* The stream itself, and the loss of the root, are in FSEvents.            *)
EXTENDS Events, IdentityIndex, FiniteSetsExt

CONSTANTS InitialDisk,   \* the trees there may be at first
          IgnoreOption,  \* the sets of paths a client may ask to ignore
          Name,
          MaxDepth,      \* bound on the length of a path
          MaxDrops,      \* bound on the number of times that events are dropped
          Time,          \* a sequence: when each change is made; bounds them
          MayReuse       \* see Reused

VARIABLES
  \* the file system and FSEvents
  disk,     \* a function from the paths there are to what stat says of them
  ops,      \* the number of changes so far
  drops,    \* how often events were dropped so far
  undelivered, \* the events that are not delivered yet
  \* the backend
  index,    \* State::identities
  tree,     \* State::tree, a function from paths to "dir" or a time
  phase,    \* of the backend: "scan" before the first scan is over, "on",
            \* "look", "pair" and "handle" for a batch, "error"
  batch,    \* the events that have yet to be handled
  removed, created,  \* the candidates of correlateRenames
  handled,  \* the paths it has renamed
  job,      \* what is scanned, or NoJob
  found,    \* entries the scan has read and not returned yet
  opening,  \* directories it has returned and not opened yet
  scanned,  \* the index it makes
  newTree,
  \* the client
  ignored,  \* its option: these paths are ignored, with all below them
  mEvents,  \* what it will be told
  copy,     \* what it keeps of the tree, by what it was told
  moved     \* from where to where something was ever moved or linked, for the
            \* properties

fsVars     == <<disk, ops, drops, undelivered, moved>>
stateVars  == <<index, tree, mEvents>>
renameVars == <<removed, created, handled>>
scanVars   == <<job, found, opening, scanned, newTree>>
clientVars == <<ignored, copy>>
indexVars  == <<fsVars, stateVars, phase, batch, renameVars, scanVars, clientVars>>

Root == <<"root">>
Outside == <<"outside">>
NoJob == [for |-> "none"]
None == [x \in {} |-> 0]

InRoot(path) == Under(path, Root)
Ignored(path) == \E p \in ignored : Under(path, p)
Path == {Root \o s : s \in UNION {[1 .. n -> Name] : n \in 1 .. MaxDepth - 1}}
OutsidePath == {Outside \o <<name>> : name \in Name}

Children(path) == {p \in DOMAIN disk : Len(p) = Len(path) + 1 /\ Under(p, path)}
IsDir(path) == path \in DOMAIN disk /\ disk[path].isDirectory

(* fromStat: what the index keeps of a stat. *)
Stat(path) == [identity |-> disk[path].identity, mtime |-> disk[path].mtime,
               linkCount |-> disk[path].linkCount, isDirectory |-> disk[path].isDirectory]

----------------------------------------------------------------------------
(* The file system and FSEvents.  Flags for one path add up while they are  *)
(* waiting; the event keeps its place or gets a later one.                  *)
Flagged(events, path, flags) ==
  LET at == {i \in DOMAIN events : events[i].path = path}
      old == UNION {events[i].flags : i \in at}
      event == [path |-> path, flags |-> old \cup flags]
  IN IF ~InRoot(path) THEN {events}
     ELSE IF at = {} THEN {Append(events, event)}
     ELSE LET i == CHOOSE i \in at : TRUE
          IN {[events EXCEPT ![i] = event], Append(RemoveAt(events, i), event)}

Flag(isDir) == IF isDir THEN {"isDir"} ELSE {}

Post(path, flags) == undelivered' \in Flagged(undelivered, path, flags)
PostBoth(from, to, flags) ==
  undelivered' \in UNION {Flagged(events, to, flags) : events \in Flagged(undelivered, from, flags)}

DiskChange == /\ ops < Len(Time) /\ ops' = ops + 1
          /\ UNCHANGED <<drops, stateVars, phase, batch, renameVars, scanVars, clientVars>>
Now == Time[ops + 1]

(* The backend has yet to see that what it has found at path was moved away. *)
HasIdentity(entries, path, identity) ==
  path \in DOMAIN entries /\ entries[path].identity = identity
Reused(path) ==
  \E p \in DOMAIN disk \ {path} :
    /\ ~HasIdentity(index.byPath, p, disk[p].identity)
    /\ \E entries \in {index.byPath, scanned.byPath, found} :
         HasIdentity(entries, path, disk[p].identity)
MayAppear(path) == /\ IsDir(Parent(path)) /\ (MayReuse \/ ~Reused(path))

MakeEntry(path, isDir) ==
  /\ DiskChange /\ UNCHANGED moved
  /\ path \notin DOMAIN disk /\ MayAppear(path)
  /\ disk' = Add(disk, path, [identity |-> Now, mtime |-> IF isDir THEN "dir" ELSE Now,
                              linkCount |-> 1, isDirectory |-> isDir, rev |-> Now, past |-> {}])
  /\ Post(path, {"created"} \cup Flag(isDir))

(* What is written, or has its mode changed, is another to the client; the  *)
(* time of a directory is left out.                                         *)
SetFile(path, mtime) ==
  disk' = [p \in DOMAIN disk |->
             IF disk[p].identity = disk[path].identity
               THEN [disk[p] EXCEPT !.mtime = mtime, !.rev = Now] ELSE disk[p]]

WriteFile(path) ==
  /\ DiskChange /\ UNCHANGED moved
  /\ path \in DOMAIN disk /\ ~IsDir(path) /\ disk[path].linkCount = 1
  /\ SetFile(path, Now)
  /\ Post(path, {"modified"})

ChangeMode(path) ==
  /\ DiskChange /\ UNCHANGED moved
  /\ path \in DOMAIN disk /\ ~IsDir(path) /\ disk[path].linkCount = 1
  /\ SetFile(path, disk[path].mtime)
  /\ Post(path, {"meta"})

(* A name of a file comes or goes: all the others have another link count. *)
Linked(names, identity, links) ==
  [p \in DOMAIN names |-> IF names[p].identity = identity
                            THEN [names[p] EXCEPT !.linkCount = links] ELSE names[p]]
Unlinked(path) ==
  LET rest == NotExtracted(disk, path)
  IN IF path \in DOMAIN disk
       THEN Linked(rest, disk[path].identity, disk[path].linkCount - 1) ELSE disk

(* Each entry knows where it was, which the program does not. *)
Origin(path) == disk[path].past \cup {path}

LinkFile(path, to) ==
  /\ DiskChange
  /\ path \in DOMAIN disk /\ ~IsDir(path) /\ disk[path].linkCount = 1
  /\ to \notin DOMAIN disk /\ MayAppear(to)
  /\ disk' = Linked(Add(disk, to, [disk[path] EXCEPT !.past = Origin(path)]),
                    disk[path].identity, 2)
  /\ moved' = moved \cup (Origin(path) \X {to})
  /\ Post(to, {"created"})

DeleteEntry(path) ==
  /\ DiskChange /\ UNCHANGED moved
  /\ path \in DOMAIN disk \ {Root, Outside} /\ Children(path) = {}
  /\ disk' = Unlinked(path)
  /\ Post(path, {"removed"} \cup Flag(IsDir(path)))

Moved(entries) == [p \in DOMAIN entries |-> [entries[p] EXCEPT !.past = Origin(p)]]

MoveEntry(from, to) ==
  LET rest    == Unlinked(to)
      entries == Moved(Extracted(rest, from))
  IN /\ DiskChange
     /\ from \in DOMAIN disk \ {Root, Outside} /\ MayAppear(to) /\ ~Under(to, from)
     /\ InRoot(from) \/ InRoot(to)
     /\ \A p \in DOMAIN entries : Len(Rebased(p, from, to)) <= MaxDepth
     /\ to \in DOMAIN disk => /\ IsDir(to) = IsDir(from) /\ Children(to) = {}
                              /\ disk[to].identity # disk[from].identity
     /\ disk' = Restored(NotExtracted(rest, from), entries, from, to)
     /\ moved' = moved \cup UNION {entries[p].past \X {Rebased(p, from, to)} : p \in DOMAIN entries}
     /\ PostBoth(from, to, {"renamed"} \cup Flag(IsDir(from)))

(* FSEvents drops events; what only its flags can tell is not among them. *)
DropEvents ==
  /\ drops < MaxDrops /\ drops' = drops + 1
  /\ undelivered # <<>> /\ \A i \in DOMAIN undelivered : "meta" \notin undelivered[i].flags
  /\ undelivered' = <<[path |-> Root, flags |-> {"rescan"}]>>
  /\ UNCHANGED <<disk, ops, moved, stateVars, phase, batch, renameVars, scanVars, clientVars>>

----------------------------------------------------------------------------
(* The backend.  S stands for the index, the tree and the client's events   *)
(* while they are changed together.                                         *)
EntryKind(isDirectory) == IF isDirectory THEN "dir" ELSE "file"
Key(path, isDirectory) == <<path, EntryKind(isDirectory)>>
Known(path) == path \in Indexed(index)

AsIs == [index |-> index, tree |-> tree, events |-> mEvents]
Becomes(S) == index' = S.index /\ tree' = S.tree /\ mEvents' = S.events

FoldPaths(Op(_, _), events, paths) == FoldSet(LAMBDA p, acc : Op(acc, p), events, paths)

(* removeIndexedPath *)
RemovedPath(S, path) ==
  LET entries == S.index.byPath
      gone    == IF entries[path].isDirectory THEN Below(entries, path) ELSE {path}
  IN IF path \notin DOMAIN entries THEN S
     ELSE [index  |-> RemoveTree(S.index, path),
           tree   |-> TreeRemoved(S.tree, path),
           events |-> FoldPaths(LAMBDA acc, p : Removed(acc, Key(p, entries[p].isDirectory)),
                                S.events, gone)]

(* DirTree::update, or else add. *)
Recorded(entries, path, mtime) == [p \in DOMAIN entries \cup {path} |->
                                     IF p = path THEN mtime ELSE entries[p]]

SameEntry(previous, entry) == /\ previous.identity = entry.identity
                              /\ previous.isDirectory = entry.isDirectory

(* recordCreatedPath: flags of a creation come again after it was told, so  *)
(* it is the index that tells a new entry from another or a changed one.    *)
RecordedPath(S, path, entry) ==
  LET isKnown  == path \in Indexed(S.index)
      previous == S.index.byPath[path]
      same     == isKnown /\ SameEntry(previous, entry)
      ofType   == isKnown /\ previous.isDirectory = entry.isDirectory
      isFile   == ofType /\ ~entry.isDirectory
      rest     == IF isKnown /\ ~ofType THEN RemovedPath(S, path)
                  ELSE IF same THEN S
                  ELSE [S EXCEPT !.tree = TreeRemoved(@, path)]
      key      == Key(path, entry.isDirectory)
  IN [index  |-> AddEntry(rest.index, path, entry),
      tree   |-> Recorded(rest.tree, path, entry.mtime),
      events |-> IF isFile /\ (~same \/ previous.mtime # entry.mtime)
                   THEN Updated(rest.events, key)
                 ELSE IF ~same THEN Created(rest.events, key)
                 ELSE rest.events]

(* scanIdentityIndex begins. *)
BeginScan(purpose, path) ==
  /\ job' = [for |-> purpose, path |-> path]
  /\ found' = [p \in {path} |-> Stat(p)]
  /\ opening' = {}
  /\ scanned' = EmptyIndex /\ newTree' = None

(* addCreatedPath: a directory comes with all below it. *)
AddCreatedPath(path) ==
  IF path \notin DOMAIN disk
    THEN UNCHANGED <<stateVars, scanVars>>
  ELSE IF IsDir(path)
    THEN BeginScan("create", path) /\ UNCHANGED stateVars
  ELSE Becomes(RecordedPath(AsIs, path, Stat(path))) /\ UNCHANGED scanVars

UnchangedByScan == <<fsVars, phase, batch, renameVars, clientVars>>

(* fts_read returns an entry; what it is was read with its directory. *)
Return(path) ==
  /\ path \in DOMAIN found
  /\ found' = Keep(found, DOMAIN found \ {path})
  /\ opening' = opening \cup (IF found[path].isDirectory THEN {path} ELSE {})
  /\ IF job.for = "create"
       THEN /\ Becomes(RecordedPath(AsIs, path, found[path]))
            /\ UNCHANGED <<scanned, newTree>>
       ELSE /\ scanned' = AddEntry(scanned, path, found[path])
            /\ newTree' = Add(newTree, path, found[path].mtime)
            /\ UNCHANGED stateVars
  /\ UNCHANGED <<UnchangedByScan, job>>

(* It opens a directory and reads what is in there.  One that is gone is    *)
(* passed over ...                                                          *)
Open(path) ==
  /\ path \in opening /\ (path # job.path \/ IsDir(path))
  /\ opening' = opening \ {path}
  /\ LET names == IF IsDir(path) THEN {p \in Children(path) : ~Ignored(p)} ELSE {}
     IN found' = [p \in DOMAIN found \cup names |->
                    IF p \in DOMAIN found THEN found[p] ELSE Stat(p)]
  /\ UNCHANGED <<UnchangedByScan, stateVars, job, scanned, newTree>>

(* ... but the first one, which is an error for the client. *)
OpenFails(path) ==
  /\ path \in opening /\ path = job.path /\ ~IsDir(path)
  /\ phase' = "error"
  /\ UNCHANGED <<fsVars, stateVars, batch, renameVars, scanVars, clientVars>>

Scanned == job # NoJob /\ DOMAIN found = {} /\ opening = {}
NoScan == job' = NoJob /\ scanned' = EmptyIndex /\ newTree' = None /\ UNCHANGED <<found, opening>>

(* What a client is to see. *)
Look == [p \in {q \in DOMAIN disk : InRoot(q) /\ ~Ignored(q)} |-> disk[p]]

(* What the client has of a file that was gone when it read it. *)
Unread == "unread"

(* startStream: the first scan is the index, and what the client starts     *)
(* with; it has read the files.                                             *)
Start(path) == [isDirectory |-> scanned.byPath[path].isDirectory,
                rev |-> IF path \in DOMAIN disk THEN disk[path].rev ELSE Unread]

SubscribeScanned ==
  /\ Scanned /\ job.for = "subscribe"
  /\ index' = scanned /\ tree' = newTree /\ phase' = "on"
  /\ copy' = [p \in Indexed(scanned) |-> Start(p)]
  /\ NoScan
  /\ UNCHANGED <<fsVars, mEvents, batch, renameVars, ignored>>

CreatedScanned ==
  /\ Scanned /\ job.for = "create"
  /\ NoScan
  /\ UNCHANGED <<UnchangedByScan, stateVars>>

----------------------------------------------------------------------------
(* reconcileFullTree: paths that have another identity now than in the      *)
(* index ...                                                                *)
Differs(one, other) ==
  {p \in Indexed(one) : /\ p \in Indexed(other) => one.byPath[p].identity # other.byPath[p].identity}
Gone == Differs(index, scanned)
New == Differs(scanned, index)

(* ... where an identity went from one path to one that was free.  Neither  *)
(* may have another path, nor a file another link.                          *)
OnlyOne(candidates, path, entries) ==
  \A p \in candidates : entries.byPath[p].identity = entries.byPath[path].identity => p = path

PossibleRenames ==
  {pair \in Gone \X New :
     LET old == index.byPath[pair[1]]  new == scanned.byPath[pair[2]]
     IN /\ old.identity = new.identity /\ old.isDirectory = new.isDirectory
        /\ OnlyOne(Gone, pair[1], index) /\ OnlyOne(New, pair[2], scanned)
        /\ PathCount(index, old.identity) = 1 /\ PathCount(scanned, old.identity) = 1
        /\ pair[2] \notin Indexed(index)
        /\ ~old.isDirectory => old.linkCount = 1 /\ new.linkCount = 1}

(* A directory takes what is below it along: the pairs of its descendants   *)
(* are not looked for but follow from its own, the shortest path first.     *)
Covers(dir, pair) ==
  /\ index.byPath[dir[1]].isDirectory /\ dir # pair /\ Under(pair[1], dir[1])
  /\ pair[2] = Rebased(pair[1], dir[1], dir[2])

AcceptedRenames ==
  {pair \in PossibleRenames : \A dir \in PossibleRenames : ~Covers(dir, pair)}

Descendants ==
  {pair \in Gone \X Indexed(scanned) :
     /\ \E dir \in AcceptedRenames : Covers(dir, pair)
     /\ SameEntry(index.byPath[pair[1]], scanned.byPath[pair[2]])}

RenamedPaths == AcceptedRenames \cup Descendants

(* renameSequence: an id that no pending event has. *)
FreshId(events) ==
  CHOOSE n \in 1 .. Cardinality(DOMAIN events) + 1 : \A k \in DOMAIN events : events[k].renameId # n

AllRenamed(events) ==
  FoldSet(LAMBDA pair, acc :
            Renamed(acc, Key(pair[1], index.byPath[pair[1]].isDirectory),
                         Key(pair[2], index.byPath[pair[1]].isDirectory),
                    FreshId(acc)),
          events, RenamedPaths)

(* The rest is removed, created, or of another identity; and what keeps its *)
(* identity may have been written to.                                       *)
AllRemoved(events) ==
  FoldPaths(LAMBDA acc, p : Removed(acc, Key(p, index.byPath[p].isDirectory)), events,
            {p \in Gone \ {pair[1] : pair \in RenamedPaths} :
               \/ index.byPath[p].isDirectory
               \/ p \notin Indexed(scanned) \/ scanned.byPath[p].isDirectory})

Replaced(p) == p \in Indexed(index) /\ ~index.byPath[p].isDirectory /\ ~scanned.byPath[p].isDirectory

AllCreated(events) ==
  FoldPaths(LAMBDA acc, p :
              LET key == Key(p, scanned.byPath[p].isDirectory)
              IN IF Replaced(p) THEN Updated(acc, key) ELSE Created(acc, key),
            events, New \ {pair[2] : pair \in RenamedPaths})

AllUpdated(events) ==
  FoldPaths(LAMBDA acc, p : Updated(acc, Key(p, FALSE)), events,
            {p \in Indexed(scanned) \cap Indexed(index) :
               /\ index.byPath[p].identity = scanned.byPath[p].identity
               /\ ~scanned.byPath[p].isDirectory
               /\ index.byPath[p].mtime # scanned.byPath[p].mtime})

(* mutant: the scan tells it all *)
NoneFlagged(events) == events

(* Flags of metadata tell what no stat does. *)
AllFlagged(events) ==
  FoldPaths(LAMBDA acc, p : Updated(acc, Key(p, scanned.byPath[p].isDirectory)), events,
            {batch[i].path : i \in {j \in DOMAIN batch : "meta" \in batch[j].flags}}
              \cap Indexed(scanned))

Reconcile ==
  /\ Scanned /\ job.for = "rescan"
  /\ Becomes([index |-> scanned, tree |-> newTree,
              events |-> AllFlagged(AllUpdated(AllCreated(AllRemoved(AllRenamed(mEvents)))))])
  /\ batch' = <<>>
  /\ NoScan
  /\ UNCHANGED <<fsVars, phase, renameVars, clientVars>>

----------------------------------------------------------------------------
(* processEvents: a batch that may be about a directory's move, or is not   *)
(* complete, is replaced by a scan.                                         *)
RequiresRescan(events) ==
  \E i \in DOMAIN events :
    LET path == events[i].path
    IN \/ "rescan" \in events[i].flags
       \/ /\ "renamed" \in events[i].flags
          /\ \/ "isDir" \in events[i].flags \/ IsDir(path)
             \/ Known(path) /\ index.byPath[path].isDirectory

TakeBatch ==
  /\ phase = "on" /\ job = NoJob /\ undelivered # <<>> /\ batch = <<>>
  /\ batch' = undelivered /\ undelivered' = <<>>
  /\ IF RequiresRescan(undelivered)
       THEN BeginScan("rescan", Root) /\ UNCHANGED phase
       ELSE phase' = "look" /\ UNCHANGED scanVars
  /\ UNCHANGED <<disk, ops, drops, moved, stateVars, renameVars, clientVars>>

(* correlateRenames: which paths have lost an identity, which have got one? *)
FindCandidates ==
  LET paths == {batch[i].path : i \in {j \in DOMAIN batch : "renamed" \in batch[j].flags}}
      seen  == {p \in paths : ~Ignored(p)}
      stays == {p \in seen : /\ Known(p) /\ p \in DOMAIN disk
                            /\ index.byPath[p].identity = disk[p].identity}
  IN /\ phase = "look"
     /\ removed' = Keep(index.byPath, seen \ stays)
     /\ created' = [p \in (seen \ stays) \cap DOMAIN disk |-> Stat(p)]
     /\ phase' = "pair"
     /\ UNCHANGED <<fsVars, stateVars, batch, handled, scanVars, clientVars>>

WithIdentity(entries, id) == {p \in DOMAIN entries : entries[p].identity = id}

(* mutant: a file with several links is renamed like any other *)
LooksRenamed(old, new, id) ==
  /\ WithIdentity(removed, id) = {old} /\ WithIdentity(created, id) = {new}
  /\ new \notin Indexed(index)
  /\ ~removed[old].isDirectory /\ ~created[new].isDirectory

(* The inode tells for sure which name became which only if there is one.   *)
(* A target that was there before is replaced.                              *)
IsRenamed(old, new, id) ==
  /\ WithIdentity(removed, id) = {old} /\ WithIdentity(created, id) = {new}
  /\ PathCount(index, id) = 1
  /\ new \notin Indexed(index)
  /\ ~removed[old].isDirectory /\ ~created[new].isDirectory
  /\ removed[old].linkCount = 1 /\ created[new].linkCount = 1

Passed(id) == removed' = Keep(removed, DOMAIN removed \ WithIdentity(removed, id))

(* The identities come in the order of a hash table. *)
Correlate(id) ==
  /\ phase = "pair"
  /\ \E old \in DOMAIN removed, new \in DOMAIN created :
       /\ IsRenamed(old, new, id)
       /\ Becomes([index |-> AddEntry(RenameFile(index, old, new), new, created[new]),
                   tree |-> Add(TreeRemoved(tree, old), new, created[new].mtime),
                   events |-> Renamed(mEvents, Key(old, FALSE), Key(new, FALSE),
                                      FreshId(mEvents))])
       /\ handled' = handled \cup {old, new}
  /\ Passed(id)
  /\ UNCHANGED <<fsVars, phase, batch, created, scanVars, clientVars>>

DoNotCorrelate(id) ==
  /\ phase = "pair" /\ WithIdentity(removed, id) # {}
  /\ ~\E old \in DOMAIN removed, new \in DOMAIN created : IsRenamed(old, new, id)
  /\ Passed(id)
  /\ UNCHANGED <<fsVars, stateVars, phase, batch, created, handled, scanVars, clientVars>>

Correlated ==
  /\ phase = "pair" /\ DOMAIN removed = {}
  /\ phase' = "handle" /\ created' = None
  /\ UNCHANGED <<fsVars, stateVars, batch, removed, handled, scanVars, clientVars>>

----------------------------------------------------------------------------
(* What becomes of one event. *)
SameIdentity(path) == Known(path) /\ index.byPath[path].identity = disk[path].identity
TypeChanged(path) == Known(path) /\ index.byPath[path].isDirectory # disk[path].isDirectory

(* mutant: what was not written since is what it was *)
HasItsTime(event) ==
  /\ "meta" \notin event.flags
  /\ event.path \in DOMAIN tree /\ tree[event.path] = disk[event.path].mtime

(* Flags of a change that was told already come again; modification times   *)
(* are assumed to have fractions of a second.                               *)
IsTold(event) ==
  /\ "meta" \notin event.flags
  /\ event.path \in DOMAIN tree /\ SameIdentity(event.path)
  /\ tree[event.path] = disk[event.path].mtime

IsReplacedFile(path) == Known(path) /\ ~index.byPath[path].isDirectory /\ ~IsDir(path)

Outcome(event) ==
  LET path     == event.path
      modified == event.flags \cap {"modified", "meta"} # {}
      others   == event.flags \cap {"created", "removed", "renamed"}
  IN IF Ignored(path) \/ path \in handled THEN "none"
     ELSE IF others = {"created"} /\ ~modified THEN "appear"
     ELSE IF others = {"removed"} /\ ~modified THEN "remove"
     ELSE IF path \notin DOMAIN disk THEN "remove"
     ELSE IF TypeChanged(path) THEN "appear"
     ELSE IF others = {} /\ ~(Known(path) /\ path \in DOMAIN tree) THEN "appear"
     ELSE IF IsTold(event) THEN "none"
     ELSE IF /\ path \in DOMAIN tree
             /\ modified \/ SameIdentity(path) \/ IsReplacedFile(path) THEN "update"
     ELSE IF ~SameIdentity(path) /\ IsDir(path) THEN "appear"
     ELSE "create"

(* The next event has this outcome. *)
Handles(outcome) == /\ phase = "handle" /\ job = NoJob /\ batch # <<>>
                    /\ Outcome(Head(batch)) = outcome
                    /\ batch' = Tail(batch)
                    /\ UNCHANGED <<fsVars, phase, renameVars, clientVars>>

HandleNone == Handles("none") /\ UNCHANGED <<stateVars, scanVars>>

HandleRemoved ==
  /\ Handles("remove")
  /\ Becomes(RemovedPath(AsIs, Head(batch).path))
  /\ UNCHANGED scanVars

HandleCreated == Handles("appear") /\ AddCreatedPath(Head(batch).path)

HandleModified ==
  LET path == Head(batch).path
  IN /\ Handles("update")
     /\ Becomes([index |-> AddEntry(index, path, Stat(path)),
                 tree |-> Recorded(tree, path, Stat(path).mtime),
                 events |-> Updated(mEvents, Key(path, IsDir(path)))])
     /\ UNCHANGED scanVars

HandleNew ==
  LET path == Head(batch).path
  IN /\ Handles("create")
     /\ Becomes([index |-> AddEntry(index, path, Stat(path)),
                 tree |-> Add(tree, path, Stat(path).mtime),
                 events |-> Created(mEvents, Key(path, IsDir(path)))])
     /\ UNCHANGED scanVars

BatchEnds ==
  /\ phase = "handle" /\ job = NoJob /\ batch = <<>>
  /\ phase' = "on" /\ handled' = {}
  /\ UNCHANGED <<fsVars, stateVars, batch, removed, created, scanVars, clientVars>>

(* The client is told: it forgets what is deleted and reads what is created *)
(* or updated, unless that is gone again.                                   *)
ToldAs(types) == {k \in Reported(mEvents) : TypeOf(mEvents[k]) \in types}

Drain ==
  /\ phase # "error" /\ DOMAIN mEvents # {}
  /\ LET read == ToldAs({"create", "update"})
         kept == DOMAIN copy \ {k[1] : k \in ToldAs({"delete"}) \cup read}
     IN copy' = [p \in kept \cup {k[1] : k \in read} |->
                   IF p \in kept THEN copy[p]
                   ELSE [isDirectory |-> <<p, "dir">> \in read,
                         rev |-> IF p \in DOMAIN disk THEN disk[p].rev ELSE Unread]]
  /\ mEvents' = None
  /\ UNCHANGED <<fsVars, index, tree, phase, batch, renameVars, scanVars, ignored>>

----------------------------------------------------------------------------
IndexInit ==
  /\ disk \in InitialDisk /\ ignored \in IgnoreOption
  /\ ops = 0 /\ drops = 0 /\ undelivered = <<>>
  /\ index = EmptyIndex /\ tree = None /\ mEvents = None
  /\ phase = "scan" /\ batch = <<>>
  /\ removed = None /\ created = None /\ handled = {}
  /\ job = [for |-> "subscribe", path |-> Root]
  /\ found = [p \in {Root} |-> Stat(p)] /\ opening = {}
  /\ scanned = EmptyIndex /\ newTree = None
  /\ copy = None /\ moved = {}

FileSystem ==
  \/ \E path \in Path : \/ \E isDir \in BOOLEAN : MakeEntry(path, isDir)
                       \/ WriteFile(path) \/ ChangeMode(path) \/ DeleteEntry(path)
  \/ \E path, to \in Path : LinkFile(path, to)
  \/ \E from, to \in Path \cup OutsidePath : MoveEntry(from, to)
  \/ DropEvents

Scanning ==
  \/ \E path \in Path \cup {Root} : Return(path) \/ Open(path) \/ OpenFails(path)
  \/ SubscribeScanned \/ CreatedScanned \/ Reconcile

Handling ==
  \/ TakeBatch \/ FindCandidates
  \/ \E path \in DOMAIN removed :
       Correlate(removed[path].identity) \/ DoNotCorrelate(removed[path].identity)
  \/ Correlated
  \/ HandleNone \/ HandleRemoved \/ HandleCreated \/ HandleModified \/ HandleNew
  \/ BatchEnds

IndexNext == FileSystem \/ Scanning \/ Handling \/ Drain

IndexSpec == IndexInit /\ [][IndexNext]_indexVars

----------------------------------------------------------------------------
(* State::identities: the paths of an identity are those that have it, in   *)
(* the index and in the one a scan is making.  Which renames are told       *)
(* depends on their number.                                                 *)
IndexesAgree == Agree(index) /\ Agree(scanned)

(* All events are handled. *)
Quiet == phase = "on" /\ job = NoJob /\ undelivered = <<>> /\ batch = <<>>

(* The index is the tree then, however the disk changed while the backend   *)
(* was looking and whatever the flags of a path added up to.                *)
IndexIsTree ==
  Quiet => /\ Indexed(index) = DOMAIN Look /\ DOMAIN tree = DOMAIN Look
           /\ \A p \in DOMAIN Look :
                /\ index.byPath[p].identity = disk[p].identity
                /\ index.byPath[p].isDirectory = disk[p].isDirectory
                /\ index.byPath[p].mtime = disk[p].mtime /\ tree[p] = disk[p].mtime

(* A client that reads what it is told was created or updated, and forgets  *)
(* what was deleted, has the tree and the last state of every file when all *)
(* is handled and told.                                                     *)
CopyIsRight ==
  Quiet /\ mEvents = None =>
    /\ DOMAIN copy = DOMAIN Look
    /\ \A p \in DOMAIN Look : /\ copy[p].isDirectory = disk[p].isDirectory
                              /\ ~disk[p].isDirectory => copy[p].rev \in {disk[p].rev, Unread}

(* Two events with one id are about one file, or one directory, that was    *)
(* moved from the deleted path to the created one, or linked and unlinked;  *)
(* not about two other links to a file, nor about what only has its inode.  *)
RenamesAreMoves ==
  \A gone, new \in Batch(mEvents) :
    gone.renameId # NoId /\ gone.renameId = new.renameId /\ gone.type = "delete" /\ new.type = "create"
      => <<gone.entry[1], new.entry[1]>> \in moved
=============================================================================
