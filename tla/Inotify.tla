-------------------------------- MODULE Inotify --------------------------------
(* The Linux backend (src/src/linux/InotifyBackend.cc) with one watcher: a  *)
(* file system that changes at any time, the kernel's watches and its event *)
(* queue, the scan of a tree, and the translation of inotify events into an *)
(* index of the tree and into events for the client.                        *)
(*                                                                          *)
(* Whatever takes more than one system call takes more than one step; the   *)
(* file system changes in between.  Steps of the backend exclude each other *)
(* by mMutex, which subscribe holds throughout and handleEvent for one      *)
(* event.                                                                   *)
EXTENDS Events, DirTree, FiniteSetsExt

CONSTANTS Name,
          Dir, File, Special,   \* inodes; Special: links, sockets, ...
          RootDir, OutsideDir,  \* the watched directory, and one that is not watched
          IgnoreOption,         \* the sets of paths a client may ask to ignore
          InitialDisk,          \* the trees there may be at first
          MaxDepth,             \* bound on the length of a path
          MaxOps,               \* bound on the changes of the file system
          MaxQueue,             \* max_queued_events
          MayOverlap            \* see Busy and Taken

VARIABLES
  \* the file system and the kernel
  disk,      \* a function from the paths there are to inodes
  ops,       \* the number of changes so far
  inflight,  \* messages of a rename that are not queued yet
  kernel,    \* a function from watched inodes to their watch descriptors
  queue,     \* the inotify queue
  \* the backend
  state,     \* of the subscription: "off", "scan", "on", "invalid", "failed"
  index,     \* its DirTree, a function from paths to kinds
  subs,      \* InotifySubscription objects: a function from ids to [wd, path]
  live,      \* the ids that are in mSubscriptions
  pending,   \* mPendingMoves, a function from cookies to records
  flushing,  \* the thread read all there was and looks for expired moves
  event,     \* the event that is handled, or NoEvent
  todo,      \* the subscriptions that have yet to handle it
  job,       \* what the scan is for, or NoJob
  scan,      \* the stack of addCreatedTree calls
  mEvents,   \* what the client will be told
  before,    \* the paths the client found when it subscribed
  ignored    \* its option: these paths are ignored, with all below them

fsVars      == <<disk, ops, inflight>>
kernelVars  == <<kernel, queue>>
scanVars    == <<job, scan>>
clientVars  == <<mEvents, before, ignored>>
inotifyVars == <<fsVars, kernelVars, state, index, subs, live, pending, flushing,
                 event, todo, scanVars, clientVars>>

Root == <<"root">>
Outside == <<"outside">>
NoEvent == [mask |-> "none"]
NoJob == [for |-> "none"]
Nothing == [x \in {} |-> NoId]

InRoot(path) == Under(path, Root)
Ignored(path) == \E p \in ignored : Under(path, p)

KindOf(inode) == IF inode \in Dir \cup {RootDir, OutsideDir} THEN "dir"
                 ELSE IF inode \in File THEN "file" ELSE "special"

Kind(path) == KindOf(disk[path])
IsDir(path) == path \in DOMAIN disk /\ Kind(path) = "dir"
Children(path) == {p \in DOMAIN disk : Len(p) = Len(path) + 1 /\ Under(p, path)}

(* What a subscription should know: directories and regular files. *)
Tree == [path \in {p \in DOMAIN disk : /\ InRoot(p) /\ ~Ignored(p)
                                       /\ Kind(p) # "special"} |-> Kind(path)]

Least(S) == CHOOSE x \in S : \A y \in S : x <= y
Fresh(used) == Least(1 .. (Cardinality(used) + 1) \ used)

----------------------------------------------------------------------------
(* The kernel.  A message goes to the watch of the directory it is about;   *)
(* without one it is not queued, and what does not fit is lost.             *)
Message(dir, mask, name, isDir, cookie) ==
  [dir |-> dir, mask |-> mask, name |-> name, isDir |-> isDir, cookie |-> cookie]

Queued(q, watches, message) ==
  IF message.dir \notin DOMAIN watches THEN q
  ELSE IF Len(q) >= MaxQueue
    THEN IF Last(q).mask = "overflow" THEN q
         ELSE Append(q, [wd |-> 0, mask |-> "overflow"])
  ELSE Append(q, [wd |-> watches[message.dir], mask |-> message.mask,
                  name |-> message.name, isDir |-> message.isDir,
                  cookie |-> message.cookie])

Post(watches, messages) ==
  queue' = FoldLeft(LAMBDA q, m : Queued(q, watches, m), queue, messages)

(* A directory that is deleted takes its watch with it. *)
Unlinked(path) == kernel' = Keep(kernel, DOMAIN kernel \ {disk[path]})

(* Between the messages of a rename other changes are only told of from     *)
(* below a moved directory, which the rename does not lock.                 *)
BelowMoved(path) == \E p \in DOMAIN disk : disk[p] = Last(inflight).dir /\ Under(Parent(path), p)

Change(path) == /\ ops < MaxOps /\ (inflight # <<>> => BelowMoved(path))
                /\ ops' = ops + 1
                /\ UNCHANGED <<state, index, subs, live, pending, flushing, event,
                               todo, scanVars, clientVars>>

(* What was at the path is of another kind, or has been moved away for good, *)
(* and the backend has yet to handle that.                                  *)
Unhandled == Range(queue) \cup (IF event = NoEvent THEN {} ELSE {event})
Unpaired(cookie) == ~\E e \in Unhandled : e.mask = "movedTo" /\ e.cookie = cookie
About(path) == {e \in Unhandled : /\ disk[Parent(path)] \in DOMAIN kernel
                                 /\ e.wd = kernel[disk[Parent(path)]]
                                 /\ e.mask # "self" /\ e.name = Last(path)}
Taken(path, isDir) ==
  \/ \E c \in DOMAIN pending : /\ Unpaired(c)
                             /\ \E p \in DOMAIN pending[c].entries : Under(p, path)
  \/ \E e \in About(path) : \/ e.isDir # isDir
                            \/ e.mask = "movedFrom" /\ Unpaired(e.cookie)

MakeEntry(path, inode) ==
  /\ Change(path)
  /\ path \notin DOMAIN disk /\ IsDir(Parent(path))
  /\ inode \notin Range(disk) /\ (MayOverlap \/ ~Taken(path, KindOf(inode) = "dir"))
  /\ disk' = Add(disk, path, inode)
  /\ Post(kernel, <<Message(disk[Parent(path)], "create", Last(path),
                            KindOf(inode) = "dir", 0)>>)
  /\ UNCHANGED <<inflight, kernel>>

WriteFile(path) ==
  /\ Change(path)
  /\ path \in DOMAIN disk /\ Kind(path) = "file"
  /\ Post(kernel, <<Message(disk[Parent(path)], "modify", Last(path), FALSE, 0)>>)
  /\ UNCHANGED <<disk, inflight, kernel>>

(* The cookies of moves that have yet to be handled; a new move gets another. *)
HasCookie(e) == e.mask \in {"movedFrom", "movedTo"}
Cookies == {e.cookie : e \in {x \in Unhandled : HasCookie(x)}}
           \cup DOMAIN pending

(* The backend has yet to see what happened to or below path, or scans it. *)
Busy(path) ==
  LET watched == {kernel[disk[p]] : p \in {q \in Below(disk, path) : disk[q] \in DOMAIN kernel}}
  IN \/ About(path) # {} \/ \E e \in Unhandled : e.wd \in watched
     \/ job # NoJob /\ (Under(job.path, path) \/ Under(path, job.path))

DeleteEntry(path) ==
  /\ Change(path)
  /\ path \in DOMAIN disk \ {Root, Outside} /\ Children(path) = {}
  /\ disk' = NotExtracted(disk, path)
  /\ Post(kernel, <<Message(disk[Parent(path)], "delete", Last(path),
                            Kind(path) = "dir", 0)>>)
  /\ Unlinked(path)
  /\ UNCHANGED inflight

(* The two halves of a move are queued one after the other.  A move of a    *)
(* directory is also told to its own watch.                                 *)
MoveEntry(from, to) ==
  LET cookie == Fresh(Cookies)
      inode  == disk[from]
      isDir  == KindOf(inode) = "dir"
  IN /\ Change(from) /\ inflight = <<>>
     /\ from \in DOMAIN disk \ {Root, Outside} /\ IsDir(Parent(to))
     /\ ~Under(to, from) /\ Len(to) <= MaxDepth
     /\ \A p \in Below(disk, from) : Len(Rebased(p, from, to)) <= MaxDepth
     /\ IF to \in DOMAIN disk
          THEN /\ (Kind(to) = "dir") = isDir /\ Children(to) = {}
               /\ Unlinked(to)
          ELSE UNCHANGED kernel
     /\ MayOverlap \/ ~((isDir /\ (Busy(from) \/ Busy(to))) \/ Taken(to, isDir))
     /\ disk' = Restored(NotExtracted(disk, from), Extracted(disk, from), from, to)
     /\ Post(kernel, <<Message(disk[Parent(from)], "movedFrom", Last(from), isDir, cookie)>>)
     /\ inflight' = <<Message(disk[Parent(to)], "movedTo", Last(to), isDir, cookie),
                      Message(inode, "self", Last(to), isDir, 0)>>

FinishMove ==
  /\ inflight # <<>>
  /\ Post(kernel, inflight)
  /\ inflight' = <<>>
  /\ UNCHANGED <<disk, ops, kernel, state, index, subs, live, pending, flushing,
                 event, todo, scanVars, clientVars>>

(* The root, or an ancestor, is moved or deleted. *)
LoseRoot ==
  /\ Change(Root) /\ inflight = <<>>
  /\ Root \in DOMAIN disk
  /\ disk' = NotExtracted(disk, Root)
  /\ Post(kernel, <<Message(RootDir, "self", "", TRUE, 0)>>)
  /\ kernel' = [inode \in {} |-> 0]
  /\ UNCHANGED inflight

----------------------------------------------------------------------------
(* The backend's subscriptions.  What nobody refers to any more is          *)
(* forgotten: a record lives as long as a shared_ptr to it.                 *)
KeepReferenced(objects) ==
  subs' = Keep(objects, live' \cup todo' \cup UNION {pending'[c].subs : c \in DOMAIN pending'})

SubsUnder(path) == {i \in live : path = Root \/ Under(subs[i].path, path)}

Wds(ids) == {subs[i].wd : i \in ids}

(* A bug: the records go, the watches stay. *)
ForgetSubs(ids) == live' = live \ ids /\ UNCHANGED kernel

(* removeSubscriptions: a watch goes with the last subscription that has it. *)
RemoveSubs(ids) ==
  LET gone == Wds(ids) \ Wds(live \ ids)
  IN /\ live' = live \ ids
     /\ kernel' = Keep(kernel, {inode \in DOMAIN kernel : kernel[inode] \notin gone})

UsedWds == {kernel[inode] : inode \in DOMAIN kernel} \cup Wds(DOMAIN subs)
           \cup {queue[i].wd : i \in 1 .. Len(queue)}

(* The user's limit of watches, which other programs use as well, may be    *)
(* reached whenever a watch is to be added.                                 *)
MayExceedLimit(path) == IsDir(path) /\ disk[path] \notin DOMAIN kernel

(* watchDir, where inotify_add_watch succeeds: the path may have been       *)
(* watched when another directory had it.                                   *)
WatchDir(path) ==
  LET inode   == disk[path]
      wd      == IF inode \in DOMAIN kernel THEN kernel[inode] ELSE Fresh(UsedWds)
      here    == {i \in live : subs[i].path = path}
      stale   == {i \in here : subs[i].wd # wd}
      gone    == Wds(stale) \ Wds(live \ stale)
      tracked == here # stale
      id      == Fresh(DOMAIN subs)
  IN /\ IsDir(path)
     /\ kernel' = Add(Keep(kernel, {i \in DOMAIN kernel : kernel[i] \notin gone}), inode, wd)
     /\ live' = (live \ stale) \cup (IF tracked THEN {} ELSE {id})
     /\ KeepReferenced(Add(subs, id, [wd |-> wd, path |-> path]))

(* EventKey *)
Key(path, kind) == <<path, kind>>

Fold(Op(_, _), events, paths) == FoldSet(LAMBDA p, acc : Op(acc, p), events, paths)

RemovedAll(events, entries) ==
  Fold(LAMBDA acc, p : Removed(acc, Key(p, entries[p])), events, DOMAIN entries)

Frame(path) == [path |-> path, phase |-> "open", names |-> {}]

(* The scan of path begins; reconcileMovedTree first takes out what it knew. *)
BeginScan(purpose, path, tree) ==
  /\ job' = [for |-> purpose, path |-> path, watch |-> FALSE,
             previous |-> IF purpose = "reconcile" THEN Extracted(tree, path) ELSE Nothing]
  /\ index' = IF purpose = "reconcile" THEN NotExtracted(tree, path) ELSE tree
  /\ scan' = <<Frame(path)>>

WatchFirst(purpose, path, tree) ==
  /\ job' = [for |-> purpose, path |-> path, watch |-> TRUE, previous |-> Nothing]
  /\ index' = tree
  /\ scan' = <<>>

NoScan == job' = NoJob /\ scan' = <<>>

(* addCreatedTree or watchDir failed for good. *)
Fails ==
  /\ RemoveSubs(live)
  /\ state' = IF job.for = "subscribe" THEN "failed" ELSE "invalid"
  /\ index' = IF job.for = "create" THEN TreeRemoved(index, job.path) ELSE index
  /\ pending' = Nothing
  /\ NoScan
  /\ UNCHANGED <<fsVars, queue, flushing, event, todo, clientVars>>
  /\ KeepReferenced(subs)

(* The entry moved or changed type between lstat and opening it. *)
GiveUp(path, rest) ==
  /\ RemoveSubs(SubsUnder(path))
  /\ index' = TreeRemoved(index, path)
  /\ scan' = rest
  /\ UNCHANGED <<fsVars, queue, state, pending, flushing, event, todo, job, clientVars>>
  /\ KeepReferenced(subs)

----------------------------------------------------------------------------
(* addCreatedTree; the top of the stack is the innermost call. *)
Top == Last(scan)
WithTop(frame) == Append(Front(scan), frame)

JobWatch ==
  /\ job # NoJob /\ job.watch
  /\ BeginScan(job.for, job.path, index)
  /\ UNCHANGED <<fsVars, queue, state, pending, flushing, event, todo, clientVars>>
  /\ WatchDir(job.path)

JobFails ==
  /\ job # NoJob
  /\ \/ job.watch /\ (~IsDir(job.path) \/ MayExceedLimit(job.path))
     \/ Len(scan) = 1 /\ Top.phase = "open" /\ ~IsDir(Top.path)
     \/ /\ scan # <<>> /\ Top.phase = "subs"
        /\ \E path \in Top.names : MayExceedLimit(path)
  /\ Fails

(* opendir, and the directory's names. *)
Open ==
  /\ scan # <<>> /\ Top.phase = "open" /\ IsDir(Top.path)
  /\ index' = Add(index, Top.path, "dir")
  /\ scan' = WithTop([Top EXCEPT !.phase = "stat", !.names = Children(Top.path)])
  /\ UNCHANGED <<fsVars, kernelVars, state, subs, live, pending, flushing, event,
                 todo, job, clientVars>>

OpenFails ==
  /\ Len(scan) > 1 /\ Top.phase = "open" /\ ~IsDir(Top.path)
  /\ GiveUp(Top.path, Front(scan))

(* lstat of every name, by its path. *)
Stat ==
  LET found == {p \in Top.names \cap DOMAIN disk : ~Ignored(p) /\ Kind(p) # "special"}
      new   == found \ DOMAIN index
  IN /\ scan # <<>> /\ Top.phase = "stat"
     /\ index' = index @@ [p \in new |-> Kind(p)]
     /\ mEvents' = IF job.for = "create"
                     THEN Fold(LAMBDA acc, p : Created(acc, Key(p, Kind(p))), mEvents, new)
                     ELSE mEvents
     /\ scan' = WithTop([Top EXCEPT !.phase = "subs",
                                    !.names = {p \in found : Kind(p) = "dir"}])
     /\ UNCHANGED <<fsVars, kernelVars, state, subs, live, pending, flushing, event,
                    todo, job, before, ignored>>

Descend(path) ==
  /\ scan # <<>> /\ Top.phase = "subs" /\ path \in Top.names
  /\ scan' = Append(WithTop([Top EXCEPT !.names = @ \ {path}]), Frame(path))
  /\ UNCHANGED <<fsVars, queue, state, index, pending, flushing, event, todo, job,
                 clientVars>>
  /\ WatchDir(path)

DescendFails(path) ==
  /\ scan # <<>> /\ Top.phase = "subs" /\ path \in Top.names /\ ~IsDir(path)
  /\ GiveUp(path, WithTop([Top EXCEPT !.names = @ \ {path}]))

Ascend ==
  /\ Len(scan) > 1 /\ Top.phase = "subs" /\ Top.names = {}
  /\ scan' = Front(scan)
  /\ UNCHANGED <<fsVars, kernelVars, state, index, subs, live, pending, flushing,
                 event, todo, job, clientVars>>

Scanned == Len(scan) = 1 /\ Top.phase = "subs" /\ Top.names = {}

(* The end of subscribe, and of an addCreatedTree that handles an event. *)
EndScan ==
  /\ Scanned /\ job.for # "reconcile"
  /\ NoScan
  /\ IF job.for = "subscribe"
       THEN state' = "on" /\ before' = DOMAIN index
       ELSE UNCHANGED <<state, before>>
  /\ UNCHANGED <<fsVars, kernelVars, index, subs, live, pending, flushing, event,
                 todo, mEvents, ignored>>

(* The rest of reconcileMovedTree: what differs from the previous entries. *)
EndReconcile ==
  LET old     == job.previous
      now     == Below(index, job.path)
      kept    == {p \in now \cap DOMAIN old : old[p] = index[p]}
      lost    == DOMAIN old \ now
      changed == Fold(LAMBDA acc, p :
                        IF p \in DOMAIN old THEN Updated(acc, Key(p, index[p]))
                                            ELSE Created(acc, Key(p, index[p])),
                      mEvents, now \ kept)
      dirs    == {p \in DOMAIN old \ kept : old[p] = "dir"}
  IN /\ Scanned /\ job.for = "reconcile"
     /\ mEvents' = RemovedAll(changed, Keep(old, {p \in lost : ~Ignored(p)}))
     /\ RemoveSubs(UNION {SubsUnder(p) : p \in dirs})
     /\ NoScan
     /\ UNCHANGED <<fsVars, queue, state, index, pending, flushing, event, todo, before, ignored>>
     /\ KeepReferenced(subs)

----------------------------------------------------------------------------
(* subscribe and unsubscribe, called by Backend::watch and unwatch. *)
Idle == event = NoEvent /\ job = NoJob /\ ~flushing

Subscribe ==
  /\ Idle /\ ops < MaxOps
  /\ ops' = IF state = "off" THEN ops ELSE ops + 1
  /\ state \in {"off", "invalid", "failed"} /\ state' = "scan"
  /\ WatchFirst("subscribe", Root, Nothing)
  /\ mEvents' = Nothing /\ before' = {}
  /\ UNCHANGED <<disk, inflight, kernelVars, subs, live, pending, flushing, event, todo, ignored>>

Unsubscribe ==
  /\ Idle /\ state \in {"on", "invalid"} /\ ops < MaxOps
  /\ ops' = ops + 1
  /\ RemoveSubs(live)
  /\ state' = "off" /\ pending' = Nothing
  /\ index' = Nothing /\ mEvents' = Nothing /\ before' = {}
  /\ UNCHANGED <<disk, inflight, queue, flushing, event, todo, scanVars, ignored>>
  /\ KeepReferenced(subs)

----------------------------------------------------------------------------
(* handleEvents reads an event; all subscriptions of its descriptor handle  *)
(* it, in any order, even those that were removed meanwhile.                *)
Read ==
  LET ids == {i \in live : subs[i].wd = Head(queue).wd}
  IN /\ Idle /\ queue # <<>> /\ Head(queue).mask # "overflow"
     /\ queue' = Tail(queue)
     /\ event' = IF ids = {} THEN NoEvent ELSE Head(queue)
     /\ todo' = ids
     /\ UNCHANGED <<fsVars, kernel, state, index, subs, live, pending, flushing,
                    scanVars, clientVars>>

HandleOverflow ==
  /\ Idle /\ queue # <<>> /\ Head(queue).mask = "overflow"
  /\ queue' = Tail(queue)
  /\ RemoveSubs(live)
  /\ state' = IF live = {} THEN state ELSE "invalid"
  /\ pending' = IF live = {} THEN pending ELSE Nothing
  /\ UNCHANGED <<fsVars, index, flushing, event, todo, scanVars, clientVars>>
  /\ KeepReferenced(subs)

(* handleSubscription: its cases, in the order of the code. *)
Turn(i) == /\ i \in todo /\ job = NoJob
           /\ todo' = todo \ {i}
           /\ event' = IF todo = {i} THEN NoEvent ELSE event

PathOf(i) == IF event.mask = "self" THEN subs[i].path
                                   ELSE Append(subs[i].path, event.name)

RootIsLost(i) == subs[i].path = Root /\ event.mask = "self"

RootLost(i) ==
  /\ Turn(i) /\ RootIsLost(i)
  /\ mEvents' = FoldSet(LAMBDA c, acc : RemovedAll(acc, pending[c].entries),
                        RemovedAll(mEvents, index), DOMAIN pending)
  /\ index' = Nothing /\ pending' = Nothing
  /\ state' = IF state = "on" THEN "invalid" ELSE state
  /\ RemoveSubs(live)
  /\ UNCHANGED <<fsVars, queue, flushing, scanVars, before, ignored>>
  /\ KeepReferenced(subs)

MovingWith(i) == {c \in DOMAIN pending : pending[c].isDir /\ i \in pending[c].subs}

(* A bug: the event is dropped and nobody remembers. *)
SuppressForgotten(i) ==
  /\ Turn(i) /\ ~RootIsLost(i) /\ MovingWith(i) # {}
  /\ UNCHANGED <<fsVars, kernelVars, state, index, live, pending, flushing, scanVars,
                 clientVars>>
  /\ KeepReferenced(subs)

(* An event of a directory that is between two places. *)
Suppress(i) ==
  /\ Turn(i) /\ ~RootIsLost(i)
  /\ \E c \in MovingWith(i) : pending' = [pending EXCEPT ![c].suppressed = TRUE]
  /\ UNCHANGED <<fsVars, kernelVars, state, index, live, flushing, scanVars, clientVars>>
  /\ KeepReferenced(subs)

Handles(i) == /\ Turn(i) /\ ~RootIsLost(i) /\ MovingWith(i) = {}
              /\ ~Ignored(PathOf(i))

Ignore(i) ==
  /\ Turn(i) /\ ~RootIsLost(i) /\ MovingWith(i) = {}
  /\ Ignored(PathOf(i)) \/ event.mask = "self"
  /\ UNCHANGED <<fsVars, kernelVars, state, index, live, pending, flushing, scanVars,
                 clientVars>>
  /\ KeepReferenced(subs)

(* What is at the path now is neither a file nor a directory. *)
Vanish(path, objects, tree, events) ==
  LET gone == Extracted(tree, path)
      ids  == {j \in live : \E p \in DOMAIN gone :
                 gone[p] = "dir" /\ (p = Root \/ Under(objects[j].path, p))}
  IN /\ mEvents' = RemovedAll(events, gone)
     /\ index' = NotExtracted(tree, path)
     /\ RemoveSubs(ids)
     /\ UNCHANGED scanVars

(* A bug: an entry that is new is not told of. *)
SeenBefore(events, path, kind) ==
  IF path \in DOMAIN index THEN Updated(events, Key(path, kind)) ELSE events

Seen(events, path, kind) ==
  IF path \in DOMAIN index THEN Updated(events, Key(path, kind))
                           ELSE Created(events, Key(path, kind))

(* IN_CREATE, or IN_MOVED_TO without its other half. *)
Appear(i) ==
  LET path == PathOf(i)
      kind == Kind(path)
  IN /\ Handles(i)
     /\ \/ event.mask = "create"
        \/ event.mask = "movedTo" /\ event.cookie \notin DOMAIN pending
     /\ CASE path \notin DOMAIN disk ->
                UNCHANGED <<kernel, index, live, mEvents, scanVars>>
          [] path \in DOMAIN disk /\ kind = "special" ->
                Vanish(path, subs, index, mEvents)
          [] OTHER ->
                /\ mEvents' = Seen(mEvents, path, kind)
                /\ IF kind = "dir"
                     THEN WatchFirst("create", path, Add(index, path, kind))
                     ELSE index' = Add(index, path, kind) /\ UNCHANGED scanVars
                /\ UNCHANGED <<kernel, live>>
     /\ UNCHANGED <<fsVars, queue, state, pending, flushing, before, ignored>>
     /\ KeepReferenced(subs)

(* The entries of a move, one by one. *)
MovedEntries(move, path) ==
  LET Told(p, acc) ==
        LET kind == move.entries[p]
            new  == Rebased(p, move.path, path)
            gone == Removed(acc, Key(p, kind))
        IN IF path \in DOMAIN index \/ Ignored(new)
             THEN IF Ignored(new) THEN gone
                  ELSE Seen(gone, new, kind)
             ELSE Renamed(acc, Key(p, kind), Key(new, kind), NoId)
  IN FoldSet(Told, mEvents, DOMAIN move.entries)

(* A bug: the records keep the old path. *)
LeaveSubs(move, path) == subs

(* moveSubscriptions *)
MoveSubs(move, path) ==
  [j \in DOMAIN subs |->
     IF j \in move.subs THEN [subs[j] EXCEPT !.path = Rebased(@, move.path, path)]
                        ELSE subs[j]]

(* IN_MOVED_TO, the other half of a pending move. *)
CompleteMove(i) ==
  LET move    == pending[event.cookie]
      path    == PathOf(i)
      kind    == Kind(path)
      missing == move.entries = Nothing
      freed   == IF ~missing /\ path \in DOMAIN index THEN TreeRemoved(index, path)
                                                      ELSE index
      tree    == Restored(freed, move.entries, move.path, path)
      objects == MoveSubs(move, path)
      told    == MovedEntries(move, path)
      unknown == missing \/ path \notin DOMAIN tree
      final   == Add(IF missing THEN TreeRemoved(tree, path) ELSE tree, path, kind)
  IN /\ Handles(i)
     /\ event.mask = "movedTo" /\ event.cookie \in DOMAIN pending
     /\ pending' = Keep(pending, DOMAIN pending \ {event.cookie})
     /\ CASE path \notin DOMAIN disk ->
                mEvents' = told /\ index' = tree /\ UNCHANGED <<kernel, live, scanVars>>
          [] path \in DOMAIN disk /\ kind = "special" ->
                Vanish(path, objects, tree, told)
          [] OTHER ->
                /\ mEvents' =
                     IF ~missing THEN told
                     ELSE IF path \in DOMAIN tree
                       THEN Updated(Removed(told, Key(move.path, kind)), Key(path, kind))
                       ELSE Renamed(told, Key(move.path, kind), Key(path, kind), NoId)
                /\ IF kind = "dir" /\ unknown
                     THEN WatchFirst("reconcile", path, final)
                   ELSE IF kind = "dir" /\ (move.suppressed \/ ignored # {})
                     THEN BeginScan("reconcile", path, final)
                   ELSE index' = final /\ UNCHANGED scanVars
                /\ UNCHANGED <<kernel, live>>
     /\ UNCHANGED <<fsVars, queue, state, flushing, before, ignored>>
     /\ KeepReferenced(objects)

Modify(i) ==
  LET path == PathOf(i)
  IN /\ Handles(i) /\ event.mask = "modify"
     /\ mEvents' = IF path \in DOMAIN disk \cap DOMAIN index /\ Kind(path) # "special"
                     THEN Updated(mEvents, Key(path, Kind(path))) ELSE mEvents
     /\ UNCHANGED <<fsVars, kernelVars, state, index, live, pending, flushing,
                    scanVars, before, ignored>>
     /\ KeepReferenced(subs)

(* IN_MOVED_FROM: the move waits for its other half. *)
Leave(i) ==
  LET path == PathOf(i)
  IN /\ Handles(i) /\ event.mask = "movedFrom"
     /\ pending' = (event.cookie :>
                      [path |-> path, isDir |-> event.isDir,
                       entries |-> Extracted(index, path), suppressed |-> FALSE,
                       subs |-> IF event.isDir
                                  THEN {j \in live : Under(subs[j].path, path)}
                                  ELSE {}]) @@ pending
     /\ index' = NotExtracted(index, path)
     /\ UNCHANGED <<fsVars, kernelVars, state, live, flushing, scanVars, clientVars>>
     /\ KeepReferenced(subs)

Disappear(i) ==
  LET path == PathOf(i)
  IN /\ Handles(i) /\ event.mask = "delete"
     /\ mEvents' = RemovedAll(mEvents, Extracted(index, path))
     /\ index' = NotExtracted(index, path)
     /\ RemoveSubs(IF event.isDir THEN SubsUnder(path) ELSE {})
     /\ UNCHANGED <<fsVars, queue, state, pending, flushing, scanVars, before, ignored>>
     /\ KeepReferenced(subs)

----------------------------------------------------------------------------
(* Everything is read, and flushExpiredMoves follows.  Any of the moves may *)
(* have waited for longer than the grace period.                            *)
ReadAll ==
  /\ Idle /\ queue = <<>> /\ pending # Nothing
  /\ flushing' = TRUE
  /\ UNCHANGED <<fsVars, kernelVars, state, index, subs, live, pending, event, todo,
                 scanVars, clientVars>>

FlushExpired(cookies) ==
  LET Replaced(p, kind) == p \in DOMAIN index /\ index[p] = kind
      gone(c) == LET entries == pending[c].entries
                 IN Keep(entries, {p \in DOMAIN entries : ~Replaced(p, entries[p])})
      moving  == {c \in cookies : pending[c].isDir}
  IN /\ flushing /\ cookies \subseteq DOMAIN pending
     /\ flushing' = FALSE
     /\ mEvents' = FoldSet(LAMBDA c, acc : RemovedAll(acc, gone(c)), mEvents, cookies)
     /\ RemoveSubs(live \cap UNION {pending[c].subs : c \in moving})
     /\ pending' = Keep(pending, DOMAIN pending \ cookies)
     /\ UNCHANGED <<fsVars, queue, state, index, event, todo, scanVars, before, ignored>>
     /\ KeepReferenced(subs)

----------------------------------------------------------------------------
Paths == UNION {[1 .. n -> Name] : n \in 1 .. MaxDepth - 1}
Spots == {top \o path : top \in {Root, Outside}, path \in Paths}

InotifyInit ==
  /\ disk \in InitialDisk
  /\ ops = 0 /\ inflight = <<>>
  /\ kernel = [inode \in {} |-> 0] /\ queue = <<>>
  /\ state = "off" /\ index = Nothing
  /\ subs = Nothing /\ live = {} /\ pending = Nothing
  /\ flushing = FALSE /\ event = NoEvent /\ todo = {}
  /\ job = NoJob /\ scan = <<>>
  /\ mEvents = Nothing /\ before = {} /\ ignored \in IgnoreOption

FileSystem ==
  \/ \E path \in Spots :
       \/ \E inode \in Dir \cup File \cup Special : MakeEntry(path, inode)
       \/ DeleteEntry(path)
       \/ WriteFile(path)
       \/ \E to \in Spots : MoveEntry(path, to)
  \/ LoseRoot

Scanning == \/ JobWatch \/ JobFails \/ Open \/ OpenFails \/ Stat \/ Ascend
            \/ EndScan \/ EndReconcile
            \/ \E path \in Spots : Descend(path) \/ DescendFails(path)

Handling == \E i \in todo : \/ RootLost(i) \/ Suppress(i) \/ Ignore(i) \/ Appear(i)
                            \/ CompleteMove(i) \/ Modify(i) \/ Leave(i) \/ Disappear(i)

InotifyNext ==
  \/ FileSystem
  \/ FinishMove
  \/ Subscribe \/ Unsubscribe
  \/ Scanning
  \/ Read \/ HandleOverflow \/ Handling
  \/ ReadAll
  \/ \E cookies \in SUBSET DOMAIN pending : FlushExpired(cookies)

InotifySpec == InotifyInit /\ [][InotifyNext]_inotifyVars

----------------------------------------------------------------------------
(* Nothing is left to be handled, of a subscription that stands. *)
Settled == /\ state = "on" /\ Idle
           /\ queue = <<>> /\ inflight = <<>> /\ pending = Nothing

(* Once everything is handled the index is the tree on the disk: no order   *)
(* of scans, events, moves and suppressed events loses or keeps an entry.   *)
IndexIsTree == Settled => index = Tree

(* Once everything is handled each directory of the tree has its own watch, *)
(* tracked at its present path, and nothing else is watched.  (A record of  *)
(* a watch that went with its directory may remain.)                        *)
WatchesCoverTree ==
  Settled => {<<subs[i].wd, subs[i].path>> : i \in {j \in live : subs[j].wd \in Range(kernel)}}
               = {<<kernel[disk[p]], p>> : p \in {q \in DOMAIN Tree : Tree[q] = "dir"}}

(* Whatever the kernel watches the backend tracks: a removal, a failed scan *)
(* and an invalidation leave no watch behind.                               *)
WatchesAreTracked ==
  Idle => Range(kernel) \subseteq Wds(live)

(* The last the batch says of a path, or what the client found at first. *)
HasType(path, types) ==
  \E e \in Batch(mEvents) : e.entry[1] = path /\ e.type \in types

Known(path) == \/ HasType(path, {"create", "update"})
               \/ path \in before /\ ~HasType(path, {"delete"})

(* Whatever is in the tree in the end, the client has been told of it: no   *)
(* cancellation of a create by a delete hides an entry that is there.       *)
NothingIsMissed == Settled => \A path \in DOMAIN Tree : Known(path)
=============================================================================
