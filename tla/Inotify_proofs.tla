---------------------------- MODULE Inotify_proofs ----------------------------
(* Proofs about Inotify, for any tree, file system and bounds: the backend   *)
(* knows every watch that it has in the kernel (TrackInv), whatever changes  *)
(* while a directory is scanned, and whatever handles an event and in which  *)
(* order. A watch that no record names would never be removed again.         *)
EXTENDS Inotify, FiniteSetTheorems, TLAPS

(* A watch of the kernel belongs to a record that is in use. The watches are *)
(* compared by their descriptor: two records can share one, if the watched   *)
(* directory was moved and found again.                                      *)
Tracked == Range(kernel) \subseteq Wds(live)

(* The records in use exist, and there are finitely many: so Fresh finds an  *)
(* identity that none of them has.                                           *)
SubsOK ==
  /\ IsFiniteSet(DOMAIN subs) /\ live \subseteq DOMAIN subs
  /\ \A i \in DOMAIN subs : subs[i] = [wd |-> subs[i].wd, path |-> subs[i].path]

TrackInv == SubsOK /\ Tracked

(* There is a least number in a set of numbers.                              *)
LEMMA LeastNat ==
  ASSUME NEW T, T \subseteq Nat, T # {}
  PROVE  \E n \in T : \A m \in T : n <= m
<1> DEFINE R == {p \in Nat \X Nat : p[1] < p[2]}
<1>1. IsWellFoundedOn(R, Nat)
  BY NatLessThanWellFounded DEF OpToRel
<1>2. \E n \in T : \A m \in T : ~ (<<m, n>> \in R)
  <2> HIDE DEF R
  <2> QED
    BY <1>1, WFMin
<1>3. PICK n \in T : \A m \in T : ~ (<<m, n>> \in R)
  BY <1>2
<1>4. ASSUME NEW m \in T PROVE n <= m
  <2>1. m \in Nat /\ n \in Nat /\ ~(<<m, n>> \in R)
    BY <1>3
  <2>2. ~(m < n)
    BY <2>1
  <2> QED
    BY <2>1, <2>2
<1> QED
  BY <1>4

(* Of n + 1 numbers one is not among n.                                      *)
LEMMA FreshIsNew ==
  ASSUME NEW used, IsFiniteSet(used)
  PROVE  Fresh(used) \notin used
<1> DEFINE n == Cardinality(used)
           free == 1 .. (n + 1) \ used
<1>1. n \in Nat
  BY FS_CardinalityType
<1>2. IsFiniteSet(1 .. (n + 1)) /\ Cardinality(1 .. (n + 1)) = n + 1
  BY <1>1, FS_Interval
<1>3. free # {}
  <2> SUFFICES ASSUME free = {} PROVE FALSE
    OBVIOUS
  <2>1. 1 .. (n + 1) \subseteq used
    OBVIOUS
  <2>2. Cardinality(1 .. (n + 1)) <= n
    BY <2>1, FS_Subset
  <2> QED
    BY <1>1, <1>2, <2>2
<1>4. \E x \in free : \A y \in free : x <= y
  <2>1. free \subseteq Nat
    BY <1>1
  <2> HIDE DEF free
  <2> QED
    BY <1>3, <2>1, LeastNat
<1>5. Least(free) \in free
  BY <1>4 DEF Least
<1> QED
  BY <1>5 DEF Fresh

(* What Keep leaves of a function.                                           *)
LEMMA KeepIs ==
  ASSUME NEW tree, NEW paths
  PROVE  /\ DOMAIN Keep(tree, paths) = DOMAIN tree \cap paths
         /\ \A x \in DOMAIN tree \cap paths : Keep(tree, paths)[x] = tree[x]
BY DEF Keep

(* ... adds no value to it.                                                  *)
LEMMA KeptIs ==
  ASSUME NEW tree, NEW paths
  PROVE  Range(Keep(tree, paths)) \subseteq Range(tree)
<1>1. /\ DOMAIN Keep(tree, paths) = DOMAIN tree \cap paths
      /\ \A x \in DOMAIN tree \cap paths : Keep(tree, paths)[x] = tree[x]
  BY KeepIs
<1> QED
  BY <1>1 DEF Range

(* The kernel keeps some watches, and the backend the records of these.     *)
LEMMA FewerWatches ==
  ASSUME TrackInv, NEW paths, kernel' = Keep(kernel, paths), UNCHANGED <<live, subs>>
  PROVE  TrackInv'
<1>1. SubsOK'
  BY DEF TrackInv, SubsOK
<1>2. Range(kernel') \subseteq Range(kernel)
  BY KeptIs
<1>3. Wds(live)' = Wds(live)
  BY DEF Wds
<1> QED
  BY <1>1, <1>2, <1>3 DEF TrackInv, Tracked

(* Records are dropped that nobody refers to.                               *)
LEMMA ReferencedKept ==
  ASSUME NEW objects, KeepReferenced(objects), IsFiniteSet(DOMAIN objects),
         live' \subseteq DOMAIN objects,
         \A i \in DOMAIN objects : objects[i] = [wd |-> objects[i].wd, path |-> objects[i].path]
  PROVE  /\ SubsOK'
         /\ Wds(live)' = {objects[i].wd : i \in live'}
<1> DEFINE kept == live' \cup todo' \cup UNION {pending'[c].subs : c \in DOMAIN pending'}
<1>1. subs' = Keep(objects, kept)
  BY DEF KeepReferenced
<1> HIDE DEF kept
<1>2. /\ DOMAIN subs' = DOMAIN objects \cap kept
      /\ \A x \in DOMAIN objects \cap kept : subs'[x] = objects[x]
  BY <1>1, KeepIs
<1>3. live' \subseteq kept
  BY DEF kept
<1>4. IsFiniteSet(DOMAIN subs')
  BY <1>2, FS_Subset
<1>5. SubsOK'
  BY <1>2, <1>3, <1>4 DEF SubsOK
<1>6. Wds(live)' = {objects[i].wd : i \in live'}
  BY <1>2, <1>3 DEF Wds
<1> QED
  BY <1>5, <1>6

(* The records keep their watches, whatever their paths.                    *)
SameWds(objects) ==
  /\ DOMAIN objects = DOMAIN subs
  /\ \A i \in DOMAIN subs : objects[i] = [wd |-> subs[i].wd, path |-> objects[i].path]

(* In particular the records there are.                                      *)
LEMMA SubsHaveSame == TrackInv => SameWds(subs)
BY DEF TrackInv, SubsOK, SameWds

(* No watch is added or removed.                                             *)
LEMMA UnchangedWatches ==
  ASSUME TrackInv, NEW objects, SameWds(objects), KeepReferenced(objects),
         UNCHANGED <<kernel, live>>
  PROVE  TrackInv'
<1>1. SubsOK' /\ Wds(live)' = {objects[i].wd : i \in live'}
  BY ReferencedKept DEF TrackInv, SubsOK, SameWds
<1>2. {objects[i].wd : i \in live'} = Wds(live)
  BY DEF TrackInv, SubsOK, SameWds, Wds
<1> QED
  BY <1>1, <1>2 DEF TrackInv, Tracked

(* removeSubscriptions: a watch stays as long as a record has it.           *)
LEMMA RemoveKeeps ==
  ASSUME TrackInv, NEW objects, SameWds(objects), KeepReferenced(objects),
         NEW ids, ids \subseteq live, RemoveSubs(ids)
  PROVE  TrackInv'
<1> DEFINE gone == Wds(ids) \ Wds(live \ ids)
           stay == {inode \in DOMAIN kernel : kernel[inode] \notin gone}
<1>1. live' = live \ ids /\ kernel' = Keep(kernel, stay)
  BY DEF RemoveSubs
<1>2. SubsOK' /\ Wds(live)' = {objects[i].wd : i \in live'}
  <2>1. live' \subseteq DOMAIN objects /\ IsFiniteSet(DOMAIN objects)
    BY <1>1 DEF TrackInv, SubsOK, SameWds
  <2>2. \A i \in DOMAIN objects : objects[i] = [wd |-> objects[i].wd, path |-> objects[i].path]
    BY DEF SameWds
  <2> QED
    BY <2>1, <2>2, ReferencedKept
<1>3. {objects[i].wd : i \in live'} = Wds(live \ ids)
  <2>1. \A i \in live : objects[i].wd = subs[i].wd
    BY DEF TrackInv, SubsOK, SameWds
  <2> QED
    BY <1>1, <2>1 DEF Wds
<1>4. Range(kernel') \subseteq Range(kernel) \ gone
  <2> HIDE DEF gone
  <2>1. /\ DOMAIN kernel' = DOMAIN kernel \cap stay
        /\ \A x \in DOMAIN kernel \cap stay : kernel'[x] = kernel[x]
    BY <1>1, KeepIs
  <2> QED
    BY <2>1 DEF Range
<1>5. Wds(live) \subseteq Wds(ids) \cup Wds(live \ ids)
  BY DEF Wds
<1>6. Range(kernel') \subseteq Wds(live \ ids)
  BY <1>4, <1>5 DEF TrackInv, Tracked
<1> QED
  BY <1>2, <1>3, <1>6 DEF TrackInv, Tracked

(* watchDir: the new watch has a record, and what is removed with the old   *)
(* records of the path had none but these.                                  *)
LEMMA WatchDirKeeps ==
  ASSUME TrackInv, NEW path, WatchDir(path)
  PROVE  TrackInv'
<1> DEFINE inode   == disk[path]
           wd      == IF inode \in DOMAIN kernel THEN kernel[inode] ELSE Fresh(UsedWds)
           here    == {i \in live : subs[i].path = path}
           stale   == {i \in here : subs[i].wd # wd}
           gone    == Wds(stale) \ Wds(live \ stale)
           tracked == here # stale
           id      == Fresh(DOMAIN subs)
           record  == [wd |-> wd, path |-> path]
           objects == Add(subs, id, record)
           stay    == {i \in DOMAIN kernel : kernel[i] \notin gone}
<1>1. /\ kernel' = Add(Keep(kernel, stay), inode, wd)
      /\ live' = (live \ stale) \cup (IF tracked THEN {} ELSE {id})
      /\ KeepReferenced(objects)
  BY DEF WatchDir
<1>2. id \notin DOMAIN subs
  BY FreshIsNew DEF TrackInv, SubsOK
<1> HIDE DEF id, wd, inode
<1>3. /\ DOMAIN objects = DOMAIN subs \cup {id}
      /\ \A i \in DOMAIN subs : objects[i] = subs[i]
      /\ objects[id] = record
  BY <1>2 DEF Add
<1>4. IsFiniteSet(DOMAIN objects)
  BY <1>3, FS_AddElement DEF TrackInv, SubsOK
<1>5. \A i \in DOMAIN objects : objects[i] = [wd |-> objects[i].wd, path |-> objects[i].path]
  BY <1>3 DEF TrackInv, SubsOK
<1> HIDE DEF objects, stay
<1>6. live' \subseteq DOMAIN objects
  BY <1>1, <1>3 DEF TrackInv, SubsOK
<1>7. SubsOK' /\ Wds(live)' = {objects[i].wd : i \in live'}
  BY <1>1, <1>4, <1>5, <1>6, ReferencedKept
<1>8. Wds(live \ stale) \subseteq Wds(live)'
  <2> SUFFICES ASSUME NEW i \in live \ stale PROVE subs[i].wd \in Wds(live)'
    BY DEF Wds
  <2>1. i \in live' /\ objects[i].wd = subs[i].wd
    BY <1>1, <1>3 DEF TrackInv, SubsOK
  <2> QED
    BY <1>7, <2>1
<1>9. wd \in Wds(live)'
  <2>1. CASE tracked
    <3>1. PICK i \in here : i \notin stale
      BY <2>1
    <3>2. i \in live \ stale /\ subs[i].wd = wd
      BY <3>1
    <3> QED
      BY <3>2, <1>8 DEF Wds
  <2>2. CASE ~tracked
    BY <2>2, <1>1, <1>3, <1>7
  <2> QED
    BY <2>1, <2>2
<1>10. Range(kernel') \subseteq (Range(kernel) \ gone) \cup {wd}
  <2> DEFINE kept == Keep(kernel, stay)
  <2>1. /\ DOMAIN kept = DOMAIN kernel \cap stay
        /\ \A x \in DOMAIN kernel \cap stay : kept[x] = kernel[x]
    BY KeepIs
  <2>2. \A x \in stay : kernel[x] \notin gone
    BY DEF stay
  <2> HIDE DEF kept, gone
  <2>3. \A x \in DOMAIN kernel' : kernel'[x] = IF x \in DOMAIN kept THEN kept[x] ELSE wd
    BY <1>1 DEF kept, Add
  <2>4. DOMAIN kernel' = DOMAIN kept \cup {inode}
    BY <1>1 DEF kept, Add
  <2> QED
    BY <2>1, <2>2, <2>3, <2>4 DEF Range
<1>11. Wds(live) \subseteq Wds(stale) \cup Wds(live \ stale)
  BY DEF Wds
<1>12. Range(kernel') \subseteq Wds(live)'
  BY <1>8, <1>9, <1>10, <1>11 DEF TrackInv, Tracked
<1> QED
  BY <1>7, <1>12 DEF TrackInv, Tracked

(* Whoever uses the disk can take a watch away with its directory, and adds *)
(* none.                                                                    *)
LEMMA UnlinkedKeeps ==
  ASSUME TrackInv, NEW path, UNCHANGED <<live, subs>>,
         UNCHANGED kernel \/ Unlinked(path)
  PROVE  TrackInv'
<1>1. CASE UNCHANGED kernel
  BY <1>1 DEF TrackInv, SubsOK, Tracked, Wds
<1>2. CASE Unlinked(path)
  BY <1>2, FewerWatches DEF Unlinked
<1> QED
  BY <1>1, <1>2

(* A change of the disk.                                                     *)
LEMMA FileSystemKeeps ==
  ASSUME TrackInv, FileSystem \/ FinishMove
  PROVE  TrackInv'
<1>1. ASSUME NEW path, NEW inode, MakeEntry(path, inode) PROVE TrackInv'
  BY <1>1, UnlinkedKeeps DEF MakeEntry, Change
<1>2. ASSUME NEW path, DeleteEntry(path) PROVE TrackInv'
  BY <1>2, UnlinkedKeeps DEF DeleteEntry, Change
<1>3. ASSUME NEW path, WriteFile(path) PROVE TrackInv'
  BY <1>3, UnlinkedKeeps DEF WriteFile, Change
<1>4. ASSUME NEW path, NEW to, MoveEntry(path, to) PROVE TrackInv'
  BY <1>4, UnlinkedKeeps DEF MoveEntry, Change
<1>5. CASE LoseRoot
  <2>1. UNCHANGED <<live, subs>> /\ kernel' = [inode \in {} |-> 0]
    BY <1>5 DEF LoseRoot, Change
  <2> QED
    BY <2>1 DEF TrackInv, SubsOK, Tracked, Wds, Range
<1>6. CASE FinishMove
  BY <1>6, UnlinkedKeeps DEF FinishMove
<1> QED
  BY <1>1, <1>2, <1>3, <1>4, <1>5, <1>6 DEF FileSystem

(* What is removed was in use.                                               *)
LEMMA SubsUnderLive == ASSUME NEW path PROVE SubsUnder(path) \subseteq live
BY DEF SubsUnder

(* addCreatedTree gives up a directory that is gone.                         *)
LEMMA GiveUpKeeps ==
  ASSUME TrackInv, NEW path, NEW rest, GiveUp(path, rest)
  PROVE  TrackInv'
BY RemoveKeeps, SubsHaveSame, SubsUnderLive DEF GiveUp

(* The records and the watches are left alone.                              *)
LEMMA OthersKeep ==
  ASSUME TrackInv, UNCHANGED <<kernel, live, subs>>
  PROVE  TrackInv'
BY DEF TrackInv, SubsOK, Tracked, Wds

(* A step of subscribe, or of addCreatedTree.                                *)
LEMMA ScanningKeeps ==
  ASSUME TrackInv, Scanning
  PROVE  TrackInv'
<1>1. CASE JobWatch
  BY <1>1, WatchDirKeeps DEF JobWatch
<1>2. CASE JobFails
  BY <1>2, RemoveKeeps, SubsHaveSame DEF JobFails, Fails
<1>3. CASE Open \/ Stat \/ Ascend \/ EndScan
  BY <1>3, OthersKeep DEF Open, Stat, Ascend, EndScan, kernelVars
<1>4. CASE OpenFails
  BY <1>4, GiveUpKeeps DEF OpenFails
<1>5. CASE EndReconcile
  <2>1. PICK dirs : RemoveSubs(UNION {SubsUnder(p) : p \in dirs}) /\ KeepReferenced(subs)
    BY <1>5 DEF EndReconcile
  <2>2. UNION {SubsUnder(p) : p \in dirs} \subseteq live
    BY SubsUnderLive
  <2> QED
    BY <2>1, <2>2, RemoveKeeps, SubsHaveSame
<1>6. ASSUME NEW path, Descend(path) PROVE TrackInv'
  BY <1>6, WatchDirKeeps DEF Descend
<1>7. ASSUME NEW path, DescendFails(path) PROVE TrackInv'
  BY <1>7, GiveUpKeeps DEF DescendFails
<1> QED
  BY <1>1, <1>2, <1>3, <1>4, <1>5, <1>6, <1>7 DEF Scanning

(* What is at a path is found to be gone: its subscriptions are removed.     *)
LEMMA VanishKeeps ==
  ASSUME TrackInv, NEW objects, SameWds(objects), KeepReferenced(objects),
         NEW path, NEW tree, NEW events, Vanish(path, objects, tree, events)
  PROVE  TrackInv'
<1>1. PICK ids : ids \subseteq live /\ RemoveSubs(ids)
  BY DEF Vanish
<1> QED
  BY <1>1, RemoveKeeps

(* The records of a moved directory get their new paths.                     *)
LEMMA MovedHaveSame ==
  ASSUME TrackInv, NEW move, NEW path
  PROVE  SameWds(MoveSubs(move, path))
<1> DEFINE objects == MoveSubs(move, path)
<1> SUFFICES ASSUME NEW i \in DOMAIN subs
             PROVE  objects[i] = [wd |-> subs[i].wd, path |-> objects[i].path]
  BY DEF SameWds, MoveSubs
<1>1. subs[i] = [wd |-> subs[i].wd, path |-> subs[i].path]
  BY DEF TrackInv, SubsOK
<1>2. objects[i] = IF i \in move.subs
                     THEN [subs[i] EXCEPT !.path = Rebased(@, move.path, path)] ELSE subs[i]
  BY DEF MoveSubs
<1> HIDE DEF objects
<1> QED
  BY <1>1, <1>2

(* A watcher handles an event.                                               *)
LEMMA HandlingKeeps ==
  ASSUME TrackInv, NEW i \in todo,
         \/ RootLost(i) \/ Suppress(i) \/ Ignore(i) \/ Appear(i)
         \/ CompleteMove(i) \/ Modify(i) \/ Leave(i) \/ Disappear(i)
  PROVE  TrackInv'
<1>0. SameWds(subs)
  BY SubsHaveSame
<1>1. CASE RootLost(i)
  BY <1>0, <1>1, RemoveKeeps DEF RootLost
<1>2. CASE Suppress(i) \/ Ignore(i) \/ Modify(i) \/ Leave(i)
  BY <1>0, <1>2, UnchangedWatches DEF Suppress, Ignore, Modify, Leave, kernelVars
<1>3. CASE Appear(i)
  <2>1. KeepReferenced(subs)
    BY <1>3 DEF Appear
  <2>2. \/ UNCHANGED <<kernel, live>>
        \/ Vanish(PathOf(i), subs, index, mEvents)
    BY <1>3 DEF Appear
  <2> QED
    BY <1>0, <2>1, <2>2, UnchangedWatches, VanishKeeps
<1>4. CASE CompleteMove(i)
  <2> DEFINE objects == MoveSubs(pending[event.cookie], PathOf(i))
  <2>1. KeepReferenced(objects)
    BY <1>4 DEF CompleteMove
  <2>2. \/ UNCHANGED <<kernel, live>>
        \/ \E tree, told : Vanish(PathOf(i), objects, tree, told)
    BY <1>4 DEF CompleteMove
  <2>3. SameWds(objects)
    BY MovedHaveSame
  <2> HIDE DEF objects
  <2> QED
    BY <2>1, <2>2, <2>3, UnchangedWatches, VanishKeeps
<1>5. CASE Disappear(i)
  <2>1. PICK ids : ids \subseteq live /\ RemoveSubs(ids) /\ KeepReferenced(subs)
    BY <1>5, SubsUnderLive DEF Disappear
  <2> QED
    BY <1>0, <2>1, RemoveKeeps
<1> QED
  BY <1>1, <1>2, <1>3, <1>4, <1>5

(* Every step keeps the invariant.                                           *)
LEMMA TrackStep ==
  ASSUME TrackInv, [InotifyNext]_inotifyVars
  PROVE  TrackInv'
<1>1. CASE FileSystem \/ FinishMove
  BY <1>1, FileSystemKeeps
<1>2. CASE Scanning
  BY <1>2, ScanningKeeps
<1>3. CASE Handling
  BY <1>3, HandlingKeeps DEF Handling
<1>4. CASE Subscribe \/ Read \/ ReadAll \/ UNCHANGED inotifyVars
  BY <1>4, OthersKeep DEF Subscribe, Read, ReadAll, inotifyVars, kernelVars
<1>5. CASE Unsubscribe
  BY <1>5, RemoveKeeps, SubsHaveSame DEF Unsubscribe
<1>6. CASE HandleOverflow
  BY <1>6, RemoveKeeps, SubsHaveSame DEF HandleOverflow
<1>7. ASSUME NEW cookies, FlushExpired(cookies) PROVE TrackInv'
  <2>1. PICK ids : ids \subseteq live /\ RemoveSubs(ids) /\ KeepReferenced(subs)
    BY <1>7 DEF FlushExpired
  <2> QED
    BY <2>1, RemoveKeeps, SubsHaveSame
<1> QED
  BY <1>1, <1>2, <1>3, <1>4, <1>5, <1>6, <1>7 DEF InotifyNext

(* InotifyBackend leaves no watch behind: whatever inotify_rm_watch has yet  *)
(* to remove is in mSubscriptions. watchDir keeps the two together when a    *)
(* directory gets another watch or a second record, removeSubscriptions when *)
(* several records share one, handleSubscription when the kernel drops a     *)
(* watch with its directory, and unsubscribe, an overflow and a failed scan  *)
(* when they take everything back.                                           *)
THEOREM NoWatchIsLeft == InotifySpec => []WatchesAreTracked
<1>1. InotifyInit => TrackInv
  BY FS_EmptySet DEF InotifyInit, TrackInv, SubsOK, Tracked, Wds, Nothing, Range
<1>2. TrackInv => WatchesAreTracked
  BY DEF TrackInv, Tracked, WatchesAreTracked
<1> QED
  BY <1>1, <1>2, TrackStep, PTL DEF InotifySpec
=============================================================================
