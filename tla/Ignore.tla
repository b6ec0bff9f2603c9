--------------------------------- MODULE Ignore ---------------------------------
(* Watcher::isIgnored (src/src/Watcher.cc) as one thread calls it: a cache  *)
(* of the states of the globs per directory, which belongs to the thread    *)
(* and serves whichever watcher asks.  A path is relative to the watched    *)
(* directory.                                                               *)
EXTENDS Glob, FiniteSets

CONSTANTS Watcher,     \* the places in memory where there may be a watcher
          Option,      \* what a client may ask to ignore: sets of raw globs
          Word,
          MaxDepth,    \* bound on the length of a path
          MaxIds,      \* bound on the number of watchers
          CacheLimit,  \* 16384
          Insensitive, \* the sets of directories that may ignore the case
          MayChange,   \* this changes where cached states depend on it: see MakesStale
          None

ASSUME IgnoreAssumption ==
  /\ MaxDepth \in Nat \ {0} /\ MaxIds \in Nat \ {0} /\ CacheLimit \in Nat \ {0}
  /\ MayChange \in BOOLEAN

(* Words are sequences, and a raw glob is a sequence of at least one.       *)
ASSUME WordAssumption ==
  /\ \A word \in Word : word \in Seq(Range(word))
  /\ \A raws \in Option : \A raw \in raws :
       /\ raw # <<>> /\ raw \in Seq(Range(raw))
       /\ \A word \in Range(raw) : word \in Seq(Range(word))

VARIABLES
  watchers,    \* what is at each place: [id, raws, globs], or None
  nextId,      \* getNextWatcherId
  insensitive, \* the directories whose entries are looked up ignoring case
  watcherId,   \* ThreadIgnoreCache: whose states these are, 0 for nobody's
  rootState,
  dirs,        \* a function from directories to states
  last,        \* the last directory asked for: [dir, state], or None
  query,       \* the call that is running: [watcher, path], or None
  walk,        \* resolveDirGlobState's second loop: [dir, done, state], or NoWalk
  answer       \* of the last call: [watcher, path, ignored], or None

cacheVars  == <<watcherId, rootState, dirs, last>>
ignoreVars == <<watchers, nextId, insensitive, cacheVars, query, walk, answer>>

Paths(depth) == UNION {[1 .. n -> Word] : n \in 1 .. depth}

NoDirs == [dir \in {} |-> None]
NoWalk == [dir |-> <<>>, done |-> 0, state |-> None]
Walking == walk # NoWalk

----------------------------------------------------------------------------
(* DirGlobState.  The states do not matter once the directory is ignored;   *)
(* allDead says that all of them are empty.                                 *)
Verdict(states) ==
  IF \E g \in DOMAIN states : Accepts(g, states[g])
    THEN [ignored |-> TRUE, states |-> [g \in DOMAIN states |-> {}]]
    ELSE [ignored |-> FALSE, states |-> states]

RootGlobState(globs) == Verdict([g \in globs |-> InitialState(g)])

StepDirGlobState(state, word, ignoreCase) ==
  IF state.ignored THEN state
  ELSE Verdict([g \in DOMAIN state.states |->
                  StepBitmask(g, state.states[g], word, ignoreCase)])

IsComponentIgnored(state, word, ignoreCase) ==
  StepDirGlobState(state, word, ignoreCase).ignored

----------------------------------------------------------------------------
(* The constructor: the double stars at the end go, and so do duplicates.   *)
Normalized(raw) ==
  LET kept == {n \in 1 .. Len(raw) : n = 1 \/ raw[n] # DoubleStar}
  IN SubSeq(raw, 1, CHOOSE n \in kept : \A m \in kept : m <= n)

Construct(w, raws) ==
  /\ query = None /\ nextId <= MaxIds
  /\ watchers' = [watchers EXCEPT ![w] =
                    [id |-> nextId, raws |-> raws,
                     globs |-> {Parts(Normalized(raw)) : raw \in raws}]]
  /\ nextId' = nextId + 1
  /\ answer' = None
  /\ UNCHANGED <<insensitive, cacheVars, query, walk>>

(* A cached state was made for another sensitivity. *)
MakesStale(directories) ==
  \E dir \in DOMAIN dirs : (Front(dir) \in directories) # (Front(dir) \in insensitive)

(* Directories are replaced by others, whose entries are looked up another  *)
(* way.                                                                     *)
Replace(directories) ==
  /\ query = None /\ (MakesStale(directories) => MayChange)
  /\ insensitive' = directories
  /\ answer' = None
  /\ UNCHANGED <<watchers, nextId, cacheVars, query, walk>>

AllUseBitmask(globs) == \A g \in globs : UsesBitmask(g)

Answered(w, path, ignored) ==
  answer' = [watcher |-> w, path |-> path, ignored |-> ignored]

(* The places of a path whose word is in a directory that ignores case. *)
Folded(path) == {j \in DOMAIN path : SubSeq(path, 1, j - 1) \in insensitive}

(* Without globs, or with one that has too many parts for a bit mask, the   *)
(* cache is left alone.                                                     *)
AskGlobs(w, path) ==
  LET globs == watchers[w].globs
  IN /\ query = None /\ watchers[w] # None
     /\ globs = {} \/ ~AllUseBitmask(globs)
     /\ Answered(w, path, \E g \in globs : IsPathOrAncestorIgnored(g, path, Folded(path)))
     /\ UNCHANGED <<watchers, nextId, insensitive, cacheVars, query, walk>>

IsCachedFor(w) == watcherId = watchers[w].id

AskCache(w, path) ==
  /\ query = None /\ watchers[w] # None
  /\ watchers[w].globs # {} /\ AllUseBitmask(watchers[w].globs)
  /\ query' = [watcher |-> w, path |-> path]
  /\ IF IsCachedFor(w)
       THEN UNCHANGED cacheVars
       ELSE /\ watcherId' = watchers[w].id
            /\ rootState' = RootGlobState(watchers[w].globs)
            /\ dirs' = NoDirs
            /\ last' = None
  /\ answer' = None
  /\ UNCHANGED <<watchers, nextId, insensitive, walk>>

----------------------------------------------------------------------------
(* resolveDirGlobState, and then isComponentIgnored of the last word. *)
RelDir == Front(query.path)

Conclude(state) ==
  /\ Answered(query.watcher, query.path,
              IsComponentIgnored(state, Last(query.path), RelDir \in insensitive))
  /\ query' = None /\ walk' = NoWalk
  /\ UNCHANGED <<watchers, nextId, insensitive, watcherId, rootState>>

Resolving == query # None /\ ~Walking

ResolveRoot ==
  /\ Resolving /\ RelDir = <<>>
  /\ Conclude(rootState)
  /\ UNCHANGED <<dirs, last>>

IsLast == last # None /\ last.dir = RelDir

ResolveLast ==
  /\ Resolving /\ RelDir # <<>> /\ IsLast
  /\ Conclude(last.state)
  /\ UNCHANGED <<dirs, last>>

ResolveKnown ==
  /\ Resolving /\ RelDir # <<>> /\ ~IsLast /\ RelDir \in DOMAIN dirs
  /\ last' = [dir |-> RelDir, state |-> dirs[RelDir]]
  /\ Conclude(dirs[RelDir])
  /\ UNCHANGED dirs

IsFull == Cardinality(DOMAIN dirs) >= CacheLimit

Left == IF IsFull THEN NoDirs ELSE dirs

Known == {n \in 1 .. Len(RelDir) : SubSeq(RelDir, 1, n) \in DOMAIN Left}

(* A full cache is emptied.  The walk starts below the nearest ancestor     *)
(* that is known.                                                           *)
Resolve ==
  /\ Resolving /\ RelDir # <<>> /\ ~IsLast /\ RelDir \notin DOMAIN dirs
  /\ dirs' = Left
  /\ \E from \in Known \cup {0} :
       /\ \A n \in Known : n <= from
       /\ walk' = [dir |-> RelDir, done |-> from,
                   state |-> IF from = 0 THEN rootState ELSE dirs[SubSeq(RelDir, 1, from)]]
  /\ UNCHANGED <<watchers, nextId, insensitive, watcherId, rootState, last, query, answer>>

(* One turn of the second loop. *)
Extend ==
  LET parent == SubSeq(walk.dir, 1, walk.done)
      word   == walk.dir[walk.done + 1]
      state  == StepDirGlobState(walk.state, word, parent \in insensitive)
  IN /\ Walking /\ walk.done < Len(walk.dir)
     /\ dirs' = [dir \in DOMAIN dirs \cup {Append(parent, word)} |->
                  IF dir \in DOMAIN dirs THEN dirs[dir] ELSE state]
     /\ walk' = [walk EXCEPT !.done = @ + 1, !.state = state]
     /\ UNCHANGED <<watchers, nextId, insensitive, watcherId, rootState, last, query,
                    answer>>

ResolveWalked ==
  /\ Walking /\ walk.done = Len(walk.dir)
  /\ last' = [dir |-> walk.dir, state |-> walk.state]
  /\ Conclude(walk.state)
  /\ UNCHANGED dirs

----------------------------------------------------------------------------
IgnoreInit ==
  /\ watchers = [w \in Watcher |-> None] /\ nextId = 1
  /\ insensitive \in Insensitive
  /\ watcherId = 0 /\ rootState = None /\ dirs = NoDirs /\ last = None
  /\ query = None /\ walk = NoWalk /\ answer = None

IgnoreNext ==
  \/ \E w \in Watcher, raws \in Option : Construct(w, raws)
  \/ \E directories \in Insensitive : Replace(directories)
  \/ \E w \in Watcher, path \in Paths(MaxDepth) : AskGlobs(w, path) \/ AskCache(w, path)
  \/ ResolveRoot \/ ResolveLast \/ ResolveKnown \/ Resolve \/ Extend \/ ResolveWalked

IgnoreSpec == IgnoreInit /\ [][IgnoreNext]_ignoreVars

----------------------------------------------------------------------------
(* Every answer is what the documentation says of the client's globs: not   *)
(* that of another watcher, of another directory, or of a state that was    *)
(* cut short; the same with a bit mask and without, cached or not.          *)
AnswerIsMeant ==
  answer # None =>
    (answer.ignored <=> \E raw \in watchers[answer.watcher].raws :
                          Means(raw, answer.path, Folded(answer.path)))

(* The cache is a tree: a directory is known only with its parent, and its  *)
(* state is one step from its parent's, so that any entry is as good as a   *)
(* walk from the root.                                                      *)
CacheIsChained ==
  /\ \A dir \in DOMAIN dirs :
       LET parent == Front(dir)
       IN /\ parent # <<>> => parent \in DOMAIN dirs
          /\ dirs[dir] = StepDirGlobState(IF parent = <<>> THEN rootState ELSE dirs[parent],
                                          Last(dir), parent \in insensitive)
  /\ last # None /\ ~Walking =>
       last.dir \in DOMAIN dirs /\ last.state = dirs[last.dir]

=============================================================================
