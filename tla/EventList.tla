------------------------------ MODULE EventList ------------------------------
(* The list of pending events of one watcher (src/src/Event.hh).  A backend *)
(* keeps an index of the tree it watches and calls the list for every       *)
(* change of the index; the debounce thread drains the list.  The list      *)
(* folds what happens between two drains into one event for each entry.     *)
EXTENDS Events

CONSTANTS Path,
          Kind,     \* file, directory
          RenameId,
          Error,
          NoError

ASSUME NoIdAssumption == NoId \notin RenameId
ASSUME NoErrorAssumption == NoError \notin Error

(* EventKey: a file and a directory at one path have an event each. *)
Entry == Path \X Kind

(* Only a create or a delete has an id; what came and went has none. *)
Event == {event \in [isCreated : BOOLEAN, isDeleted : BOOLEAN,
                     renameId : RenameId \cup {NoId}] :
            event.renameId # NoId => event.isCreated # event.isDeleted}

VARIABLES
  mEvents,  \* a function from some entries to events
  mError,
  tree,     \* the backend's index
  before,   \* the index when the list was drained last, for the properties
  cameFrom  \* where else each entry was since then, likewise

listVars == <<mEvents, mError, tree, before, cameFrom>>

EventsTypeOK ==
  /\ DOMAIN mEvents \subseteq Entry
  /\ mEvents \in [DOMAIN mEvents -> Event]
  /\ mError \in Error \cup {NoError}
  /\ tree \subseteq Entry /\ before \subseteq Entry
  /\ cameFrom \in [Entry -> SUBSET Entry]

ListInit ==
  /\ mEvents = [k \in {} |-> NoId]
  /\ mError = NoError
  /\ tree \in SUBSET Entry
  /\ \A k, l \in tree : k[1] = l[1] => k = l
  /\ before = tree
  /\ cameFrom = [k \in Entry |-> {}]

----------------------------------------------------------------------------
(* The backend's thread: something appeared at a path of the index ... *)
Create(k) ==
  /\ \A l \in tree : l[1] # k[1]
  /\ mEvents' = Created(mEvents, k)
  /\ tree' = tree \cup {k}
  /\ UNCHANGED <<mError, before, cameFrom>>

(* ... was written to, or was replaced by something of its kind ... *)
Update(k) ==
  /\ k \in tree
  /\ mEvents' = Updated(mEvents, k)
  /\ UNCHANGED <<mError, tree, before, cameFrom>>

(* ... or is gone.  What is moved onto another entry is gone, too, and that *)
(* entry is updated.                                                        *)
Remove(k) ==
  /\ k \in tree
  /\ mEvents' = Removed(mEvents, k)
  /\ tree' = tree \ {k}
  /\ cameFrom' = [cameFrom EXCEPT ![k] = {}]
  /\ UNCHANGED <<mError, before>>

(* It was moved to a free path; the id is a new one. *)
Rename(k, l, id) ==
  /\ k \in tree /\ k[2] = l[2]
  /\ \A m \in tree : m[1] # l[1]
  /\ \A m \in DOMAIN mEvents : mEvents[m].renameId # id
  /\ mEvents' = Renamed(mEvents, k, l, id)
  /\ tree' = (tree \ {k}) \cup {l}
  /\ cameFrom' = [cameFrom EXCEPT ![k] = {}, ![l] = cameFrom[k] \cup {k}]
  /\ UNCHANGED <<mError, before>>

(* EventList::error keeps the first one. *)
Fail(err) ==
  /\ mError' = IF mError = NoError THEN err ELSE mError
  /\ UNCHANGED <<mEvents, tree, before, cameFrom>>

(* The debounce thread takes Batch(mEvents) and mError. *)
Drain ==
  /\ mEvents' = [k \in {} |-> NoId]
  /\ mError' = NoError
  /\ before' = tree
  /\ cameFrom' = [k \in Entry |-> {}]
  /\ UNCHANGED tree

ListNext ==
  \/ \E k \in Entry : Create(k) \/ Update(k) \/ Remove(k)
  \/ \E k, l \in Entry, id \in RenameId : Rename(k, l, id)
  \/ \E err \in Error : Fail(err)
  \/ Drain

ListSpec == ListInit /\ [][ListNext]_listVars

----------------------------------------------------------------------------
(* A batch has the net effect of what happened: an entry is reported as     *)
(* created if and only if it is there now and was not at the last drain, as *)
(* deleted if and only if it was and is not, and as updated only if it was  *)
(* and is; whatever was created, removed and moved to and fro in between.   *)
NetEffect ==
  \A k \in Entry :
    LET types == {event.type : event \in {e \in Batch(mEvents) : e.entry = k}}
    IN /\ "create" \in types <=> k \in tree \ before
       /\ "delete" \in types <=> k \in before \ tree
       /\ "update" \in types => k \in before \cap tree

(* An id in a batch stands for a move: exactly one delete and one create    *)
(* have it, and what is at the created path now was moved there, perhaps    *)
(* over other paths, from the deleted one since the last drain.             *)
PairsAreMoves ==
  \A event \in Batch(mEvents) : event.renameId # NoId =>
    \E l \in tree : \E k \in cameFrom[l] :
      {<<e.entry, e.type>> : e \in {f \in Batch(mEvents) :
                                      f.renameId = event.renameId}}
        = {<<k, "delete">>, <<l, "create">>}
=============================================================================
