-------------------------------- MODULE Events --------------------------------
(* The methods of EventList (src/src/Event.hh) as operators on the map of   *)
(* pending events: a function from entries (a path and a kind) to what      *)
(* happened to them since the list was drained.                             *)
EXTENDS FiniteSets

CONSTANT NoId  \* for an event without an id

----------------------------------------------------------------------------
(* internalUpdate finds the event of k, or gives it one. *)
EventOf(events, k) ==
  IF k \in DOMAIN events
    THEN events[k]
    ELSE [isCreated |-> FALSE, isDeleted |-> FALSE, renameId |-> NoId]

With(events, k, event) ==
  [l \in DOMAIN events \cup {k} |-> IF l = k THEN event ELSE events[l]]

Without(events, k) == [l \in DOMAIN events \ {k} |-> events[l]]

(* mutant: a created entry is created, whatever was there before *)
AlwaysCreated(event, id) ==
  [isCreated |-> TRUE, isDeleted |-> FALSE, renameId |-> id]

(* An entry comes back, or appears.  To come back within a batch is to be   *)
(* updated, so there is no pair to correlate.                               *)
Appeared(event, id) ==
  IF event.isDeleted
    THEN [event EXCEPT !.isDeleted = FALSE, !.renameId = NoId]
    ELSE [event EXCEPT !.isCreated = TRUE, !.renameId = id]

Created(events, k) ==
  LET event == EventOf(events, k)
  IN With(events, k, Appeared(event, event.renameId))

Updated(events, k) == With(events, k, EventOf(events, k))

Removed(events, k) ==
  With(events, k, [EventOf(events, k) EXCEPT !.isDeleted = TRUE, !.renameId = NoId])

(* k was created in this batch: it is a single create at its last place,    *)
(* and keeps the id of the rename that created it.                          *)
RenamedCreated(events, k, l) ==
  With(Without(events, k), l,
       Appeared(EventOf(Without(events, k), l), events[k].renameId))

(* k was there before this batch: a delete and a create, with a common id   *)
(* unless l is only updated.                                                *)
RenamedOld(events, k, l, id) ==
  LET wasDeleted == EventOf(events, l).isDeleted
      removed    == With(events, k,
                         [EventOf(events, k) EXCEPT
                            !.isDeleted = TRUE,
                            !.renameId = IF wasDeleted THEN NoId ELSE id])
  IN With(removed, l, Appeared(EventOf(removed, l), id))

Renamed(events, k, l, id) ==
  IF EventOf(events, k).isCreated THEN RenamedCreated(events, k, l)
                                  ELSE RenamedOld(events, k, l, id)

----------------------------------------------------------------------------
(* EventList::drain: what was created and deleted in one batch is left out, *)
(* and an id remains only where exactly one delete and one create have it.  *)
Reported(events) ==
  {k \in DOMAIN events : ~(events[k].isCreated /\ events[k].isDeleted)}

TypeOf(event) == IF event.isCreated THEN "create"
                 ELSE IF event.isDeleted THEN "delete" ELSE "update"

HaveId(events, id, type) ==
  {k \in Reported(events) : events[k].renameId = id /\ TypeOf(events[k]) = type}

(* mutant: ids are reported as they are *)
KeepsAnyId(events, id) == TRUE

KeepsId(events, id) == /\ Cardinality(HaveId(events, id, "create")) = 1
                       /\ Cardinality(HaveId(events, id, "delete")) = 1
                       /\ HaveId(events, id, "update") = {}

Batch(events) ==
  {[entry |-> k, type |-> TypeOf(events[k]),
    renameId |-> IF KeepsId(events, events[k].renameId)
                   THEN events[k].renameId ELSE NoId] : k \in Reported(events)}
=============================================================================
