------------------------- MODULE SubscriptionTable -------------------------
(* What the registry of shared watchers promises its callers: one table of  *)
(* (key, callback) pairs, where a key is a directory with its ignore        *)
(* options.  Watcher objects, their identities, their reservations and the  *)
(* moments at which they are created and dropped cannot be seen here.       *)
(* SharedWatchers implements this specification.                            *)
EXTENDS Naturals

CONSTANTS Key,        \* (directory, ignore paths, ignore globs) triples
          Callback,   \* native callbacks
          Env,        \* Node environments: the main thread and Workers
          EnvOf       \* the environment each callback belongs to

VARIABLES table,         \* the pairs that receive events
          request,       \* the call each environment's thread makes
          shouldUnwatch  \* its answer: the last callback of the key was removed

tableVars == <<table, request, shouldUnwatch>>

Request(e) == [op : {"subscribe", "unsubscribe"}, key : Key,
               cb : {c \in Callback : EnvOf[c] = e}]

NoRequest == [op |-> "none"]

PairOf(e) == <<request[e].key, request[e].cb>>

TableInit == /\ table = {}
             /\ request = [e \in Env |-> NoRequest]
             /\ shouldUnwatch = [e \in Env |-> FALSE]

MakeCall(e) == /\ \E r \in Request(e) : request' = [request EXCEPT ![e] = r]
               /\ shouldUnwatch' = [shouldUnwatch EXCEPT ![e] = FALSE]
               /\ UNCHANGED table

Return(e) == /\ request' = [request EXCEPT ![e] = NoRequest]
             /\ shouldUnwatch' = [shouldUnwatch EXCEPT ![e] = FALSE]
             /\ UNCHANGED table

(* A subscription adds its own pair and nothing else. *)
Subscribe(e) == /\ request[e].op = "subscribe"
                /\ table' = table \cup {PairOf(e)}
                /\ UNCHANGED <<request, shouldUnwatch>>

(* An unsubscription removes its own pair and nothing else; it answers      *)
(* "stop watching" exactly when it took away the last pair of its key.      *)
Unsubscribe(e) ==
  /\ request[e].op = "unsubscribe"
  /\ table' = table \ {PairOf(e)}
  /\ shouldUnwatch' =
       [shouldUnwatch EXCEPT ![e] = /\ PairOf(e) \in table
                                    /\ \A p \in table' : p[1] # request[e].key]
  /\ UNCHANGED request

(* A callback whose watcher or subscription failed is dropped. *)
Drop(e) == /\ \E p \in table : EnvOf[p[2]] = e /\ table' = table \ {p}
           /\ UNCHANGED <<request, shouldUnwatch>>

(* An environment that is torn down loses its callbacks, one key at a time. *)
Leave(e) == /\ \E k \in Key :
                 table' = {p \in table : ~(p[1] = k /\ EnvOf[p[2]] = e)}
            /\ UNCHANGED <<request, shouldUnwatch>>

TableNext == \E e \in Env : \/ MakeCall(e)
                            \/ Return(e)
                            \/ Subscribe(e)
                            \/ Unsubscribe(e)
                            \/ Drop(e)
                            \/ Leave(e)

TableSpec == TableInit /\ [][TableNext]_tableVars
=============================================================================
