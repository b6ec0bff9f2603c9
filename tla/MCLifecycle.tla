---------------------------- MODULE MCLifecycle ----------------------------
(* Instances of Lifecycle for TLC: what the calls are.                      *)
EXTENDS Lifecycle, TLC

CONSTANTS main, worker, c1, c2, c3, w1, w2, src, default, unset, t1, t2, t3, t4

MCEnvOf == c1 :> main @@ c2 :> main @@ c3 :> worker

(* The main thread names no backend, which means the default one. *)
Arguments(op, c, after) ==
  [op |-> op, key |-> src, cb |-> c, after |-> after,
   backend |-> IF MCEnvOf[c] = main THEN unset ELSE default]

(* Through the wrapper: unsubscribe after subscribe was resolved.           *)
WorkerPlan == t1 :> Arguments("subscribe", c1, NoCall)
           @@ t2 :> Arguments("unsubscribe", c1, t1)
           @@ t3 :> Arguments("subscribe", c3, NoCall)

(* On the binding itself an unsubscribe need not wait for its subscribe; the *)
(* Worker uses the wrapper.                                                 *)
EarlyPlan == t1 :> Arguments("subscribe", c1, NoCall)
          @@ t2 :> Arguments("unsubscribe", c1, NoCall)
          @@ t3 :> Arguments("subscribe", c3, NoCall)
          @@ t4 :> Arguments("unsubscribe", c3, t3)

MCSubject == Watcher
MCThread == Call \cup Env

WatcherSymmetry == Permutations(Watcher) \cup Permutations(Backend)
=============================================================================
