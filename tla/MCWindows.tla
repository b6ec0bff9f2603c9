----------------------------- MODULE MCWindows -----------------------------
(* Two callers and three Subscriptions are enough to stop one while the    *)
(* next is started, and to start one more after it; see README.md.          *)
EXTENDS Windows
============================================================================
