----------------------------- MODULE MCFSEvents -----------------------------
(* Two callers of one watcher, and as many streams as it takes to replace   *)
(* one while the one before is being stopped; see README.md.                *)
EXTENDS FSEvents
=============================================================================
