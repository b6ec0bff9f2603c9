------------------------------ MODULE MCInotify ------------------------------
(* An instance of Inotify for TLC: two names, two levels below the root, a  *)
(* directory with a file inside the root or outside it.                     *)
EXTENDS Inotify

R(path) == Root \o path
O(path) == Outside \o path
Base == Root :> "r" @@ Outside :> "o"

MCInitialDisk ==
  {Base @@ R(<<"a">>) :> "d1" @@ R(<<"a", "b">>) :> "f1",
   Base @@ O(<<"a">>) :> "d1" @@ O(<<"a", "b">>) :> "f1" @@ R(<<"b">>) :> "s"}

MCIgnoreOption == {{}, {R(<<"b", "b">>)}}
=============================================================================
