--------------------------- MODULE MCFSEventsIndex ---------------------------
(* An instance of FSEventsIndex for TLC: two names, two levels below the    *)
(* root; a directory with a file inside the root or outside it; one more    *)
(* file outside it, which may be another link to one inside.                *)
EXTENDS FSEventsIndex

Old(identity, isDir, links) ==
  [identity |-> identity, mtime |-> IF isDir THEN "dir" ELSE "t0", linkCount |-> links,
   isDirectory |-> isDir, rev |-> identity, past |-> {}]

R(path) == Root \o path
O(path) == Outside \o path
Base == Root :> Old("root", TRUE, 1) @@ Outside :> Old("outside", TRUE, 1)

MCInitialDisk ==
  {Base @@ R(<<"a">>) :> Old("dir", TRUE, 1) @@ R(<<"a", "a">>) :> Old("file", FALSE, 1)
        @@ O(<<"b">>) :> Old("other", FALSE, 1),
   Base @@ O(<<"a">>) :> Old("dir", TRUE, 1) @@ O(<<"a", "a">>) :> Old("file", FALSE, 1)
        @@ R(<<"b">>) :> Old("other", FALSE, 2) @@ O(<<"b">>) :> Old("other", FALSE, 2)}

MCIgnoreOption == {{}, {R(<<"b", "b">>)}}
MCTime == <<"t1", "t2">>
=============================================================================
