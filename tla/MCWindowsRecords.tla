--------------------------- MODULE MCWindowsRecords ---------------------------
(* An instance of WindowsRecords for TLC: two names, one of them in two     *)
(* cases, two levels below the root; a directory with a file inside the     *)
(* root or outside it, and something else.                                  *)
EXTENDS WindowsRecords

R(path) == Root \o path
O(path) == Outside \o path
Old(kind) == [kind |-> kind, rev |-> 0, past |-> {}]
Base == Root :> Old("dir") @@ Outside :> Old("dir")

MCLower == [n \in Name |-> IF n = "A" THEN "a" ELSE n]

MCSpot ==
  {R(<<n>>) : n \in Name} \cup {R(<<n, "b">>) : n \in Name}
    \cup {O(<<"a">>), O(<<"a", "b">>)}

MCInitialDisk ==
  {Base @@ R(<<"a">>) :> Old("dir") @@ R(<<"a", "b">>) :> Old("file"),
   Base @@ O(<<"a">>) :> Old("dir") @@ O(<<"a", "b">>) :> Old("file")
        @@ R(<<"b">>) :> Old("file") @@ R(<<"a">>) :> Old("special")}

MCIgnoreOption == {{}, {R(<<"b", "b">>)}}
=============================================================================
