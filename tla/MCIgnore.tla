------------------------------- MODULE MCIgnore -------------------------------
(* An instance of Ignore for TLC: words of one or two letters, two of which *)
(* differ only in case; globs with each kind of wildcard at each place, and *)
(* with too many parts for the bit mask.                                    *)
EXTENDS Ignore, TLC

S == Star
D == DoubleStar

MCLower(c) == IF c = "A" THEN "a" ELSE c

Raws ==
  {<<<<"a">>>>, <<<<"A">>, D>>, <<<<S, "b">>>>, <<D, <<"a", S>>>>, <<D, D, <<"A", S, S, "b">>>>,
   <<<<"a", S>>, D, <<"a", "b">>>>, <<<<S>>, <<"a">>>>, <<D>>, <<<<S, "a", S, "b">>, <<S>>>>,
   <<<<"a", S>>, D, <<S>>, <<"a">>, D>>, <<D, <<"A", "b">>, D, <<"a">>>>}

MCOption == {{}} \cup {{raw} : raw \in Raws}
            \cup {{<<<<"a">>, <<"a">>>>, <<D, <<"a", "b">>>>},
                  {<<<<"A">>, <<S, "b">>>>, <<D, <<"a">>, <<"a">>, D, <<"A">>>>}}

MCWord == {<<"a">>, <<"A", "b">>}

MCInsensitive == {{}, {<<>>, <<<<"A", "b">>>>, <<<<"a">>, <<"a">>>>}}

MCSymmetry == Permutations(Watcher)
=============================================================================
