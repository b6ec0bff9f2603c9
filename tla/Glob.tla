---------------------------------- MODULE Glob ----------------------------------
(* Globs (src/src/Glob.cc, as it is built for Linux).  A word is a sequence *)
(* of characters, a path a sequence of words, a raw glob a sequence of      *)
(* words in which "*" is a wildcard.  The operators are pure.               *)
EXTENDS Integers, SequencesExt

CONSTANTS Ascii,        \* the characters below 0x80
          Lower(_),     \* their lower case
          BitmaskParts  \* globs of fewer parts use the bit mask

ASSUME BitmaskAssumption == BitmaskParts \in Nat

Star == "*"
DoubleStar == <<Star, Star>>

IsAscii(word) == Range(word) \subseteq Ascii
HasWildcard(word) == Star \in Range(word)

SameFolded(c, d) == Lower(c) = Lower(d)
Same(folded, c, d) == IF folded THEN SameFolded(c, d) ELSE c = d

----------------------------------------------------------------------------
(* What wildcards mean: m parts and n elements can be cut so that each part *)
(* in many covers any number of elements and each other part one, with      *)
(* which it is a pair in fits.                                              *)
Aligned(m, n, many, fits) ==
  \E cut \in [0 .. m -> 0 .. n] :
    /\ cut[0] = 0 /\ cut[m] = n
    /\ \A i \in 1 .. m :
         IF i \in many THEN cut[i] >= cut[i - 1]
                       ELSE cut[i] = cut[i - 1] + 1 /\ <<i, cut[i]>> \in fits

(* The table of matchWildcardUtf8 and of isIgnored, from its last row up.   *)
Cells(m, n, many, fits) ==
  LET cell[x \in (1 .. m + 1) \X (1 .. n + 1)] ==
        LET i == x[1]
            j == x[2]
        IN IF i > m THEN j > n
           ELSE IF i \in many
             THEN cell[<<i + 1, j>>] \/ (j <= n /\ cell[<<i, j + 1>>])
           ELSE j <= n /\ <<i, j>> \in fits /\ cell[<<i + 1, j + 1>>]
  IN cell

Table(m, n, many, fits) == Cells(m, n, many, fits)[<<1, 1>>]

IsStar(c) == c = Star
Stars(pattern) == {i \in DOMAIN pattern : IsStar(pattern[i])}

SameChars(pattern, value, folded) ==
  {ij \in (1 .. Len(pattern)) \X (1 .. Len(value)) :
     Same(folded, pattern[ij[1]], value[ij[2]])}

(* The loop of matchWildcardAscii: star is the last wildcard before p, 0 if *)
(* there is none, and what is between them is tried on the value from match *)
(* to v.                                                                    *)
Turns(m, n, many) ==
  {s \in [p : 1 .. m + 1, v : 1 .. n + 1, star : 0 .. m, match : 1 .. n + 1] :
     /\ s.p - s.star = s.v - s.match + 1 /\ s.star < s.p
     /\ s.star = 0 \/ s.star \in many
     /\ \A i \in s.star + 1 .. s.p - 1 : i \notin many}

(* It goes back to the last wildcard, and no further.                       *)
Loop(m, n, many, fits) ==
  LET turn[s \in Turns(m, n, many)] ==
        IF s.v > n THEN s.p .. m \subseteq many
        ELSE IF s.p <= m /\ s.p \notin many /\ <<s.p, s.v>> \in fits
          THEN turn[[p |-> s.p + 1, v |-> s.v + 1, star |-> s.star, match |-> s.match]]
        ELSE IF s.p <= m /\ s.p \in many
          THEN turn[[p |-> s.p + 1, v |-> s.v, star |-> s.p, match |-> s.v]]
        ELSE /\ s.star # 0
             /\ turn[[p |-> s.star + 1, v |-> s.match + 1, star |-> s.star,
                      match |-> s.match + 1]]
  IN turn

MatchWildcardAscii(pattern, value, folded) ==
  Loop(Len(pattern), Len(value), Stars(pattern), SameChars(pattern, value, folded))[
    [p |-> 1, v |-> 1, star |-> 0, match |-> 1]]

MatchWildcardUtf8(pattern, value, folded) ==
  Table(Len(pattern), Len(value), Stars(pattern), SameChars(pattern, value, folded))

(* componentMatchesExact and componentMatchesFolded *)
ComponentMatches(part, word, folded) ==
  IF ~HasWildcard(part)
    THEN Len(part) = Len(word) /\ \A i \in 1 .. Len(part) : Same(folded, part[i], word[i])
  ELSE \/ part = <<Star>>
       \/ IF IsAscii(part) /\ IsAscii(word) THEN MatchWildcardAscii(part, word, folded)
                                            ELSE MatchWildcardUtf8(part, word, folded)

Matches(part, word, insensitive) ==
  \/ ComponentMatches(part, word, FALSE)
  \/ insensitive /\ ComponentMatches(part, word, TRUE)

----------------------------------------------------------------------------
(* A bug: every part is compiled. *)
AllParts(raw) == raw

(* A sequence without what only repeats a wildcard.                         *)
Squeezed(s, wild) ==
  LET kept[n \in 0 .. Len(s)] ==
        IF n = 0 THEN <<>>
        ELSE IF s[n] = wild /\ kept[n - 1] # <<>> /\ Last(kept[n - 1]) = wild
          THEN kept[n - 1]
        ELSE Append(kept[n - 1], s[n])
  IN kept[Len(s)]

CollapseStars(word) == Squeezed(word, Star)

IsDoubleStar(part) == part = DoubleStar

(* The constructor: the parts, without the second of two double stars.      *)
Parts(raw) ==
  Squeezed([i \in DOMAIN raw |-> IF IsDoubleStar(raw[i]) THEN raw[i] ELSE CollapseStars(raw[i])],
           DoubleStar)

UsesBitmask(parts) == parts # <<>> /\ Len(parts) < BitmaskParts

(* A state is the set of the parts that may come next; the bit after the    *)
(* last part accepts.                                                       *)
DoubleStars(parts) == {p \in DOMAIN parts : IsDoubleStar(parts[p])}
Skipping(parts, state) == state \cup {p + 1 : p \in state \cap DoubleStars(parts)}

InitialState(parts) == Skipping(parts, {1})
Accepts(parts, state) == Len(parts) + 1 \in state

StepBitmask(parts, state, word, insensitive) ==
  LET active == (state \cap DOMAIN parts) \ DoubleStars(parts)
  IN Skipping(parts, (state \cap DoubleStars(parts))
                     \cup {p + 1 : p \in {q \in active : Matches(parts[q], word, insensitive)}})

(* The states after the words of a path.  folded are the places of the path *)
(* whose word is in a directory that ignores case.                          *)
States(parts, path, folded) ==
  LET state[n \in 0 .. Len(path)] ==
        IF n = 0 THEN InitialState(parts)
        ELSE StepBitmask(parts, state[n - 1], path[n], n \in folded)
  IN state

(* isIgnored with and without a bit mask.                                   *)
IsIgnored(parts, path, folded) ==
  IF UsesBitmask(parts)
    THEN Accepts(parts, States(parts, path, folded)[Len(path)])
    ELSE Table(Len(parts), Len(path), DoubleStars(parts),
               {ij \in (1 .. Len(parts)) \X (1 .. Len(path)) :
                  Matches(parts[ij[1]], path[ij[2]], ij[2] \in folded)})

IsPathOrAncestorIgnored(parts, path, folded) ==
  \E n \in 1 .. Len(path) : IsIgnored(parts, SubSeq(path, 1, n), folded)

----------------------------------------------------------------------------
(* What the documentation says of a raw glob: "*" is any number of          *)
(* characters of a word, "**" any number of words, and what a directory     *)
(* matches excludes the subtree.                                            *)
MeansWord(part, word, insensitive) ==
  \E folded \in {FALSE, insensitive} :
    Aligned(Len(part), Len(word), Stars(part), SameChars(part, word, folded))

MeantWords(raw, path, folded) ==
  {ij \in (1 .. Len(raw)) \X (1 .. Len(path)) :
     MeansWord(raw[ij[1]], path[ij[2]], ij[2] \in folded)}

Means(raw, path, folded) ==
  \E n \in 1 .. Len(path) :
    Aligned(Len(raw), n, DoubleStars(raw), MeantWords(raw, path, folded))
=============================================================================
