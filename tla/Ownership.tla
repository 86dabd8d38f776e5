----------------------------- MODULE Ownership -----------------------------
(***************************************************************************)
(* Path ownership, the vocabulary of the scheduler and of the repository   *)
(* protocol.  A raw path is the text a manifest, a task spec or a work     *)
(* item carries, cut at its slashes (backslashes are slashes, surrounding  *)
(* blanks are gone): "./pkg/**" is <<".", "pkg", "**">>, "pkg/" is         *)
(* <<"pkg", "">>, "/etc" is <<"", "etc">> and the empty text is <<"">>.    *)
(* Segments are opaque except for the five the code looks at.              *)
(***************************************************************************)
EXTENDS SequencesExt

Root   == ""      \* what precedes a leading slash or follows a trailing one
Here   == "."
Up     == ".."
Star   == "*"
Stars  == "**"

\* The value of a path the code refuses.
Refused == <<Up>>

-----------------------------------------------------------------------------
(* strings.TrimPrefix(v, "./") and strings.TrimSuffix(v, "/" + seg).       *)
DropHere(p)      == IF Len(p) > 1 /\ Head(p) = Here THEN Tail(p) ELSE p
DropLast(p, seg) == IF Len(p) > 1 /\ Last(p) = seg  THEN Front(p) ELSE p

(* path.Clean on a path that is not rooted: blank and "." segments vanish, *)
(* ".." removes the segment before it unless there is none to remove.      *)
CleanStep(stack, seg) ==
    CASE seg \in {Root, Here}                                -> stack
      [] seg = Up /\ stack # <<>> /\ Last(stack) # Up        -> Front(stack)
      [] OTHER                                               -> Append(stack, seg)

Clean(p) == FoldLeft(CleanStep, <<>>, p)

(* The tail the two normalisers share: refuse the empty path, a rooted     *)
(* one, and one that cleans to the root or above it.                       *)
InsideRepository(p) ==
    IF Head(p) = Root THEN Refused
    ELSE LET cleaned == Clean(p)
         IN  IF cleaned = <<>> \/ Head(cleaned) = Up THEN Refused ELSE cleaned

-----------------------------------------------------------------------------
(* scheduler.normalizeOwnership: every glob suffix comes off, so that a    *)
(* pattern stands for the directory it is rooted in.                       *)
normalizeOwnership(raw) ==
    InsideRepository(DropLast(DropLast(DropLast(DropHere(raw), Stars), Star), Root))

(* repoprotocol.normalizeRepositoryPath and normalizePattern: one glob     *)
(* suffix is kept as a suffix of the normalised path.                      *)
normalizeRepositoryPath(raw) == InsideRepository(DropLast(DropHere(raw), Root))

normalizePattern(raw) ==
    LET value  == DropHere(raw)
        suffix == IF Len(value) > 1 /\ Last(value) \in {Stars, Star}
                  THEN <<Last(value)>> ELSE <<>>
        base   == normalizeRepositoryPath(IF suffix = <<>> THEN value ELSE Front(value))
    IN  IF base = Refused THEN Refused ELSE base \o suffix

-----------------------------------------------------------------------------
\* Slip: only an ancestor on the left collides.
OverlapOneWay(a, b) == a = Refused \/ b = Refused \/ IsPrefix(a, b)

(* scheduler.OwnershipConflict: two claims collide when a path of one is   *)
(* refused, equal to, or an ancestor of a path of the other.               *)
Overlap(a, b) ==
    \/ a = Refused \/ b = Refused
    \/ IsPrefix(a, b) \/ IsPrefix(b, a)

OwnershipConflict(left, right) ==
    \/ \E l \in left : normalizeOwnership(l) = Refused
    \/ \E l \in left, r \in right : Overlap(normalizeOwnership(l), normalizeOwnership(r))

(* repoprotocol.pathMatches: does a pattern cover a changed file?          *)
pathMatches(pattern, changed) ==
    LET p    == normalizePattern(pattern)
        file == normalizeRepositoryPath(changed)
    IN  /\ p # Refused /\ file # Refused
        /\ CASE Len(p) > 1 /\ Last(p) = Stars -> IsPrefix(Front(p), file)
             [] Len(p) > 1 /\ Last(p) = Star  -> /\ IsPrefix(Front(p), file)
                                                 /\ Len(file) = Len(p)
             [] OTHER                         -> file = p

-----------------------------------------------------------------------------
(* References for the properties.                                          *)

(* For path.Clean: walk the segments from a root at depth 0; the path      *)
(* stays inside the repository iff the walk ends strictly below the root   *)
(* without ever having left it.                                            *)
Depth(p, k) == Cardinality({j \in 1..k : p[j] \notin {Root, Here, Up}})
                 - Cardinality({j \in 1..k : p[j] = Up})

StaysInside(p) == /\ \A k \in 1..Len(p) : Depth(p, k) >= 0
                  /\ Depth(p, Len(p)) > 0

(* A pattern like "a/**/" hides its glob from the suffix tests of both     *)
(* normalisers; path.Clean then uncovers it, for pathMatches to see but    *)
(* not for OwnershipConflict.                                              *)
GlobsShow(p) ==
    p[Len(p)] \in {Root, Here, Up} => \A k \in DOMAIN p : p[k] \notin {Star, Stars}

=============================================================================
