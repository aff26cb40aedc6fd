----------------------------- MODULE Locations ------------------------------
(***************************************************************************)
(* tree.go: which of the paths registered for a method serves a URL.       *)
(*                                                                         *)
(* A URL is the sequence of what lies between its slashes, so a trailing   *)
(* slash is a last element "".  A path is the same with parameters, and a  *)
(* flag: "full" for "= /...", "prefix" for "~ /...", "plain" for the rest. *)
(* A parameter takes a whole segment or several (its regexp is (.*?)); one *)
(* that shares a segment with a literal ("/user_:name") is left out.       *)
(***************************************************************************)
EXTENDS Integers, FiniteSets, Sequences

CONSTANTS
  Params,  \* the parameters that paths use
  Width,   \* the characters of every literal and of every parameter
  Fold     \* every literal in lower case

ASSUME WidthAssumption == Params \subseteq DOMAIN Width /\ Width \in [DOMAIN Width -> Nat]
ASSUME FoldAssumption  == DOMAIN Fold = DOMAIN Width \ Params

-----------------------------------------------------------------------------
(* One path and one URL.                                                   *)

\* The sums of the front parts of s, from that of the empty one.
Sums(s) ==
  LET sum[k \in 0..Len(s)] == IF k = 0 THEN 0 ELSE sum[k - 1] + s[k]
  IN  sum

Sum(s) == Sums(s)[Len(s)]

\* Its characters, slashes included.
Characters(s) == Len(s) + Sum([k \in DOMAIN s |-> Width[s[k]]])

\* The ways to cut v into one part for every element of p.
Cuts(p, v) ==
  { n \in [DOMAIN p -> 1..Len(v)] :
      /\ Sum(n) = Len(v)
      /\ \A k \in DOMAIN p : p[k] \notin Params =>
           n[k] = 1 /\ v[Sum(SubSeq(n, 1, k))] = p[k] }

\* (.*?) takes as little as it can, the first one first.
Lazy(N) ==
  CHOOSE n \in N : \A m \in N \ {n} :
    \E k \in DOMAIN n : n[k] < m[k] /\ SubSeq(n, 1, k - 1) = SubSeq(m, 1, k - 1)

Tails(u) == {SubSeq(u, k, Len(u)) : k \in DOMAIN u}

\* The expression ends in $ but does not begin with ^: it matches a tail of
\* the URL, and the longest that it can.
Matched(p, u) == {v \in Tails(u) : Cuts(p, v) # {}}
Text(p, u)    == CHOOSE v \in Matched(p, u) : \A w \in Matched(p, u) : Len(w) <= Len(v)

ParamsOf(p) == {k \in DOMAIN p : p[k] \in Params}

\* The last value of FindAllStringSubmatch(u)[0] is not the empty string.
LastNonEmpty(p, u) ==
  LET v == Text(p, u)
      n == Lazy(Cuts(p, v))
      k == CHOOSE k \in ParamsOf(p) : \A m \in ParamsOf(p) : m <= k
  IN  ParamsOf(p) # {} =>
        SubSeq(v, Sum(SubSeq(n, 1, k - 1)) + 1, Sum(SubSeq(n, 1, k))) # <<"">>

\* strings.EqualFold
EqualFold(p, u) ==
  /\ Len(p) = Len(u)
  /\ \A k \in DOMAIN u : p[k] \notin Params /\ Fold[p[k]] = Fold[u[k]]

-----------------------------------------------------------------------------
(* The paths of a method, in the order of their registration.              *)

\* locationRegex: the places in paths of the locations with a flag, kept in
\* their order
locationRegex(paths, flag) == {k \in DOMAIN paths : paths[k].flag = flag}

\* A slip: of paths alike the last one is taken.
LongerOrLater(paths, k, best) ==
  Characters(paths[k].segs) >= Characters(paths[best].segs)

Longer(paths, k, best) ==
  Characters(paths[k].segs) > Characters(paths[best].segs)

\* The location at k against the best so far: index is its place, 0 for none,
\* and max the most parameters of a best.
Preferred(paths, best, k) ==
  LET groups == Cardinality(ParamsOf(paths[k].segs))
  IN  IF groups > best.max THEN [index |-> k, max |-> groups]
      ELSE IF Longer(paths, k, best.index) THEN [best EXCEPT !.index = k]
      ELSE best

\* A slip: a first location whose last value is empty is passed over.
BetterNonEmpty(paths, u, best, k) ==
  IF ~LastNonEmpty(paths[k].segs, u) THEN best
  ELSE IF best.index = 0 THEN [index |-> k, max |-> 0]
  ELSE Preferred(paths, best, k)

\* One turn of the loop of Match, for the location at k, which matches.
Better(paths, u, best, k) ==
  IF best.index = 0 THEN [index |-> k, max |-> 0]
  ELSE IF ~LastNonEmpty(paths[k].segs, u) THEN best
  ELSE Preferred(paths, best, k)

NoLocation == [index |-> 0, max |-> 0]

\* The loop of Match: the best of the nodes up to each place.
Bests(paths, nodes, u) ==
  LET best[k \in 0..Len(paths)] ==
        IF k = 0 THEN NoLocation
        ELSE IF k \in nodes /\ Matched(paths[k].segs, u) # {}
             THEN Better(paths, u, best[k - 1], k)
        ELSE best[k - 1]
  IN  best

Match(paths, nodes, u) == Bests(paths, nodes, u)[Len(paths)].index

\* The place in paths of the route that serves u, 0 if there is none.
matchURL(paths, u) ==
  LET full   == {k \in DOMAIN paths : paths[k].flag = "full" /\ EqualFold(paths[k].segs, u)}
      prefix == Match(paths, locationRegex(paths, "prefix"), u)
  IN  IF full # {} THEN CHOOSE k \in full : \A m \in full : k <= m
      ELSE IF prefix # 0 THEN prefix
      ELSE Match(paths, locationRegex(paths, "plain"), u)
=============================================================================
