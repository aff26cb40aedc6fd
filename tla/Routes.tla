------------------------------- MODULE Routes -------------------------------
(***************************************************************************)
(* The registration of routes: Use, Group, Handler, NotFound and NoMethod, *)
(* called in any order on a router and on the groups made from it, and the *)
(* route that a URL then gets.                                             *)
(*                                                                         *)
(* Middleware lists and handler chains are slices.  They are modelled with *)
(* their backing arrays, since appending to one slice may write into the   *)
(* array of another; only mergeHandlers, which copies, keeps them apart.   *)
(* A group shares the routes of its parent: there is one table.            *)
(*                                                                         *)
(* Routes are registered before the server runs, so one call is one step.  *)
(***************************************************************************)
EXTENDS Locations

CONSTANTS
  Root,       \* the router that serves
  GroupNames, \* the groups that may be made
  Segment,    \* the segment of the path of a group
  Methods,    \* the HTTP methods of routes
  Paths,      \* the paths that Handler is given
  URLs,       \* the URLs that are asked for
  MaxCalls    \* bound: the calls of a behaviour

ASSUME GroupsAssumption == Root \notin GroupNames /\ Segment \in [GroupNames -> DOMAIN Fold]
ASSUME SlashAssumption  == "" \in DOMAIN Fold
ASSUME PathsAssumption  ==
  \A p \in Paths : p.flag \in {"full", "prefix", "plain"} /\ p.segs \in Seq(DOMAIN Width)
ASSUME URLsAssumption   == URLs \subseteq Seq(DOMAIN Fold) \ {<< >>}
ASSUME CallsAssumption  == MaxCalls \in Nat

VARIABLES
  heap,    \* the backing arrays; a length is a capacity, 0 an unused cell
  router,  \* the fields of every router that has been made
  table,   \* Router.pathHandlers, of which Router.trees is a function
  calls,   \* calls made; the handlers of a call are numbered from it
  mws,     \* history: the middleware in force on every router
  own,     \* history: the handlers given to the latest NotFound and NoMethod
  expect   \* history: what the chain of every route was when registered

vars == <<heap, router, table, calls, mws, own, expect>>

Made == DOMAIN router

\* A map with one more key.
With(f, x, v) == [y \in DOMAIN f \cup {x} |-> IF y = x THEN v ELSE f[y]]

-----------------------------------------------------------------------------
(* Slices.                                                                 *)

Slice == [arr: Nat \ {0}, len: Nat]

Nil == [arr |-> 1, len |-> 0]  \* the first array has no cell

ElemsIn(h, s) == SubSeq(h[s.arr], 1, s.len)
Elems(s)      == ElemsIn(heap, s)

\* append(s, xs...): in place if there is room, else in an array twice as long
appendTo(h, s, xs) ==
  LET n    == s.len + Len(xs)
      room == Len(h[s.arr])
      all  == ElemsIn(h, s) \o xs
      size == IF 2 * room >= n THEN 2 * room ELSE n
  IN  IF n <= room
      THEN [ heap  |-> [h EXCEPT ![s.arr] = all \o SubSeq(@, n + 1, room)],
             slice |-> [s EXCEPT !.len = n] ]
      ELSE [ heap  |-> Append(h, all \o [k \in 1..size - n |-> 0]),
             slice |-> [arr |-> Len(h) + 1, len |-> n] ]

\* A slip: append(r.use, handlers...).
mergeByAppend(h, use, xs) == appendTo(h, use, xs)

\* A slip: the second copy is missing.
mergeUseOnly(h, use, xs) ==
  [ heap  |-> Append(h, ElemsIn(h, use)),
    slice |-> [arr |-> Len(h) + 1, len |-> use.len] ]

\* mergeHandlers: a new array of the exact length
mergeHandlers(h, use, xs) ==
  LET all == ElemsIn(h, use) \o xs
  IN  [ heap  |-> Append(h, all),
        slice |-> [arr |-> Len(h) + 1, len |-> Len(all)] ]

-----------------------------------------------------------------------------
(* Routers.                                                                *)

newRouter(prefix, use) ==
  [ group |-> prefix, use |-> use, notFound |-> Nil, noMethod |-> Nil,
    allNotFound |-> Nil, allNoMethod |-> Nil ]

\* Router.path: path.Join cleans a trailing slash, which is then put back and
\* the flag with it forgotten; "" is the path of the group itself.
path(r, p) ==
  LET full == r.group \o p.segs
  IN  IF p.segs = << >>
      THEN [flag |-> "plain", segs |-> IF r.group = << >> THEN <<"">> ELSE r.group]
      ELSE IF full # <<"">> /\ full[Len(full)] = ""
      THEN [flag |-> "plain", segs |-> full]
      ELSE [flag |-> p.flag, segs |-> full]

\* Every slice lies within its array, and a route has one path and one chain.
\* (router.go:47-71)
TypeOK ==
  /\ heap \in Seq(Seq(Nat))
  /\ Root \in Made /\ Made \subseteq {Root} \cup GroupNames
  /\ \A r \in Made : \A s \in { router[r].use, router[r].notFound, router[r].noMethod,
                                router[r].allNotFound, router[r].allNoMethod } :
       s \in Slice /\ s.arr \in DOMAIN heap /\ s.len <= Len(heap[s.arr])
  /\ DOMAIN table = Methods
  /\ \A m \in Methods : \A k \in DOMAIN table[m] :
       /\ table[m][k].path \in [flag: {"full", "prefix", "plain"}, segs: Seq(DOMAIN Width)]
       /\ table[m][k].chain \in Slice /\ table[m][k].chain.arr \in DOMAIN heap
       /\ Elems(table[m][k].chain) # << >>
  /\ calls \in 0..MaxCalls

Init ==
  /\ heap = << << >> >>
  /\ router = [r \in {Root} |-> newRouter(<< >>, Nil)]
  /\ table = [m \in Methods |-> << >>]
  /\ calls = 0
  /\ mws = [r \in {Root} |-> << >>]
  /\ own = [r \in {Root} |-> [notFound |-> << >>, noMethod |-> << >>]]
  /\ expect = [m \in Methods |-> << >>]

-----------------------------------------------------------------------------
(* Calls.                                                                  *)

Call == calls < MaxCalls /\ calls' = calls + 1

\* The n handlers that this call is given.
Fresh(n) == [k \in 1..n |-> 10 * (calls + 1) + k]

rebuild404Handlers(h, r) == mergeHandlers(h, r.use, ElemsIn(h, r.notFound))
rebuild405Handlers(h, r) == mergeHandlers(h, r.use, ElemsIn(h, r.noMethod))

\* A slip: the chain of 405 is not built again.
UseFor404(r, n) ==
  /\ Call
  /\ LET used == appendTo(heap, router[r].use, Fresh(n))
         all4 == rebuild404Handlers(used.heap, [router[r] EXCEPT !.use = used.slice])
     IN  /\ router' = [router EXCEPT ![r].use = used.slice, ![r].allNotFound = all4.slice]
         /\ heap' = all4.heap
  /\ mws' = [mws EXCEPT ![r] = @ \o Fresh(n)]
  /\ UNCHANGED <<table, own, expect>>

Use(r, n) ==
  /\ Call
  /\ LET used == appendTo(heap, router[r].use, Fresh(n))
         now  == [router[r] EXCEPT !.use = used.slice]
         all4 == rebuild404Handlers(used.heap, now)
         all5 == rebuild405Handlers(all4.heap, now)
     IN  /\ router' = [router EXCEPT ![r] =
              [now EXCEPT !.allNotFound = all4.slice, !.allNoMethod = all5.slice]]
         /\ heap' = all5.heap
  /\ mws' = [mws EXCEPT ![r] = @ \o Fresh(n)]
  /\ UNCHANGED <<table, own, expect>>

\* A slip: the group keeps the list of its parent.
GroupSharing(r, g, n) ==
  /\ Call
  /\ g \notin Made
  /\ LET used == appendTo(heap, router[r].use, Fresh(n))
     IN  /\ router' = With(router, g, newRouter(Append(router[r].group, Segment[g]), used.slice))
         /\ heap' = used.heap
  /\ mws' = With(mws, g, mws[r] \o Fresh(n))
  /\ own' = With(own, g, [notFound |-> << >>, noMethod |-> << >>])
  /\ UNCHANGED <<table, expect>>

Group(r, g, n) ==
  /\ Call
  /\ g \notin Made
  /\ LET u == mergeHandlers(heap, router[r].use, Fresh(n))
     IN  /\ router' = With(router, g, newRouter(Append(router[r].group, Segment[g]), u.slice))
         /\ heap' = u.heap
  /\ mws' = With(mws, g, mws[r] \o Fresh(n))
  /\ own' = With(own, g, [notFound |-> << >>, noMethod |-> << >>])
  /\ UNCHANGED <<table, expect>>

Handler(r, m, p) ==
  /\ Call
  /\ LET h == mergeHandlers(heap, router[r].use, Fresh(1))
     IN  /\ table' = [table EXCEPT ![m] =
              Append(@, [path |-> path(router[r], p), chain |-> h.slice])]
         /\ heap' = h.heap
  /\ expect' = [expect EXCEPT ![m] = Append(@, mws[r] \o Fresh(1))]
  /\ UNCHANGED <<router, mws, own>>

\* NotFound merges the middleware in, and so does the rebuilding after it.
NotFound(r) ==
  /\ Call
  /\ LET h    == mergeHandlers(heap, router[r].use, Fresh(1))
         now  == [router[r] EXCEPT !.notFound = h.slice]
         all4 == rebuild404Handlers(h.heap, now)
     IN  /\ router' = [router EXCEPT ![r] = [now EXCEPT !.allNotFound = all4.slice]]
         /\ heap' = all4.heap
  /\ own' = [own EXCEPT ![r].notFound = Fresh(1)]
  /\ UNCHANGED <<table, mws, expect>>

\* NoMethod keeps the slice it is given.
NoMethod(r) ==
  /\ Call
  /\ LET given == Append(heap, Fresh(1))
         now   == [router[r] EXCEPT !.noMethod = [arr |-> Len(given), len |-> 1]]
         all5  == rebuild405Handlers(given, now)
     IN  /\ router' = [router EXCEPT ![r] = [now EXCEPT !.allNoMethod = all5.slice]]
         /\ heap' = all5.heap
  /\ own' = [own EXCEPT ![r].noMethod = Fresh(1)]
  /\ UNCHANGED <<table, mws, expect>>

\* Every call of the bound is made.
Terminated == calls = MaxCalls /\ UNCHANGED vars

Next ==
  \/ \E r \in Made :
       \/ \E n \in 1..2 : Use(r, n)
       \/ \E g \in GroupNames, n \in 0..1 : Group(r, g, n)
       \/ \E m \in Methods, p \in Paths : Handler(r, m, p)
       \/ NotFound(r)
       \/ NoMethod(r)
  \/ Terminated

Spec == Init /\ [][Next]_vars

-----------------------------------------------------------------------------
(* Properties.                                                             *)

PathsOf(m) == [k \in DOMAIN table[m] |-> table[m][k].path]

\* A route keeps, whatever is registered after it, the chain it was
\* registered with: the middleware that its router had by then, its group's
\* after its parent's, and its own handler last.  No call writes into the
\* chain of another.  (router.go:154-180, 216-227, 260-266)
ChainsIntact ==
  \A m \in Methods : \A k \in DOMAIN table[m] :
    Elems(table[m][k].chain) = expect[m][k]

\* A router's own middleware is what was given to it and, up to its making, to
\* its parents: nothing leaks between a router and its groups.
\* (router.go:210-227)
MiddlewareOfRouter == \A r \in Made : Elems(router[r].use) = mws[r]

Starts(s, t) == Len(s) <= Len(t) /\ SubSeq(t, 1, Len(s)) = s
Ends(s, t)   == Len(s) <= Len(t) /\ SubSeq(t, Len(t) - Len(s) + 1, Len(t)) = s

\* In whatever order Use, NotFound and NoMethod are called, the chains of 404
\* and 405 begin with every middleware of the router and end with the handlers
\* given last; that of 405 is nothing else.  (router.go:210-214, 240-258)
ErrorChainsCurrent ==
  LET all4 == Elems(router[Root].allNotFound)
      all5 == Elems(router[Root].allNoMethod)
  IN  /\ all5 = mws[Root] \o own[Root].noMethod
      /\ Starts(mws[Root], all4) /\ Ends(own[Root].notFound, all4)

\* The route of a URL matches it, there is one if any registered path matches,
\* "= " paths are taken before "~ " paths and these before the rest.
\* (tree.go:66-97, 181-185, 203-219; README.md:28)
Found ==
  \A m \in Methods, u \in URLs :
    LET paths == PathsOf(m)
        k     == matchURL(paths, u)
        fits(j) == IF paths[j].flag = "full" THEN EqualFold(paths[j].segs, u)
                   ELSE Matched(paths[j].segs, u) # {}
        rank(j) == CASE paths[j].flag = "full"   -> 1
                     [] paths[j].flag = "prefix" -> 2
                     [] OTHER                    -> 3
    IN  IF k = 0 THEN \A j \in DOMAIN paths : ~fits(j)
        ELSE fits(k) /\ \A j \in DOMAIN paths : fits(j) => rank(k) <= rank(j)

\* The plain paths that match u.
Plain(m, u) ==
  {k \in DOMAIN table[m] : /\ PathsOf(m)[k].flag = "plain"
                           /\ Matched(PathsOf(m)[k].segs, u) # {}}

\* Where no parameter is involved, the longest of the paths that match is
\* taken whatever the order of registration, and of equal ones the first.
\* (tree.go:66-97)
LongestLiteral ==
  \A m \in Methods, u \in URLs :
    LET paths == PathsOf(m)
        k     == matchURL(paths, u)
    IN  k \in Plain(m, u) /\ (\A j \in Plain(m, u) : ParamsOf(paths[j].segs) = {}) =>
          \A j \in Plain(m, u) :
            \/ Characters(paths[j].segs) < Characters(paths[k].segs)
            \/ Characters(paths[j].segs) = Characters(paths[k].segs) /\ k <= j

\* What tree.go:183-184 says: of the locations of a kind, the one that matches
\* the longest string.
LongestMatch ==
  \A m \in Methods, u \in URLs :
    LET paths == PathsOf(m)
        k     == matchURL(paths, u)
    IN  k \in Plain(m, u) =>
          \A j \in Plain(m, u) :
            Len(Text(paths[j].segs, u)) <= Len(Text(paths[k].segs, u))
=============================================================================
