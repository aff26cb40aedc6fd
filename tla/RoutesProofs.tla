---------------------------- MODULE RoutesProofs ----------------------------
(***************************************************************************)
(* The invariants of the registration of routes, for any routers, methods, *)
(* paths and any number of calls: which slices share an array, and what    *)
(* the slices that nobody writes into hold.  And what the loop over the    *)
(* locations finds, for any number of them.                                *)
(***************************************************************************)
EXTENDS Routes, Induction, SequenceTheorems, FiniteSetTheorems, TLAPS

-----------------------------------------------------------------------------
(* The inductive invariant.                                                *)

Path    == [flag: {"full", "prefix", "plain"}, segs: Seq(DOMAIN Width)]
Route   == [path: Path, chain: Slice]
Given   == [notFound: Seq(Nat), noMethod: Seq(Nat)]
Arrays  == Seq(Seq(Nat))
Routers ==
  [ group: Seq(DOMAIN Fold), use: Slice, notFound: Slice, noMethod: Slice,
    allNotFound: Slice, allNoMethod: Slice ]

Types ==
  /\ heap \in Arrays
  /\ Root \in Made /\ Made \subseteq {Root} \cup GroupNames
  /\ router \in [Made -> Routers]
  /\ table \in [Methods -> Seq(Route)]
  /\ calls \in 0..MaxCalls
  /\ mws \in [Made -> Seq(Nat)]
  /\ own \in [Made -> Given]
  /\ expect \in [Methods -> Seq(Seq(Nat))]

\* The slice lies within its array.
InHeap(h, s) == s.arr \in DOMAIN h /\ s.len <= Len(h[s.arr])

AllInHeap(h, x) ==
  /\ InHeap(h, x.use) /\ InHeap(h, x.notFound) /\ InHeap(h, x.noMethod)
  /\ InHeap(h, x.allNotFound) /\ InHeap(h, x.allNoMethod)

\* The array of the middleware list is not that of a slice of the router y, but
\* for the first array, which has no cell.
ApartFrom(x, y) ==
  x.use.arr = 1 \/ x.use.arr \notin { y.notFound.arr, y.noMethod.arr,
                                      y.allNotFound.arr, y.allNoMethod.arr }

\* The middleware list of a router, the one kind of slice that is appended to,
\* has its array for itself.
Apart ==
  /\ 1 \in DOMAIN heap /\ Len(heap[1]) = 0
  /\ \A r, q \in Made : ApartFrom(router[r], router[q])
  /\ \A r, q \in Made : r # q =>
       router[r].use.arr = 1 \/ router[r].use.arr # router[q].use.arr
  /\ \A r \in Made, m \in Methods : \A k \in DOMAIN table[m] :
       router[r].use.arr = 1 \/ router[r].use.arr # table[m][k].chain.arr

\* What the slices of the error chains hold, of a router with the middleware w
\* and the handlers o.
ErrorChains(h, x, w, o) ==
  /\ ElemsIn(h, x.noMethod) = o.noMethod
  /\ ElemsIn(h, x.allNoMethod) = w \o o.noMethod
  /\ Ends(o.notFound, ElemsIn(h, x.notFound))
  /\ Starts(w, ElemsIn(h, x.allNotFound))
  /\ Ends(o.notFound, ElemsIn(h, x.allNotFound))

\* A chain lies within its array and holds what was expected of it.
ChainHolds(h, c, e) == InHeap(h, c) /\ ElemsIn(h, c) = e /\ Len(e) > 0

Holds ==
  /\ \A r \in Made : AllInHeap(heap, router[r]) /\ ElemsIn(heap, router[r].use) = mws[r]
  /\ ErrorChains(heap, router[Root], mws[Root], own[Root])
  /\ \A m \in Methods :
       /\ Len(expect[m]) = Len(table[m])
       /\ \A k \in DOMAIN table[m] : ChainHolds(heap, table[m][k].chain, expect[m][k])

IInv == Types /\ Apart /\ Holds

-----------------------------------------------------------------------------
(* Slices.                                                                 *)

\* From h to g no array but a is written, nor the first one.
Writes(h, g, a) ==
  /\ g \in Arrays /\ Len(h) <= Len(g)
  /\ \A b \in DOMAIN h : b # a \/ b = 1 => g[b] = h[b]

\* Elements of a sequence up to a place, after it, and of a concatenation.
LEMMA Front ==
  ASSUME NEW s \in Seq(Nat), NEW n \in 0..Len(s)
  PROVE  /\ SubSeq(s, 1, n) \in Seq(Nat) /\ Len(SubSeq(s, 1, n)) = n
         /\ \A k \in 1..n : SubSeq(s, 1, n)[k] = s[k]
OBVIOUS

LEMMA Back ==
  ASSUME NEW s \in Seq(Nat), NEW n \in 0..Len(s)
  PROVE  /\ SubSeq(s, n + 1, Len(s)) \in Seq(Nat)
         /\ Len(SubSeq(s, n + 1, Len(s))) = Len(s) - n
         /\ \A k \in 1..Len(s) - n : SubSeq(s, n + 1, Len(s))[k] = s[n + k]
OBVIOUS

LEMMA Concat ==
  ASSUME NEW s \in Seq(Nat), NEW t \in Seq(Nat)
  PROVE  /\ s \o t \in Seq(Nat) /\ Len(s \o t) = Len(s) + Len(t)
         /\ \A k \in 1..Len(s) : (s \o t)[k] = s[k]
         /\ \A k \in 1..Len(t) : (s \o t)[Len(s) + k] = t[k]
OBVIOUS

\* The first elements of a concatenation.
LEMMA FrontOfConcat ==
  ASSUME NEW s \in Seq(Nat), NEW t \in Seq(Nat)
  PROVE  SubSeq(s \o t, 1, Len(s)) = s
<1>1. /\ s \o t \in Seq(Nat) /\ Len(s \o t) = Len(s) + Len(t) /\ Len(s) \in 0..Len(s \o t)
      /\ \A k \in 1..Len(s) : (s \o t)[k] = s[k]
  BY Concat
<1>2. /\ SubSeq(s \o t, 1, Len(s)) \in Seq(Nat) /\ Len(SubSeq(s \o t, 1, Len(s))) = Len(s)
      /\ \A k \in 1..Len(s) : SubSeq(s \o t, 1, Len(s))[k] = (s \o t)[k]
  BY <1>1, Front
<1> QED
  BY <1>1, <1>2, SeqEqual

\* Beginnings and ends of sequences.
LEMMA StartsConcat ==
  ASSUME NEW s \in Seq(Nat), NEW t \in Seq(Nat)
  PROVE  Starts(s, s \o t)
<1>1. Len(s) <= Len(s \o t)
  BY Concat
<1> QED
  BY <1>1, FrontOfConcat DEF Starts

LEMMA EndsConcat ==
  ASSUME NEW s \in Seq(Nat), NEW t \in Seq(Nat), NEW w \in Seq(Nat), Ends(s, t)
  PROVE  Ends(s, w \o t)
<1>1. Len(t) - Len(s) \in 0..Len(t) /\ SubSeq(t, Len(t) - Len(s) + 1, Len(t)) = s
  BY DEF Ends
<1>2. PICK n \in 0..Len(t) : n = Len(t) - Len(s)
  BY <1>1
<1>3. SubSeq(t, n + 1, Len(t)) = s /\ Len(s) = Len(t) - n
  BY <1>1, <1>2
<1>4. \A k \in 1..Len(s) : s[k] = t[n + k]
  <2>1. \A k \in 1..Len(t) - n : SubSeq(t, n + 1, Len(t))[k] = t[n + k]
    BY Back
  <2> QED
    BY <1>3, <2>1
<1>5. w \o t \in Seq(Nat)
  BY Concat
<1>6. PICK c \in Seq(Nat) : c = w \o t
  BY <1>5
<1>7. Len(c) = Len(w) + Len(t) /\ \A k \in 1..Len(t) : c[Len(w) + k] = t[k]
  BY <1>6, Concat
<1>8. Len(w) + n \in 0..Len(c)
  BY <1>7
<1>9. PICK m \in 0..Len(c) : m = Len(w) + n
  BY <1>8
<1>10. Len(c) - m = Len(s) /\ m + 1 = Len(c) - Len(s) + 1
  BY <1>3, <1>7, <1>9
<1>11. /\ SubSeq(c, m + 1, Len(c)) \in Seq(Nat)
       /\ Len(SubSeq(c, m + 1, Len(c))) = Len(c) - m
       /\ \A k \in 1..Len(c) - m : SubSeq(c, m + 1, Len(c))[k] = c[m + k]
  BY Back
<1>12. ASSUME NEW k \in 1..Len(s) PROVE c[m + k] = s[k]
  <2>1. n + k \in 1..Len(t) /\ m + k = Len(w) + (n + k)
    BY <1>3, <1>9
  <2> QED
    BY <1>4, <1>7, <2>1
<1>13. \A k \in 1..Len(s) : SubSeq(c, m + 1, Len(c))[k] = s[k]
  BY <1>10, <1>11, <1>12
<1>14. SubSeq(c, m + 1, Len(c)) = s
  BY <1>10, <1>11, <1>13, SeqEqual
<1>15. Len(s) <= Len(c)
  BY <1>3, <1>7
<1> QED
  BY <1>6, <1>10, <1>14, <1>15 DEF Ends

LEMMA EndsSelf ==
  ASSUME NEW s \in Seq(Nat)
  PROVE  Ends(s, s)
<1>1. SubSeq(s, 1, Len(s)) = s /\ Len(s) - Len(s) + 1 = 1
  OBVIOUS
<1> QED
  BY <1>1 DEF Ends

\* The elements of a slice.
LEMMA ElemsType ==
  ASSUME NEW h \in Arrays, NEW s \in Slice, InHeap(h, s)
  PROVE  ElemsIn(h, s) \in Seq(Nat) /\ Len(ElemsIn(h, s)) = s.len
<1>1. h[s.arr] \in Seq(Nat) /\ s.len \in Nat /\ s.len <= Len(h[s.arr])
  BY DEF InHeap, Slice, Arrays
<1> QED
  BY <1>1 DEF ElemsIn

\* A slice whose array is not written keeps its elements.
LEMMA SliceStays ==
  ASSUME NEW h \in Arrays, NEW g, NEW a, Writes(h, g, a), NEW s \in Slice, InHeap(h, s),
         s.arr # a \/ s.arr = 1
  PROVE  InHeap(g, s) /\ ElemsIn(g, s) = ElemsIn(h, s)
<1>1. s.arr \in DOMAIN g /\ g[s.arr] = h[s.arr]
  BY DEF Writes, InHeap, Arrays
<1> QED
  BY <1>1 DEF InHeap, ElemsIn

\* A step that writes into no array.
LEMMA AllStay ==
  ASSUME NEW h \in Arrays, NEW g, Writes(h, g, 0), NEW s \in Slice, InHeap(h, s)
  PROVE  InHeap(g, s) /\ ElemsIn(g, s) = ElemsIn(h, s)
<1>1. s.arr # 0
  BY DEF Slice
<1> QED
  BY <1>1, SliceStays

LEMMA WritesTwice ==
  ASSUME NEW h \in Arrays, NEW g, NEW f, NEW a, NEW b, Writes(h, g, a), Writes(g, f, b),
         b \notin DOMAIN h \/ b = a
  PROVE  Writes(h, f, a)
<1>1. DOMAIN h \subseteq DOMAIN g
  BY DEF Writes, Arrays
<1> QED
  BY SMTT(30), <1>1 DEF Writes, Arrays

\* One more array.
LEMMA OneMore ==
  ASSUME NEW h \in Arrays, NEW x \in Seq(Nat)
  PROVE  /\ \A a : Writes(h, Append(h, x), a)
         /\ Len(Append(h, x)) = Len(h) + 1 /\ Append(h, x)[Len(h) + 1] = x
         /\ Append(h, x) \in Arrays
<1>1. /\ Append(h, x) \in Arrays /\ Len(Append(h, x)) = Len(h) + 1
      /\ Append(h, x)[Len(h) + 1] = x
      /\ \A b \in 1..Len(h) : Append(h, x)[b] = h[b]
  BY DEF Arrays
<1>2. DOMAIN h = 1..Len(h)
  BY DEF Arrays
<1> QED
  BY <1>1, <1>2 DEF Writes, Arrays

\* What a call gives: a copy in a new array, and nothing is written.
Merged(h, use, xs, m) ==
  /\ Writes(h, m.heap, 0) /\ m.heap \in Arrays /\ Len(m.heap) = Len(h) + 1
  /\ m.slice \in Slice /\ m.slice.arr = Len(h) + 1 /\ InHeap(m.heap, m.slice)
  /\ ElemsIn(m.heap, m.slice) = ElemsIn(h, use) \o xs

\* The slice in its own array, if that has room, or in a new one.
Appended(h, s, xs, m) ==
  /\ Writes(h, m.heap, s.arr) /\ m.heap \in Arrays
  /\ m.slice \in Slice /\ InHeap(m.heap, m.slice)
  /\ (m.slice.arr = s.arr /\ s.arr # 1) \/ m.slice.arr = Len(h) + 1
  /\ ElemsIn(m.heap, m.slice) = ElemsIn(h, s) \o xs

\* mergeHandlers copies: it writes into no array there was.
LEMMA MergeCopies ==
  ASSUME NEW h \in Arrays, NEW use \in Slice, InHeap(h, use), NEW xs \in Seq(Nat)
  PROVE  Merged(h, use, xs, mergeHandlers(h, use, xs))
<1> PICK m : m = mergeHandlers(h, use, xs)
  OBVIOUS
<1>0. ElemsIn(h, use) \o xs \in Seq(Nat)
  BY ElemsType, Concat
<1>1. PICK all \in Seq(Nat) : all = ElemsIn(h, use) \o xs
  BY <1>0
<1>2. m.heap = Append(h, all) /\ m.slice = [arr |-> Len(h) + 1, len |-> Len(all)]
  BY <1>1 DEF mergeHandlers
<1>3. /\ Writes(h, m.heap, 0)
      /\ m.heap \in Arrays /\ Len(m.heap) = Len(h) + 1 /\ m.heap[Len(h) + 1] = all
  BY <1>1, <1>2, OneMore
<1>4. Len(h) \in Nat /\ Len(all) \in Nat
  BY DEF Arrays
<1>5. m.slice \in Slice /\ m.slice.arr = Len(h) + 1 /\ m.slice.len = Len(all)
  BY <1>2, <1>4 DEF Slice
<1>6. InHeap(m.heap, m.slice)
  BY SMTT(30), <1>3, <1>4, <1>5 DEF InHeap, Arrays
<1>7. ElemsIn(m.heap, m.slice) = all
  <2>1. SubSeq(all, 1, Len(all)) = all
    BY SubSeqFull
  <2> QED
    BY <1>3, <1>5, <2>1 DEF ElemsIn
<1> QED
  BY <1>1, <1>3, <1>5, <1>6, <1>7 DEF Merged

\* append writes into the slice's own array or makes one.
LEMMA AppendWrites ==
  ASSUME NEW h \in Arrays, NEW s \in Slice, InHeap(h, s), NEW xs \in Seq(Nat), Len(xs) > 0,
         s.arr = 1 => Len(h[1]) = 0
  PROVE  Appended(h, s, xs, appendTo(h, s, xs))
<1> PICK m : m = appendTo(h, s, xs)
  OBVIOUS
<1>1. /\ s.arr \in 1..Len(h) /\ Len(h) \in Nat /\ DOMAIN h = 1..Len(h)
      /\ h[s.arr] \in Seq(Nat) /\ s.len \in Nat
  BY DEF InHeap, Slice, Arrays
<1>2. PICK old \in Seq(Nat) : old = h[s.arr]
  BY <1>1
<1>3. /\ ElemsIn(h, s) \in Seq(Nat) /\ Len(ElemsIn(h, s)) = s.len /\ s.len <= Len(old)
  BY <1>2, ElemsType DEF InHeap
<1>4. ElemsIn(h, s) \o xs \in Seq(Nat)
  BY <1>3, Concat
<1>5. PICK all \in Seq(Nat) : all = ElemsIn(h, s) \o xs
  BY <1>4
<1>6. Len(all) = s.len + Len(xs) /\ Len(all) > s.len
  <2>1. Len(ElemsIn(h, s) \o xs) = Len(ElemsIn(h, s)) + Len(xs)
    BY <1>3, Concat
  <2> QED
    BY <1>1, <1>3, <1>5, <2>1
<1>7. CASE Len(all) <= Len(old)
  <2>1. /\ SubSeq(old, Len(all) + 1, Len(old)) \in Seq(Nat)
        /\ Len(SubSeq(old, Len(all) + 1, Len(old))) = Len(old) - Len(all)
    BY <1>7, Back
  <2>2. PICK tail \in Seq(Nat) : tail = SubSeq(old, Len(all) + 1, Len(old))
    BY <2>1
  <2>3. all \o tail \in Seq(Nat) /\ Len(all \o tail) = Len(all) + Len(tail)
    BY Concat
  <2>4. PICK new \in Seq(Nat) : new = all \o tail
    BY <2>3
  <2>5. Len(new) = Len(old) /\ SubSeq(new, 1, Len(all)) = all
    BY <2>1, <2>2, <2>3, <2>4, FrontOfConcat
  <2>6. m.heap = [h EXCEPT ![s.arr] = new] /\ m.slice = [s EXCEPT !.len = Len(all)]
    BY <1>2, <1>5, <1>6, <1>7, <2>2, <2>4 DEF appendTo
  <2>7. m.slice \in Slice /\ m.slice.arr = s.arr /\ m.slice.len = Len(all)
    <3>1. /\ [s EXCEPT !.len = Len(all)] \in Slice
          /\ [s EXCEPT !.len = Len(all)].arr = s.arr
          /\ [s EXCEPT !.len = Len(all)].len = Len(all)
      <4>1. Len(all) \in Nat
        OBVIOUS
      <4> QED
        BY <4>1 DEF Slice
    <3> QED
      BY <2>6, <3>1
  <2>8. /\ m.heap \in Arrays /\ Len(m.heap) = Len(h) /\ m.heap[s.arr] = new
        /\ \A b \in DOMAIN h : b # s.arr => m.heap[b] = h[b]
    BY <1>1, <2>6 DEF Arrays
  <2>9. s.arr # 1
    BY SMTT(30), <1>1, <1>2, <1>6, <1>7
  <2>10. Writes(h, m.heap, s.arr)
    BY <1>1, <2>8, <2>9 DEF Writes
  <2>11. InHeap(m.heap, m.slice)
    BY SMTT(30), <1>1, <1>7, <2>5, <2>7, <2>8 DEF InHeap, Arrays
  <2>12. ElemsIn(m.heap, m.slice) = all
    BY <2>5, <2>7, <2>8 DEF ElemsIn
  <2> QED
    BY <1>5, <2>7, <2>8, <2>9, <2>10, <2>11, <2>12 DEF Appended
<1>8. CASE ~(Len(all) <= Len(old))
  <2>1. (IF 2 * Len(old) >= Len(all) THEN 2 * Len(old) ELSE Len(all)) - Len(all) \in Nat
    OBVIOUS
  <2>2. PICK k \in Nat :
          k = (IF 2 * Len(old) >= Len(all) THEN 2 * Len(old) ELSE Len(all)) - Len(all)
    BY <2>1
  <2>3. [i \in 1..k |-> 0] \in Seq(Nat)
    OBVIOUS
  <2>4. PICK rest \in Seq(Nat) : rest = [i \in 1..k |-> 0]
    BY <2>3
  <2>5. all \o rest \in Seq(Nat)
    BY Concat
  <2>6. PICK new \in Seq(Nat) : new = all \o rest
    BY <2>5
  <2>7. Len(new) >= Len(all) /\ SubSeq(new, 1, Len(all)) = all
    BY <2>6, Concat, FrontOfConcat
  <2>8. m.heap = Append(h, new) /\ m.slice = [arr |-> Len(h) + 1, len |-> Len(all)]
    BY <1>2, <1>5, <1>6, <1>8, <2>2, <2>4, <2>6 DEF appendTo
  <2>9. /\ Writes(h, m.heap, s.arr)
        /\ m.heap \in Arrays /\ Len(m.heap) = Len(h) + 1 /\ m.heap[Len(h) + 1] = new
    BY <2>8, OneMore
  <2>10. m.slice \in Slice /\ m.slice.arr = Len(h) + 1 /\ m.slice.len = Len(all)
    BY <1>1, <2>8 DEF Slice
  <2>11. InHeap(m.heap, m.slice)
    BY <1>1, <2>7, <2>9, <2>10 DEF InHeap, Arrays
  <2>12. ElemsIn(m.heap, m.slice) = all
    BY <2>7, <2>9, <2>10 DEF ElemsIn
  <2> QED
    BY <1>5, <2>9, <2>10, <2>11, <2>12 DEF Appended
<1> QED
  BY <1>7, <1>8

-----------------------------------------------------------------------------
(* Steps.                                                                  *)

\* A call that writes into no array, or into that of the middleware list of r,
\* leaves what every other slice holds.
LEMMA OthersStay ==
  ASSUME IInv, NEW g, NEW a, Writes(heap, g, a),
         NEW r \in Made, a = router[r].use.arr
  PROVE  /\ g \in Arrays /\ 1 \in DOMAIN g /\ Len(g[1]) = 0
         /\ \A q \in Made :
              /\ q # r => AllInHeap(g, router[q])
                          /\ ElemsIn(g, router[q].use) = mws[q]
              /\ \A s \in { router[q].notFound, router[q].noMethod,
                            router[q].allNotFound, router[q].allNoMethod } :
                   InHeap(g, s) /\ ElemsIn(g, s) = ElemsIn(heap, s)
         /\ \A m \in Methods : \A k \in DOMAIN table[m] :
              ChainHolds(g, table[m][k].chain, expect[m][k])
<1>1. heap \in Arrays /\ 1 \in DOMAIN heap /\ Len(heap[1]) = 0
  BY DEF IInv, Types, Apart
<1>2. g \in Arrays /\ 1 \in DOMAIN g /\ Len(g[1]) = 0
  BY <1>1 DEF Writes, Arrays
<1>3. ASSUME NEW q \in Made,
             NEW s \in { router[q].notFound, router[q].noMethod,
                         router[q].allNotFound, router[q].allNoMethod }
      PROVE  InHeap(g, s) /\ ElemsIn(g, s) = ElemsIn(heap, s)
  <2>1. s \in Slice /\ InHeap(heap, s)
    BY DEF IInv, Types, Routers, Holds, AllInHeap
  <2>2. s.arr # a \/ a = 1
    BY DEF IInv, Apart, ApartFrom
  <2> QED
    BY <1>1, <2>1, <2>2, SliceStays
<1>4. ASSUME NEW q \in Made, q # r
      PROVE  AllInHeap(g, router[q]) /\ ElemsIn(g, router[q].use) = mws[q]
  <2>1. router[q].use \in Slice /\ InHeap(heap, router[q].use)
    BY DEF IInv, Types, Routers, Holds, AllInHeap
  <2>2. router[q].use.arr # a \/ router[q].use.arr = 1
    BY <1>4 DEF IInv, Apart
  <2>3. /\ InHeap(g, router[q].use)
        /\ ElemsIn(g, router[q].use) = ElemsIn(heap, router[q].use)
    BY <1>1, <2>1, <2>2, SliceStays
  <2> QED
    BY <1>3, <2>3 DEF IInv, Holds, AllInHeap
<1>5. ASSUME NEW m \in Methods, NEW k \in DOMAIN table[m]
      PROVE  ChainHolds(g, table[m][k].chain, expect[m][k])
  <2>1. table[m][k].chain \in Slice
    <3>1. table[m] \in Seq(Route)
      BY DEF IInv, Types
    <3>2. table[m][k] \in Route
      BY <3>1
    <3> QED
      BY <3>2 DEF Route
  <2>2. ChainHolds(heap, table[m][k].chain, expect[m][k])
    BY DEF IInv, Holds
  <2>3. table[m][k].chain.arr # a \/ a = 1
    BY DEF IInv, Apart
  <2> QED
    BY <1>1, <2>1, <2>2, <2>3, SliceStays DEF ChainHolds
<1> QED
  BY <1>2, <1>3, <1>4, <1>5

\* A call on the router r that gives it the fields x: each keeps its array or
\* gets a new one, and the list of middleware keeps away from the others.
LEMMA RouterStep ==
  ASSUME IInv, NEW r \in Made, Writes(heap, heap', router[r].use.arr),
         NEW x \in Routers, router' = [router EXCEPT ![r] = x],
         calls' \in 0..MaxCalls, UNCHANGED <<table, expect>>,
         NEW w \in Seq(Nat), mws' = [mws EXCEPT ![r] = w],
         NEW o \in Given, own' = [own EXCEPT ![r] = o],
         AllInHeap(heap', x), ElemsIn(heap', x.use) = w,
         x.use.arr = router[r].use.arr \/ x.use.arr > Len(heap),
         x.notFound.arr = router[r].notFound.arr \/ x.notFound.arr > Len(heap),
         x.noMethod.arr = router[r].noMethod.arr \/ x.noMethod.arr > Len(heap),
         x.allNotFound.arr = router[r].allNotFound.arr \/ x.allNotFound.arr > Len(heap),
         x.allNoMethod.arr = router[r].allNoMethod.arr \/ x.allNoMethod.arr > Len(heap),
         ApartFrom(x, x),
         r = Root => ErrorChains(heap', x, w, o)
  PROVE  IInv'
<1>1. /\ router \in [Made -> Routers] /\ heap \in Arrays
      /\ mws \in [Made -> Seq(Nat)] /\ own \in [Made -> Given]
  BY DEF IInv, Types
<1>2. /\ Made' = Made
      /\ router'[r] = x /\ mws'[r] = w /\ own'[r] = o
      /\ \A q \in Made : q # r =>
           router'[q] = router[q] /\ mws'[q] = mws[q] /\ own'[q] = own[q]
  BY <1>1 DEF Made
<1>3. /\ heap' \in Arrays /\ 1 \in DOMAIN heap' /\ Len(heap'[1]) = 0
      /\ \A q \in Made : q # r =>
           AllInHeap(heap', router[q]) /\ ElemsIn(heap', router[q].use) = mws[q]
      /\ \A m \in Methods : \A k \in DOMAIN table[m] :
           ChainHolds(heap', table[m][k].chain, expect[m][k])
  BY OthersStay
<1>4. Types'
  BY <1>1, <1>2, <1>3 DEF IInv, Types
<1>5. Len(heap) \in Nat /\ DOMAIN heap = 1..Len(heap)
  BY <1>1 DEF Arrays
<1>6. /\ \A q \in Made :
           /\ router[q].use.arr \in 1..Len(heap) /\ router[q].notFound.arr \in 1..Len(heap)
           /\ router[q].noMethod.arr \in 1..Len(heap)
           /\ router[q].allNotFound.arr \in 1..Len(heap)
           /\ router[q].allNoMethod.arr \in 1..Len(heap)
      /\ \A m \in Methods : \A k \in DOMAIN table[m] : table[m][k].chain.arr \in 1..Len(heap)
  BY <1>5 DEF IInv, Holds, AllInHeap, ChainHolds, InHeap
<1>7. Apart'
  <2>0. /\ x.use.arr \in Nat /\ x.notFound.arr \in Nat /\ x.noMethod.arr \in Nat
        /\ x.allNotFound.arr \in Nat /\ x.allNoMethod.arr \in Nat
    BY DEF Routers, Slice
  <2>1. ASSUME NEW p \in Made, NEW q \in Made PROVE ApartFrom(router'[p], router'[q])
    <3>1. ApartFrom(router[p], router[q])
      BY DEF IInv, Apart
    <3>2. CASE p = r /\ q = r
      BY <1>2, <3>2
    <3>3. CASE p = r /\ q # r
      <4>1. ASSUME x.use.arr = router[p].use.arr PROVE ApartFrom(x, router[q])
        BY <3>1, <4>1 DEF ApartFrom
      <4>2. ASSUME x.use.arr > Len(heap) PROVE ApartFrom(x, router[q])
        <5>1. /\ x.use.arr # router[q].notFound.arr /\ x.use.arr # router[q].noMethod.arr
              /\ x.use.arr # router[q].allNotFound.arr
              /\ x.use.arr # router[q].allNoMethod.arr
          <6>1. /\ router[q].notFound.arr \in 1..Len(heap)
                /\ router[q].noMethod.arr \in 1..Len(heap)
                /\ router[q].allNotFound.arr \in 1..Len(heap)
                /\ router[q].allNoMethod.arr \in 1..Len(heap)
            BY <1>6
          <6> QED
            BY SMTT(30), <1>5, <2>0, <4>2, <6>1
        <5> QED
          BY <5>1 DEF ApartFrom
      <4>3. ApartFrom(x, router[q])
        BY <3>3, <4>1, <4>2
      <4> QED
        BY <1>2, <3>3, <4>3
    <3>4. CASE p # r /\ q = r
      <4>1. ApartFrom(router[p], x)
        <5>1. ASSUME router[p].use.arr # 1
              PROVE  /\ router[p].use.arr # x.notFound.arr /\ router[p].use.arr # x.noMethod.arr
                     /\ router[p].use.arr # x.allNotFound.arr
                     /\ router[p].use.arr # x.allNoMethod.arr
          <6>1. /\ router[p].use.arr # router[r].notFound.arr
                /\ router[p].use.arr # router[r].noMethod.arr
                /\ router[p].use.arr # router[r].allNotFound.arr
                /\ router[p].use.arr # router[r].allNoMethod.arr
            BY <3>1, <3>4, <5>1 DEF ApartFrom
          <6>2. router[p].use.arr \in 1..Len(heap)
            BY <1>6
          <6> QED
            BY SMTT(30), <1>5, <2>0, <6>1, <6>2
        <5> QED
          BY <5>1 DEF ApartFrom
      <4> QED
        BY <1>2, <3>4, <4>1
    <3>5. CASE p # r /\ q # r
      BY <1>2, <3>1, <3>5
    <3> QED
      BY <3>2, <3>3, <3>4, <3>5
  <2>2. ASSUME NEW p \in Made, NEW q \in Made, p # q
        PROVE  router'[p].use.arr = 1 \/ router'[p].use.arr # router'[q].use.arr
    <3>1. router[p].use.arr = 1 \/ router[p].use.arr # router[q].use.arr
      BY <2>2 DEF IInv, Apart
    <3>2. CASE p = r
      <4>1. x.use.arr = 1 \/ x.use.arr # router[q].use.arr
        BY <1>5, <1>6, <2>0, <3>1, <3>2
      <4> QED
        BY <1>2, <2>2, <3>2, <4>1
    <3>3. CASE q = r
      <4>1. router[p].use.arr = 1 \/ router[p].use.arr # x.use.arr
        BY <1>5, <1>6, <2>0, <3>1, <3>3
      <4> QED
        BY <1>2, <2>2, <3>3, <4>1
    <3> QED
      BY <1>2, <3>1, <3>2, <3>3
  <2>3. ASSUME NEW p \in Made, NEW m \in Methods, NEW k \in DOMAIN table[m]
        PROVE  router'[p].use.arr = 1 \/ router'[p].use.arr # table[m][k].chain.arr
    <3>1. router[p].use.arr = 1 \/ router[p].use.arr # table[m][k].chain.arr
      BY DEF IInv, Apart
    <3>2. CASE p = r
      <4>1. x.use.arr = 1 \/ x.use.arr # table[m][k].chain.arr
        BY <1>5, <1>6, <2>0, <3>1, <3>2
      <4> QED
        BY <1>2, <3>2, <4>1
    <3> QED
      BY <1>2, <3>1, <3>2
  <2> QED
    BY <1>2, <1>3, <2>1, <2>2, <2>3 DEF Apart
<1>8. Holds'
  <2>1. \A q \in Made :
          AllInHeap(heap', router'[q]) /\ ElemsIn(heap', router'[q].use) = mws'[q]
    BY <1>2, <1>3
  <2>2. ErrorChains(heap', router'[Root], mws'[Root], own'[Root])
    <3>1. CASE r = Root
      BY <1>2, <3>1
    <3>2. CASE r # Root
      <4>1. /\ Root \in Made /\ router'[Root] = router[Root]
            /\ mws'[Root] = mws[Root] /\ own'[Root] = own[Root]
        BY <1>2, <3>2 DEF IInv, Types
      <4>2. \A s \in { router[Root].notFound, router[Root].noMethod,
                       router[Root].allNotFound, router[Root].allNoMethod } :
              ElemsIn(heap', s) = ElemsIn(heap, s)
        BY <4>1, OthersStay
      <4> QED
        BY <4>1, <4>2 DEF IInv, Holds, ErrorChains
    <3> QED
      BY <3>1, <3>2
  <2> QED
    BY <1>2, <1>3, <2>1, <2>2 DEF IInv, Holds
<1> QED
  BY <1>4, <1>7, <1>8 DEF IInv

\* The handlers of a call.
LEMMA FreshType ==
  ASSUME Types, NEW n \in Nat
  PROVE  Fresh(n) \in Seq(Nat) /\ Len(Fresh(n)) = n
BY DEF Types, Fresh

\* What a call knows of the router it is made on.
LEMMA RouterOf ==
  ASSUME IInv, NEW r \in Made
  PROVE  /\ heap \in Arrays /\ 1 \in DOMAIN heap /\ Len(heap[1]) = 0
         /\ router[r] \in Routers /\ AllInHeap(heap, router[r])
         /\ ElemsIn(heap, router[r].use) = mws[r] /\ ApartFrom(router[r], router[r])
         /\ mws[r] \in Seq(Nat) /\ own[r] \in Given
         /\ r = Root => ErrorChains(heap, router[r], mws[r], own[r])
BY DEF IInv, Types, Apart, Holds

\* Use appends to the list, and then merges it anew into the error chains.
LEMMA UseKeeps ==
  ASSUME IInv, NEW r \in Made, NEW n \in 1..2, Use(r, n)
  PROVE  IInv'
<1>1. /\ heap \in Arrays /\ 1 \in DOMAIN heap /\ Len(heap[1]) = 0
      /\ router[r] \in Routers /\ AllInHeap(heap, router[r])
      /\ ElemsIn(heap, router[r].use) = mws[r] /\ ApartFrom(router[r], router[r])
      /\ mws[r] \in Seq(Nat) /\ own[r] \in Given
      /\ r = Root => ErrorChains(heap, router[r], mws[r], own[r])
  BY RouterOf
<1>2. Fresh(n) \in Seq(Nat) /\ Len(Fresh(n)) > 0
  BY FreshType DEF IInv
<1>3. mws[r] \o Fresh(n) \in Seq(Nat)
  BY <1>1, <1>2, Concat
<1>4. PICK w \in Seq(Nat) : w = mws[r] \o Fresh(n)
  BY <1>3
<1>5. PICK used : used = appendTo(heap, router[r].use, Fresh(n))
  OBVIOUS
<1>6. router[r].use \in Slice /\ InHeap(heap, router[r].use)
  BY <1>1 DEF Routers, AllInHeap
<1>7. /\ Writes(heap, used.heap, router[r].use.arr) /\ used.heap \in Arrays
      /\ used.slice \in Slice /\ InHeap(used.heap, used.slice)
      /\ \/ used.slice.arr = router[r].use.arr /\ router[r].use.arr # 1
         \/ used.slice.arr = Len(heap) + 1
      /\ ElemsIn(used.heap, used.slice) = w
  <2>1. router[r].use.arr = 1 => Len(heap[1]) = 0
    BY <1>1
  <2>2. Appended(heap, router[r].use, Fresh(n), used)
    BY <1>1, <1>2, <1>5, <1>6, <2>1, AppendWrites
  <2> QED
    BY <1>1, <1>4, <2>2 DEF Appended
<1>8. PICK now : now = [router[r] EXCEPT !.use = used.slice]
  OBVIOUS
<1>9. /\ now \in Routers /\ now.use = used.slice /\ now.notFound = router[r].notFound
      /\ now.noMethod = router[r].noMethod /\ now.allNotFound = router[r].allNotFound
      /\ now.allNoMethod = router[r].allNoMethod
  BY <1>1, <1>7, <1>8 DEF Routers
<1>10. \A s \in {router[r].notFound, router[r].noMethod} :
         s \in Slice /\ InHeap(used.heap, s) /\ ElemsIn(used.heap, s) = ElemsIn(heap, s)
  BY <1>1, <1>7, OthersStay DEF Routers
<1>11. PICK all4 : all4 = mergeHandlers(used.heap, now.use,
                                        ElemsIn(used.heap, now.notFound))
  OBVIOUS
<1>12. /\ Writes(used.heap, all4.heap, 0)
       /\ all4.heap \in Arrays /\ Len(all4.heap) = Len(used.heap) + 1
       /\ all4.slice \in Slice /\ all4.slice.arr = Len(used.heap) + 1
       /\ InHeap(all4.heap, all4.slice)
       /\ ElemsIn(all4.heap, all4.slice) = w \o ElemsIn(heap, router[r].notFound)
  <2>1. /\ ElemsIn(used.heap, now.notFound) \in Seq(Nat)
        /\ ElemsIn(used.heap, now.notFound) = ElemsIn(heap, router[r].notFound)
    BY <1>7, <1>9, <1>10, ElemsType
  <2> QED
    <3>1. /\ now.use \in Slice /\ InHeap(used.heap, now.use)
          /\ ElemsIn(used.heap, now.use) = w
      BY <1>7, <1>9
    <3>2. Merged(used.heap, now.use, ElemsIn(used.heap, now.notFound), all4)
      BY <1>7, <1>11, <2>1, <3>1, MergeCopies
    <3> QED
      BY <2>1, <3>1, <3>2 DEF Merged
<1>13. /\ InHeap(all4.heap, now.use) /\ ElemsIn(all4.heap, now.use) = w
       /\ InHeap(all4.heap, now.noMethod)
       /\ ElemsIn(all4.heap, now.noMethod) = ElemsIn(heap, router[r].noMethod)
       /\ InHeap(all4.heap, now.notFound)
       /\ ElemsIn(all4.heap, now.notFound) = ElemsIn(heap, router[r].notFound)
  <2>1. ASSUME NEW s \in {now.use, now.notFound, now.noMethod}
        PROVE  InHeap(all4.heap, s) /\ ElemsIn(all4.heap, s) = ElemsIn(used.heap, s)
    <3>1. s \in Slice /\ InHeap(used.heap, s)
      BY <1>7, <1>9, <1>10
    <3> QED
      BY <1>7, <1>12, <3>1, AllStay
  <2> QED
    BY <1>7, <1>9, <1>10, <2>1
<1>14. PICK all5 : all5 = mergeHandlers(all4.heap, now.use,
                                        ElemsIn(all4.heap, now.noMethod))
  OBVIOUS
<1>15. /\ Writes(all4.heap, all5.heap, 0)
       /\ all5.heap \in Arrays /\ Len(all5.heap) = Len(all4.heap) + 1
       /\ all5.slice \in Slice /\ all5.slice.arr = Len(all4.heap) + 1
       /\ InHeap(all5.heap, all5.slice)
       /\ ElemsIn(all5.heap, all5.slice) = w \o ElemsIn(heap, router[r].noMethod)
  <2>1. ElemsIn(all4.heap, now.noMethod) \in Seq(Nat)
    BY <1>9, <1>12, <1>13, ElemsType DEF Routers
  <2> QED
    <3>1. now.use \in Slice
      BY <1>7, <1>9
    <3>2. Merged(all4.heap, now.use, ElemsIn(all4.heap, now.noMethod), all5)
      BY <1>12, <1>13, <1>14, <2>1, <3>1, MergeCopies
    <3> QED
      BY <1>13, <3>2 DEF Merged
<1>16. \A s \in {now.use, now.notFound, now.noMethod, all4.slice} :
         InHeap(all5.heap, s) /\ ElemsIn(all5.heap, s) = ElemsIn(all4.heap, s)
  <2>1. ASSUME NEW s \in {now.use, now.notFound, now.noMethod, all4.slice}
        PROVE  s \in Slice /\ InHeap(all4.heap, s)
    BY <1>9, <1>12, <1>13 DEF Routers
  <2> QED
    BY <1>12, <1>15, <2>1, AllStay
<1>17. PICK x : x = [now EXCEPT !.allNotFound = all4.slice, !.allNoMethod = all5.slice]
  OBVIOUS
<1>18. /\ x \in Routers /\ x.use = used.slice /\ x.notFound = router[r].notFound
       /\ x.noMethod = router[r].noMethod /\ x.allNotFound = all4.slice
       /\ x.allNoMethod = all5.slice
  BY <1>9, <1>12, <1>15, <1>17 DEF Routers
<1>19. /\ router' = [router EXCEPT ![r] = x] /\ heap' = all5.heap
       /\ mws' = [mws EXCEPT ![r] = w] /\ own' = [own EXCEPT ![r] = own[r]]
       /\ calls' \in 0..MaxCalls /\ UNCHANGED <<table, expect>>
  <2>1. router' = [router EXCEPT ![r] = x] /\ heap' = all5.heap
    BY <1>5, <1>8, <1>11, <1>14, <1>17
    DEF Use, rebuild404Handlers, rebuild405Handlers
  <2> QED
    <3>1. own' = own /\ own = [own EXCEPT ![r] = own[r]]
      BY DEF Use, IInv, Types
    <3>2. calls' \in 0..MaxCalls /\ UNCHANGED <<table, expect>>
      BY CallsAssumption DEF Use, Call, IInv, Types
    <3>3. mws' = [mws EXCEPT ![r] = w]
      BY <1>4 DEF Use
    <3> QED
      BY <2>1, <3>1, <3>2, <3>3
<1>20. Writes(heap, heap', router[r].use.arr)
  <2>1. 0 \notin DOMAIN heap
    BY <1>1 DEF Arrays
  <2>2. Writes(heap, all4.heap, router[r].use.arr)
    BY <1>1, <1>7, <1>12, <2>1, WritesTwice
  <2> QED
    BY <1>1, <1>15, <1>19, <2>1, <2>2, WritesTwice
<1>21. AllInHeap(heap', x) /\ ElemsIn(heap', x.use) = w
  BY <1>9, <1>13, <1>15, <1>16, <1>18, <1>19 DEF AllInHeap
<1>22. /\ Len(heap) \in Nat /\ Len(used.heap) \in Nat /\ Len(used.heap) >= Len(heap)
       /\ all4.slice.arr > Len(used.heap) /\ all5.slice.arr > Len(used.heap)
       /\ x.use.arr = router[r].use.arr \/ x.use.arr > Len(heap)
       /\ x.use.arr \in 1..Len(used.heap)
  <2>1. Len(heap) \in Nat /\ Len(used.heap) \in Nat /\ Len(all4.heap) \in Nat
    <3>1. \A h \in Arrays : Len(h) \in Nat
      BY DEF Arrays
    <3> QED
      BY <1>1, <1>7, <1>12, <3>1
  <2>2. Len(used.heap) >= Len(heap)
    BY <1>7 DEF Writes
  <2>3. used.slice.arr \in 1..Len(used.heap)
    BY <1>7 DEF InHeap, Arrays
  <2> QED
    BY SMTT(30), <1>7, <1>12, <1>15, <1>18, <2>1, <2>2, <2>3
<1>23. ApartFrom(x, x)
  <2>1. x.use.arr # all4.slice.arr /\ x.use.arr # all5.slice.arr
    BY <1>12, <1>15, <1>22 DEF Slice
  <2>2. /\ router[r].notFound.arr \in 1..Len(heap)
        /\ router[r].noMethod.arr \in 1..Len(heap)
    <3>1. DOMAIN heap = 1..Len(heap)
      BY <1>1 DEF Arrays
    <3> QED
      BY <1>1, <3>1 DEF AllInHeap, InHeap
  <2>3. ASSUME x.use.arr = Len(heap) + 1
        PROVE  x.use.arr # router[r].notFound.arr /\ x.use.arr # router[r].noMethod.arr
    BY <1>22, <2>2, <2>3
  <2>4. ASSUME x.use.arr = router[r].use.arr, x.use.arr # 1
        PROVE  x.use.arr # router[r].notFound.arr /\ x.use.arr # router[r].noMethod.arr
    BY <1>1, <2>4 DEF ApartFrom
  <2>5. x.use.arr # router[r].notFound.arr /\ x.use.arr # router[r].noMethod.arr
    BY <1>7, <1>18, <2>3, <2>4
  <2> QED
    BY <1>18, <2>1, <2>5 DEF ApartFrom
<1>24. ASSUME r = Root PROVE ErrorChains(heap', x, w, own[r])
  <2>1. ErrorChains(heap, router[r], mws[r], own[r])
    BY <1>1, <1>24
  <2>2. ElemsIn(heap, router[r].notFound) \in Seq(Nat) /\ own[r].notFound \in Seq(Nat)
    BY <1>1, ElemsType DEF Routers, AllInHeap, Given
  <2>3. /\ Starts(w, w \o ElemsIn(heap, router[r].notFound))
        /\ Ends(own[r].notFound, w \o ElemsIn(heap, router[r].notFound))
    BY <2>1, <2>2, StartsConcat, EndsConcat DEF ErrorChains
  <2>4. /\ ElemsIn(heap', x.allNotFound) = w \o ElemsIn(heap, router[r].notFound)
        /\ ElemsIn(heap', x.allNoMethod) = w \o ElemsIn(heap, router[r].noMethod)
        /\ ElemsIn(heap', x.notFound) = ElemsIn(heap, router[r].notFound)
        /\ ElemsIn(heap', x.noMethod) = ElemsIn(heap, router[r].noMethod)
    BY <1>9, <1>12, <1>13, <1>15, <1>16, <1>18, <1>19
  <2> QED
    BY <2>1, <2>3, <2>4 DEF ErrorChains
<1> QED
  <2>1. /\ x.notFound.arr = router[r].notFound.arr /\ x.noMethod.arr = router[r].noMethod.arr
        /\ x.allNotFound.arr > Len(heap) /\ x.allNoMethod.arr > Len(heap)
    BY <1>12, <1>15, <1>18, <1>22 DEF Slice
  <2> QED
    BY <1>1, <1>18, <1>19, <1>20, <1>21, <1>22, <1>23, <1>24, <2>1, RouterStep

\* NotFound merges the middleware in twice, each time into a new array.
LEMMA NotFoundKeeps ==
  ASSUME IInv, NEW r \in Made, NotFound(r)
  PROVE  IInv'
<1>1. /\ heap \in Arrays /\ 1 \in DOMAIN heap /\ Len(heap[1]) = 0
      /\ router[r] \in Routers /\ AllInHeap(heap, router[r])
      /\ ElemsIn(heap, router[r].use) = mws[r] /\ ApartFrom(router[r], router[r])
      /\ mws[r] \in Seq(Nat) /\ own[r] \in Given
      /\ r = Root => ErrorChains(heap, router[r], mws[r], own[r])
  BY RouterOf
<1>2. Fresh(1) \in Seq(Nat)
  BY FreshType DEF IInv
<1>3. PICK w \in Seq(Nat) : w = mws[r]
  BY <1>1
<1>4. PICK f \in Seq(Nat) : f = Fresh(1)
  BY <1>2
<1>5. router[r].use \in Slice /\ InHeap(heap, router[r].use)
  BY <1>1 DEF Routers, AllInHeap
<1>6. PICK h : h = mergeHandlers(heap, router[r].use, f)
  OBVIOUS
<1>7. Merged(heap, router[r].use, f, h)
  BY <1>1, <1>5, <1>6, MergeCopies
<1>8. /\ Writes(heap, h.heap, 0) /\ h.heap \in Arrays /\ Len(h.heap) = Len(heap) + 1
      /\ h.slice \in Slice /\ h.slice.arr = Len(heap) + 1 /\ InHeap(h.heap, h.slice)
      /\ ElemsIn(h.heap, h.slice) = w \o f
  BY <1>1, <1>3, <1>7 DEF Merged
<1>9. PICK now : now = [router[r] EXCEPT !.notFound = h.slice]
  OBVIOUS
<1>10. /\ now \in Routers /\ now.use = router[r].use /\ now.notFound = h.slice
       /\ now.noMethod = router[r].noMethod /\ now.allNotFound = router[r].allNotFound
       /\ now.allNoMethod = router[r].allNoMethod
  BY <1>1, <1>8, <1>9 DEF Routers
<1>11. ASSUME NEW s \in {router[r].use, router[r].noMethod, router[r].allNoMethod}
       PROVE  s \in Slice /\ InHeap(h.heap, s) /\ ElemsIn(h.heap, s) = ElemsIn(heap, s)
  <2>1. s \in Slice /\ InHeap(heap, s)
    BY <1>1 DEF Routers, AllInHeap
  <2> QED
    BY <1>1, <1>8, <2>1, AllStay
<1>12. PICK all4 : all4 = mergeHandlers(h.heap, now.use, ElemsIn(h.heap, now.notFound))
  OBVIOUS
<1>13. w \o f \in Seq(Nat)
  BY Concat
<1>14. Merged(h.heap, now.use, ElemsIn(h.heap, now.notFound), all4)
  <2>1. ElemsIn(h.heap, now.notFound) \in Seq(Nat)
    BY <1>8, <1>10, <1>13
  <2>2. now.use \in Slice /\ InHeap(h.heap, now.use)
    BY <1>10, <1>11
  <2> QED
    BY <1>8, <1>12, <2>1, <2>2, MergeCopies
<1>15. /\ Writes(h.heap, all4.heap, 0) /\ all4.heap \in Arrays
       /\ all4.slice \in Slice /\ all4.slice.arr = Len(h.heap) + 1
       /\ InHeap(all4.heap, all4.slice)
       /\ ElemsIn(all4.heap, all4.slice) = w \o (w \o f)
  BY <1>1, <1>3, <1>8, <1>10, <1>11, <1>14 DEF Merged
<1>16. ASSUME NEW s \in {router[r].use, router[r].noMethod, router[r].allNoMethod, h.slice}
       PROVE  InHeap(all4.heap, s) /\ ElemsIn(all4.heap, s) = ElemsIn(h.heap, s)
  <2>1. s \in Slice /\ InHeap(h.heap, s)
    BY <1>8, <1>11
  <2> QED
    BY <1>8, <1>15, <2>1, AllStay
<1>17. PICK x : x = [now EXCEPT !.allNotFound = all4.slice]
  OBVIOUS
<1>18. /\ x \in Routers /\ x.use = router[r].use /\ x.notFound = h.slice
       /\ x.noMethod = router[r].noMethod /\ x.allNotFound = all4.slice
       /\ x.allNoMethod = router[r].allNoMethod
  BY <1>10, <1>15, <1>17 DEF Routers
<1>19. PICK o : o = [own[r] EXCEPT !.notFound = f]
  OBVIOUS
<1>20. o \in Given /\ o.notFound = f /\ o.noMethod = own[r].noMethod
  BY <1>1, <1>19 DEF Given
<1>21. /\ router' = [router EXCEPT ![r] = x] /\ heap' = all4.heap
       /\ mws' = [mws EXCEPT ![r] = w] /\ own' = [own EXCEPT ![r] = o]
       /\ calls' \in 0..MaxCalls /\ UNCHANGED <<table, expect>>
  <2>1. router' = [router EXCEPT ![r] = x] /\ heap' = all4.heap
    BY <1>4, <1>6, <1>9, <1>12, <1>17 DEF NotFound, rebuild404Handlers
  <2>2. own' = [own EXCEPT ![r] = o]
    BY <1>4, <1>19 DEF NotFound
  <2>3. mws' = mws /\ mws = [mws EXCEPT ![r] = w]
    BY <1>3 DEF NotFound, IInv, Types
  <2>4. calls' \in 0..MaxCalls /\ UNCHANGED <<table, expect>>
    BY CallsAssumption DEF NotFound, Call, IInv, Types
  <2> QED
    BY <2>1, <2>2, <2>3, <2>4
<1>22. Writes(heap, heap', router[r].use.arr)
  <2>1. 0 \notin DOMAIN heap
    BY <1>1 DEF Arrays
  <2>2. Writes(heap, all4.heap, 0)
    BY <1>1, <1>8, <1>15, <2>1, WritesTwice
  <2> QED
    BY <1>21, <2>1, <2>2 DEF Writes
<1>23. AllInHeap(heap', x) /\ ElemsIn(heap', x.use) = w
  BY <1>1, <1>3, <1>11, <1>15, <1>16, <1>18, <1>21 DEF AllInHeap
<1>24. /\ x.notFound.arr > Len(heap) /\ x.allNotFound.arr > Len(heap)
       /\ x.use.arr \in 1..Len(heap)
  <2>1. Len(heap) \in Nat /\ DOMAIN heap = 1..Len(heap)
    BY <1>1 DEF Arrays
  <2> QED
    BY SMTT(30), <1>5, <1>8, <1>15, <1>18, <2>1 DEF InHeap
<1>25. ApartFrom(x, x)
  <2>1. x.use.arr # x.notFound.arr /\ x.use.arr # x.allNotFound.arr
    BY <1>24, <1>8, <1>15, <1>18 DEF Slice
  <2>2. ASSUME x.use.arr # 1
        PROVE  x.use.arr # x.noMethod.arr /\ x.use.arr # x.allNoMethod.arr
    BY <1>1, <1>18, <2>2 DEF ApartFrom
  <2> QED
    BY <2>1, <2>2 DEF ApartFrom
<1>26. ASSUME r = Root PROVE ErrorChains(heap', x, w, o)
  <2>1. ErrorChains(heap, router[r], w, own[r])
    BY <1>1, <1>3, <1>26
  <2>2. /\ Starts(w, w \o (w \o f)) /\ Ends(f, w \o (w \o f)) /\ Ends(f, w \o f)
    BY <1>13, StartsConcat, EndsConcat, EndsSelf
  <2>3. /\ ElemsIn(heap', x.allNotFound) = w \o (w \o f)
        /\ ElemsIn(heap', x.notFound) = w \o f
        /\ ElemsIn(heap', x.noMethod) = ElemsIn(heap, router[r].noMethod)
        /\ ElemsIn(heap', x.allNoMethod) = ElemsIn(heap, router[r].allNoMethod)
    BY <1>8, <1>11, <1>15, <1>16, <1>18, <1>21
  <2> QED
    BY <1>20, <2>1, <2>2, <2>3 DEF ErrorChains
<1> QED
  BY <1>18, <1>20, <1>21, <1>22, <1>23, <1>24, <1>25, <1>26, RouterStep

\* NoMethod keeps the slice it is given, which is nobody else's.
LEMMA NoMethodKeeps ==
  ASSUME IInv, NEW r \in Made, NoMethod(r)
  PROVE  IInv'
<1>1. /\ heap \in Arrays /\ 1 \in DOMAIN heap /\ Len(heap[1]) = 0
      /\ router[r] \in Routers /\ AllInHeap(heap, router[r])
      /\ ElemsIn(heap, router[r].use) = mws[r] /\ ApartFrom(router[r], router[r])
      /\ mws[r] \in Seq(Nat) /\ own[r] \in Given
      /\ r = Root => ErrorChains(heap, router[r], mws[r], own[r])
  BY RouterOf
<1>2. Fresh(1) \in Seq(Nat) /\ Len(Fresh(1)) = 1
  BY FreshType DEF IInv
<1>3. PICK w \in Seq(Nat) : w = mws[r]
  BY <1>1
<1>4. PICK f \in Seq(Nat) : f = Fresh(1)
  BY <1>2
<1>5. PICK given : given = Append(heap, f)
  OBVIOUS
<1>6. /\ Writes(heap, given, 0) /\ given \in Arrays /\ Len(given) = Len(heap) + 1
      /\ given[Len(heap) + 1] = f
  BY <1>1, <1>5, OneMore
<1>7. PICK s : s = [arr |-> Len(given), len |-> 1]
  OBVIOUS
<1>8. /\ s \in Slice /\ s.arr = Len(heap) + 1 /\ InHeap(given, s)
      /\ ElemsIn(given, s) = f
  <2>1. Len(heap) \in Nat /\ DOMAIN given = 1..Len(given)
    BY <1>1, <1>6 DEF Arrays
  <2>2. s \in Slice /\ s.arr = Len(heap) + 1 /\ s.len = 1
    BY <1>6, <1>7, <2>1 DEF Slice
  <2>3. SubSeq(f, 1, 1) = f /\ Len(f) = 1
    BY <1>2, <1>4, SubSeqFull
  <2> QED
    BY <1>6, <2>1, <2>2, <2>3 DEF InHeap, ElemsIn
<1>9. PICK now : now = [router[r] EXCEPT !.noMethod = s]
  OBVIOUS
<1>10. /\ now \in Routers /\ now.use = router[r].use /\ now.noMethod = s
       /\ now.notFound = router[r].notFound /\ now.allNotFound = router[r].allNotFound
       /\ now.allNoMethod = router[r].allNoMethod
  BY <1>1, <1>8, <1>9 DEF Routers
<1>11. ASSUME NEW t \in {router[r].use, router[r].notFound, router[r].allNotFound}
       PROVE  t \in Slice /\ InHeap(given, t) /\ ElemsIn(given, t) = ElemsIn(heap, t)
  <2>1. t \in Slice /\ InHeap(heap, t)
    BY <1>1 DEF Routers, AllInHeap
  <2> QED
    BY <1>1, <1>6, <2>1, AllStay
<1>12. PICK all5 : all5 = mergeHandlers(given, now.use, ElemsIn(given, now.noMethod))
  OBVIOUS
<1>13. Merged(given, now.use, ElemsIn(given, now.noMethod), all5)
  <2>1. ElemsIn(given, now.noMethod) \in Seq(Nat)
    BY <1>8, <1>10
  <2>2. now.use \in Slice /\ InHeap(given, now.use)
    BY <1>10, <1>11
  <2> QED
    BY <1>6, <1>12, <2>1, <2>2, MergeCopies
<1>14. /\ Writes(given, all5.heap, 0) /\ all5.heap \in Arrays
       /\ all5.slice \in Slice /\ all5.slice.arr = Len(given) + 1
       /\ InHeap(all5.heap, all5.slice)
       /\ ElemsIn(all5.heap, all5.slice) = w \o f
  BY <1>1, <1>3, <1>8, <1>10, <1>11, <1>13 DEF Merged
<1>15. ASSUME NEW t \in {router[r].use, router[r].notFound, router[r].allNotFound, s}
       PROVE  InHeap(all5.heap, t) /\ ElemsIn(all5.heap, t) = ElemsIn(given, t)
  <2>1. t \in Slice /\ InHeap(given, t)
    BY <1>8, <1>11
  <2> QED
    BY <1>6, <1>14, <2>1, AllStay
<1>16. PICK x : x = [now EXCEPT !.allNoMethod = all5.slice]
  OBVIOUS
<1>17. /\ x \in Routers /\ x.use = router[r].use /\ x.noMethod = s
       /\ x.notFound = router[r].notFound /\ x.allNotFound = router[r].allNotFound
       /\ x.allNoMethod = all5.slice
  BY <1>10, <1>14, <1>16 DEF Routers
<1>18. PICK o : o = [own[r] EXCEPT !.noMethod = f]
  OBVIOUS
<1>19. o \in Given /\ o.noMethod = f /\ o.notFound = own[r].notFound
  BY <1>1, <1>18 DEF Given
<1>20. /\ router' = [router EXCEPT ![r] = x] /\ heap' = all5.heap
       /\ mws' = [mws EXCEPT ![r] = w] /\ own' = [own EXCEPT ![r] = o]
       /\ calls' \in 0..MaxCalls /\ UNCHANGED <<table, expect>>
  <2>1. router' = [router EXCEPT ![r] = x] /\ heap' = all5.heap
    BY <1>4, <1>5, <1>7, <1>9, <1>12, <1>16 DEF NoMethod, rebuild405Handlers
  <2>2. own' = [own EXCEPT ![r] = o]
    BY <1>4, <1>18 DEF NoMethod
  <2>3. mws' = mws /\ mws = [mws EXCEPT ![r] = w]
    BY <1>3 DEF NoMethod, IInv, Types
  <2>4. calls' \in 0..MaxCalls /\ UNCHANGED <<table, expect>>
    BY CallsAssumption DEF NoMethod, Call, IInv, Types
  <2> QED
    BY <2>1, <2>2, <2>3, <2>4
<1>21. Writes(heap, heap', router[r].use.arr)
  <2>1. 0 \notin DOMAIN heap
    BY <1>1 DEF Arrays
  <2>2. Writes(heap, all5.heap, 0)
    BY <1>1, <1>6, <1>14, <2>1, WritesTwice
  <2> QED
    BY <1>20, <2>1, <2>2 DEF Writes
<1>22. AllInHeap(heap', x) /\ ElemsIn(heap', x.use) = w
  BY <1>1, <1>3, <1>11, <1>14, <1>15, <1>17, <1>20 DEF AllInHeap
<1>23. /\ x.noMethod.arr > Len(heap) /\ x.allNoMethod.arr > Len(heap)
       /\ x.use.arr \in 1..Len(heap)
  <2>1. Len(heap) \in Nat /\ DOMAIN heap = 1..Len(heap)
    BY <1>1 DEF Arrays
  <2>2. InHeap(heap, router[r].use)
    BY <1>1 DEF AllInHeap
  <2> QED
    BY <1>6, <1>8, <1>14, <1>17, <2>1, <2>2 DEF InHeap
<1>24. ApartFrom(x, x)
  <2>1. x.use.arr # x.noMethod.arr /\ x.use.arr # x.allNoMethod.arr
    BY <1>23, <1>8, <1>14, <1>17 DEF Slice
  <2>2. ASSUME x.use.arr # 1
        PROVE  x.use.arr # x.notFound.arr /\ x.use.arr # x.allNotFound.arr
    BY <1>1, <1>17, <2>2 DEF ApartFrom
  <2> QED
    BY <2>1, <2>2 DEF ApartFrom
<1>25. ASSUME r = Root PROVE ErrorChains(heap', x, w, o)
  <2>1. ErrorChains(heap, router[r], w, own[r])
    BY <1>1, <1>3, <1>25
  <2>2. /\ ElemsIn(heap', x.allNoMethod) = w \o f
        /\ ElemsIn(heap', x.noMethod) = f
        /\ ElemsIn(heap', x.notFound) = ElemsIn(heap, router[r].notFound)
        /\ ElemsIn(heap', x.allNotFound) = ElemsIn(heap, router[r].allNotFound)
    BY <1>8, <1>11, <1>14, <1>15, <1>17, <1>20
  <2> QED
    BY <1>19, <2>1, <2>2 DEF ErrorChains
<1> QED
  BY <1>17, <1>19, <1>20, <1>21, <1>22, <1>23, <1>24, <1>25, RouterStep

\* A call that makes new arrays only: what there was of slices stays.
LEMMA NothingWritten ==
  ASSUME IInv, NEW g, Writes(heap, g, 0)
  PROVE  /\ g \in Arrays /\ 1 \in DOMAIN g /\ Len(g[1]) = 0
         /\ \A q \in Made : AllInHeap(g, router[q]) /\ ElemsIn(g, router[q].use) = mws[q]
         /\ ErrorChains(g, router[Root], mws[Root], own[Root])
         /\ \A m \in Methods : \A k \in DOMAIN table[m] :
              ChainHolds(g, table[m][k].chain, expect[m][k])
<1>1. heap \in Arrays /\ 1 \in DOMAIN heap /\ Len(heap[1]) = 0
  BY DEF IInv, Types, Apart
<1>2. g \in Arrays /\ 1 \in DOMAIN g /\ Len(g[1]) = 0
  BY <1>1 DEF Writes, Arrays
<1>3. ASSUME NEW q \in Made,
             NEW s \in { router[q].use, router[q].notFound, router[q].noMethod,
                         router[q].allNotFound, router[q].allNoMethod }
      PROVE  InHeap(g, s) /\ ElemsIn(g, s) = ElemsIn(heap, s)
  <2>1. s \in Slice /\ InHeap(heap, s)
    BY DEF IInv, Types, Routers, Holds, AllInHeap
  <2> QED
    BY <1>1, <2>1, AllStay
<1>4. ASSUME NEW q \in Made
      PROVE  AllInHeap(g, router[q]) /\ ElemsIn(g, router[q].use) = mws[q]
  BY <1>3 DEF IInv, Holds, AllInHeap
<1>5. ErrorChains(g, router[Root], mws[Root], own[Root])
  <2>1. Root \in Made /\ ErrorChains(heap, router[Root], mws[Root], own[Root])
    BY DEF IInv, Types, Holds
  <2> QED
    BY <1>3, <2>1 DEF ErrorChains
<1>6. ASSUME NEW m \in Methods, NEW k \in DOMAIN table[m]
      PROVE  ChainHolds(g, table[m][k].chain, expect[m][k])
  <2>1. table[m] \in Seq(Route)
    BY DEF IInv, Types
  <2>2. table[m][k] \in Route
    BY <2>1
  <2>3. table[m][k].chain \in Slice
    BY <2>2 DEF Route
  <2>4. ChainHolds(heap, table[m][k].chain, expect[m][k])
    BY DEF IInv, Holds
  <2> QED
    BY <1>1, <2>3, <2>4, AllStay DEF ChainHolds
<1> QED
  BY <1>2, <1>4, <1>5, <1>6

\* The path of a route has segments that a URL, or a parameter, can have.
LEMMA PathType ==
  ASSUME NEW x \in Routers, NEW p \in Paths
  PROVE  path(x, p) \in Path
<1>1. /\ x.group \in Seq(DOMAIN Fold) /\ p.segs \in Seq(DOMAIN Width)
      /\ p.flag \in {"full", "prefix", "plain"}
      /\ "" \in DOMAIN Width /\ DOMAIN Fold \subseteq DOMAIN Width
  BY FoldAssumption, SlashAssumption, PathsAssumption DEF Routers
<1>2. PICK D : D = DOMAIN Width
  OBVIOUS
<1>3. x.group \in Seq(D) /\ p.segs \in Seq(D)
  BY <1>1, <1>2, SeqMonotonic
<1>4. <<"">> \in Seq(D)
  <2>1. PICK e \in D : e = ""
    BY <1>1, <1>2
  <2>2. <<e>> \in Seq(D)
    OBVIOUS
  <2> QED
    BY <2>1, <2>2
<1>5. x.group \o p.segs \in Seq(D)
  BY <1>3, ConcatProperties
<1> QED
  BY <1>1, <1>2, <1>3, <1>4, <1>5 DEF path, Path

\* Group copies the list of its parent: the new one has a new array.
LEMMA GroupKeeps ==
  ASSUME IInv, NEW r \in Made, NEW g \in GroupNames, NEW n \in 0..1, Group(r, g, n)
  PROVE  IInv'
<1>1. /\ heap \in Arrays /\ 1 \in DOMAIN heap /\ Len(heap[1]) = 0
      /\ router[r] \in Routers /\ AllInHeap(heap, router[r])
      /\ ElemsIn(heap, router[r].use) = mws[r] /\ mws[r] \in Seq(Nat)
  BY RouterOf
<1>2. Fresh(n) \in Seq(Nat)
  BY FreshType DEF IInv
<1>3. mws[r] \o Fresh(n) \in Seq(Nat)
  BY <1>1, <1>2, Concat
<1>4. PICK w \in Seq(Nat) : w = mws[r] \o Fresh(n)
  BY <1>3
<1>5. PICK u : u = mergeHandlers(heap, router[r].use, Fresh(n))
  OBVIOUS
<1>6. router[r].use \in Slice /\ InHeap(heap, router[r].use)
  BY <1>1 DEF Routers, AllInHeap
<1>7. Merged(heap, router[r].use, Fresh(n), u)
  BY <1>1, <1>2, <1>5, <1>6, MergeCopies
<1>8. /\ Writes(heap, u.heap, 0) /\ u.heap \in Arrays
      /\ u.slice \in Slice /\ u.slice.arr = Len(heap) + 1 /\ InHeap(u.heap, u.slice)
      /\ ElemsIn(u.heap, u.slice) = w
  BY <1>1, <1>4, <1>7 DEF Merged
<1>9. PICK x : x = newRouter(Append(router[r].group, Segment[g]), u.slice)
  OBVIOUS
<1>10. /\ x \in Routers /\ x.use = u.slice /\ x.notFound = Nil /\ x.noMethod = Nil
       /\ x.allNotFound = Nil /\ x.allNoMethod = Nil
  <2>1. Append(router[r].group, Segment[g]) \in Seq(DOMAIN Fold)
    BY <1>1, GroupsAssumption DEF Routers
  <2>2. Nil \in Slice
    BY DEF Nil, Slice
  <2> QED
    BY <1>8, <1>9, <2>1, <2>2 DEF newRouter, Routers
<1>11. PICK o : o = [notFound |-> << >>, noMethod |-> << >>]
  OBVIOUS
<1>12. o \in Given
  BY <1>11 DEF Given
<1>13. /\ g \notin Made /\ heap' = u.heap
       /\ router' = With(router, g, x) /\ mws' = With(mws, g, w) /\ own' = With(own, g, o)
       /\ calls' \in 0..MaxCalls /\ UNCHANGED <<table, expect>>
  <2>1. calls' \in 0..MaxCalls /\ UNCHANGED <<table, expect>> /\ g \notin Made
    BY CallsAssumption DEF Group, Call, IInv, Types
  <2>2. heap' = u.heap /\ router' = With(router, g, x)
    BY <1>5, <1>9 DEF Group
  <2>3. mws' = With(mws, g, w) /\ own' = With(own, g, o)
    BY <1>4, <1>11 DEF Group
  <2> QED
    BY <2>1, <2>2, <2>3
<1>14. /\ router \in [Made -> Routers] /\ mws \in [Made -> Seq(Nat)]
       /\ own \in [Made -> Given] /\ Root \in Made /\ Made \subseteq {Root} \cup GroupNames
  BY DEF IInv, Types
<1>15. /\ Made' = Made \cup {g} /\ g # Root
       /\ router'[g] = x /\ mws'[g] = w /\ own'[g] = o
       /\ \A q \in Made : /\ router'[q] = router[q] /\ mws'[q] = mws[q]
                          /\ own'[q] = own[q]
  BY <1>13, <1>14 DEF Made, With
<1>16. Types'
  <2>1. router' \in [Made' -> Routers]
    BY <1>10, <1>13, <1>14, <1>15 DEF With
  <2>2. mws' \in [Made' -> Seq(Nat)] /\ own' \in [Made' -> Given]
    BY <1>12, <1>13, <1>14, <1>15 DEF With
  <2>3. heap' \in Arrays /\ Root \in Made' /\ Made' \subseteq {Root} \cup GroupNames
    BY <1>8, <1>13, <1>14, <1>15
  <2>4. table' \in [Methods -> Seq(Route)] /\ expect' \in [Methods -> Seq(Seq(Nat))]
    BY <1>13 DEF IInv, Types
  <2> QED
    BY <1>13, <2>1, <2>2, <2>3, <2>4 DEF Types
<1>17. /\ 1 \in DOMAIN heap' /\ Len(heap'[1]) = 0
       /\ \A q \in Made : AllInHeap(heap', router[q]) /\ ElemsIn(heap', router[q].use) = mws[q]
       /\ ErrorChains(heap', router[Root], mws[Root], own[Root])
       /\ \A m \in Methods : \A k \in DOMAIN table[m] :
            ChainHolds(heap', table[m][k].chain, expect[m][k])
  BY <1>8, <1>13, NothingWritten
<1>18. Len(heap) \in Nat /\ DOMAIN heap = 1..Len(heap)
  BY <1>1 DEF Arrays
<1>19. /\ \A q \in Made :
            /\ router[q].use.arr \in 1..Len(heap) /\ router[q].notFound.arr \in 1..Len(heap)
            /\ router[q].noMethod.arr \in 1..Len(heap)
            /\ router[q].allNotFound.arr \in 1..Len(heap)
            /\ router[q].allNoMethod.arr \in 1..Len(heap)
       /\ \A m \in Methods : \A k \in DOMAIN table[m] : table[m][k].chain.arr \in 1..Len(heap)
  BY <1>18 DEF IInv, Holds, AllInHeap, ChainHolds, InHeap
<1>20. x.use.arr = Len(heap) + 1
  BY <1>8, <1>10
<1>21. Apart'
  <2>1. ASSUME NEW p \in Made', NEW q \in Made' PROVE ApartFrom(router'[p], router'[q])
    <3>1. CASE p \in Made /\ q \in Made
      BY <1>15, <3>1 DEF IInv, Apart
    <3>2. CASE p = g /\ q \in Made
      <4>1. ApartFrom(x, router[q])
        BY <1>18, <1>19, <1>20, <3>2 DEF ApartFrom
      <4> QED
        BY <1>15, <3>2, <4>1
    <3>3. CASE q = g
      <4>1. ApartFrom(router'[p], x)
        BY <1>10 DEF ApartFrom, Nil
      <4> QED
        BY <1>15, <3>3, <4>1
    <3> QED
      BY <1>15, <3>1, <3>2, <3>3
  <2>2. ASSUME NEW p \in Made', NEW q \in Made', p # q
        PROVE  router'[p].use.arr = 1 \/ router'[p].use.arr # router'[q].use.arr
    <3>1. CASE p \in Made /\ q \in Made
      BY <1>15, <2>2, <3>1 DEF IInv, Apart
    <3>2. CASE p = g /\ q \in Made
      <4>1. x.use.arr # router[q].use.arr
        BY <1>18, <1>19, <1>20, <3>2
      <4> QED
        BY <1>15, <3>2, <4>1
    <3>3. CASE p \in Made /\ q = g
      <4>1. x.use.arr # router[p].use.arr
        BY <1>18, <1>19, <1>20, <3>3
      <4> QED
        BY <1>15, <3>3, <4>1
    <3> QED
      BY <1>15, <2>2, <3>1, <3>2, <3>3
  <2>3. ASSUME NEW p \in Made', NEW m \in Methods, NEW k \in DOMAIN table[m]
        PROVE  router'[p].use.arr = 1 \/ router'[p].use.arr # table[m][k].chain.arr
    <3>1. CASE p \in Made
      BY <1>15, <3>1 DEF IInv, Apart
    <3>2. CASE p = g
      <4>1. x.use.arr # table[m][k].chain.arr
        BY <1>18, <1>19, <1>20
      <4> QED
        BY <1>15, <3>2, <4>1
    <3> QED
      BY <1>15, <3>1, <3>2
  <2> QED
    BY <1>13, <1>17, <2>1, <2>2, <2>3 DEF Apart
<1>22. Holds'
  <2>1. AllInHeap(heap', x) /\ ElemsIn(heap', x.use) = w
    <3>1. InHeap(heap', Nil)
      <4>1. heap'[1] \in Seq(Nat)
        BY <1>8, <1>13, <1>17 DEF Arrays
      <4> QED
        BY <1>17, <4>1 DEF InHeap, Nil
    <3> QED
      BY <1>8, <1>10, <1>13, <3>1 DEF AllInHeap
  <2>2. \A q \in Made' :
          AllInHeap(heap', router'[q]) /\ ElemsIn(heap', router'[q].use) = mws'[q]
    BY <1>15, <1>17, <2>1
  <2>3. ErrorChains(heap', router'[Root], mws'[Root], own'[Root])
    BY <1>14, <1>15, <1>17
  <2> QED
    BY <1>13, <1>17, <2>2, <2>3 DEF IInv, Holds
<1> QED
  BY <1>16, <1>21, <1>22 DEF IInv

\* Handler copies the list too: the chain of a route has a new array.
LEMMA HandlerKeeps ==
  ASSUME IInv, NEW r \in Made, NEW m \in Methods, NEW p \in Paths, Handler(r, m, p)
  PROVE  IInv'
<1>1. /\ heap \in Arrays /\ 1 \in DOMAIN heap /\ Len(heap[1]) = 0
      /\ router[r] \in Routers /\ AllInHeap(heap, router[r])
      /\ ElemsIn(heap, router[r].use) = mws[r] /\ mws[r] \in Seq(Nat)
  BY RouterOf
<1>2. Fresh(1) \in Seq(Nat) /\ Len(Fresh(1)) = 1
  BY FreshType DEF IInv
<1>3. mws[r] \o Fresh(1) \in Seq(Nat) /\ Len(mws[r] \o Fresh(1)) > 0
  <2>1. Len(mws[r] \o Fresh(1)) = Len(mws[r]) + 1 /\ Len(mws[r]) \in Nat
    BY <1>1, <1>2, Concat
  <2> QED
    BY <1>1, <1>2, <2>1, Concat
<1>4. PICK w \in Seq(Nat) : w = mws[r] \o Fresh(1)
  BY <1>3
<1>5. PICK h : h = mergeHandlers(heap, router[r].use, Fresh(1))
  OBVIOUS
<1>6. router[r].use \in Slice /\ InHeap(heap, router[r].use)
  BY <1>1 DEF Routers, AllInHeap
<1>7. Merged(heap, router[r].use, Fresh(1), h)
  BY <1>1, <1>2, <1>5, <1>6, MergeCopies
<1>8. /\ Writes(heap, h.heap, 0) /\ h.heap \in Arrays
      /\ h.slice \in Slice /\ h.slice.arr = Len(heap) + 1 /\ InHeap(h.heap, h.slice)
      /\ ElemsIn(h.heap, h.slice) = w
  BY <1>1, <1>4, <1>7 DEF Merged
<1>9. PICK c : c = [path |-> path(router[r], p), chain |-> h.slice]
  OBVIOUS
<1>10. c \in Route /\ c.chain = h.slice
  BY <1>1, <1>8, <1>9, PathType DEF Route
<1>11. /\ heap' = h.heap
       /\ table' = [table EXCEPT ![m] = Append(@, c)]
       /\ expect' = [expect EXCEPT ![m] = Append(@, w)]
       /\ calls' \in 0..MaxCalls /\ UNCHANGED <<router, mws, own>>
  <2>1. calls' \in 0..MaxCalls /\ UNCHANGED <<router, mws, own>>
    BY CallsAssumption DEF Handler, Call, IInv, Types
  <2>2. heap' = h.heap /\ table' = [table EXCEPT ![m] = Append(@, c)]
    BY <1>5, <1>9 DEF Handler
  <2>3. expect' = [expect EXCEPT ![m] = Append(@, w)]
    BY <1>4 DEF Handler
  <2> QED
    BY <2>1, <2>2, <2>3
<1>12. /\ table \in [Methods -> Seq(Route)] /\ expect \in [Methods -> Seq(Seq(Nat))]
       /\ \A i \in Methods : Len(expect[i]) = Len(table[i])
  BY DEF IInv, Types, Holds
<1>13. PICK t \in Seq(Route) : t = table[m]
  BY <1>12
<1>14. PICK e \in Seq(Seq(Nat)) : e = expect[m]
  BY <1>12
<1>15. /\ table'[m] = Append(t, c) /\ expect'[m] = Append(e, w)
       /\ \A i \in Methods : i # m => table'[i] = table[i] /\ expect'[i] = expect[i]
  BY <1>11, <1>12, <1>13, <1>14
<1>16. /\ Append(t, c) \in Seq(Route) /\ Len(Append(t, c)) = Len(t) + 1
       /\ Append(t, c)[Len(t) + 1] = c
       /\ \A k \in 1..Len(t) : Append(t, c)[k] = t[k]
       /\ DOMAIN Append(t, c) = DOMAIN t \cup {Len(t) + 1} /\ DOMAIN t = 1..Len(t)
  BY <1>10
<1>17. /\ Append(e, w) \in Seq(Seq(Nat)) /\ Len(Append(e, w)) = Len(e) + 1
       /\ Append(e, w)[Len(e) + 1] = w
       /\ \A k \in 1..Len(e) : Append(e, w)[k] = e[k]
  OBVIOUS
<1>18. Made' = Made
  BY <1>11 DEF Made
<1>19. Types'
  <2>1. table' \in [Methods -> Seq(Route)]
    BY <1>11, <1>12, <1>13, <1>16
  <2>2. expect' \in [Methods -> Seq(Seq(Nat))]
    BY <1>11, <1>12, <1>14, <1>17
  <2> QED
    BY <1>8, <1>11, <1>18, <2>1, <2>2 DEF IInv, Types
<1>20. /\ 1 \in DOMAIN heap' /\ Len(heap'[1]) = 0
       /\ \A q \in Made : AllInHeap(heap', router[q]) /\ ElemsIn(heap', router[q].use) = mws[q]
       /\ ErrorChains(heap', router[Root], mws[Root], own[Root])
       /\ \A i \in Methods : \A k \in DOMAIN table[i] :
            ChainHolds(heap', table[i][k].chain, expect[i][k])
  BY <1>8, <1>11, NothingWritten
<1>21. ASSUME NEW i \in Methods, NEW k \in DOMAIN table'[i]
       PROVE  \/ /\ k \in DOMAIN table[i]
                 /\ table'[i][k] = table[i][k] /\ expect'[i][k] = expect[i][k]
              \/ table'[i][k] = c /\ expect'[i][k] = w
  <2>1. CASE i # m
    BY <1>15, <1>21, <2>1
  <2>2. CASE i = m
    <3>1. Len(e) = Len(t)
      BY <1>12, <1>13, <1>14
    <3>2. k \in DOMAIN t \/ k = Len(t) + 1
      BY <1>15, <1>16, <1>21, <2>2
    <3>3. CASE k \in DOMAIN t
      BY <1>13, <1>14, <1>15, <1>16, <1>17, <2>2, <3>1, <3>3
    <3>4. CASE k = Len(t) + 1
      BY <1>15, <1>16, <1>17, <2>2, <3>1, <3>4
    <3> QED
      BY <3>2, <3>3, <3>4
  <2> QED
    BY <2>1, <2>2
<1>22. Apart'
  <2>1. ASSUME NEW q \in Made PROVE router[q].use.arr # c.chain.arr
    <3>1. Len(heap) \in Nat /\ DOMAIN heap = 1..Len(heap)
      BY <1>1 DEF Arrays
    <3>2. router[q].use.arr \in 1..Len(heap)
      BY <3>1 DEF IInv, Holds, AllInHeap, InHeap
    <3> QED
      BY <1>8, <1>10, <3>1, <3>2
  <2>2. ASSUME NEW q \in Made, NEW i \in Methods, NEW k \in DOMAIN table'[i]
        PROVE  router[q].use.arr = 1 \/ router[q].use.arr # table'[i][k].chain.arr
    BY <1>21, <2>1 DEF IInv, Apart
  <2> QED
    BY SMTT(30), <1>11, <1>18, <1>20, <2>2 DEF IInv, Apart
<1>23. Holds'
  <2>1. ChainHolds(heap', c.chain, w)
    BY <1>3, <1>4, <1>8, <1>10, <1>11 DEF ChainHolds
  <2>2. ASSUME NEW i \in Methods, NEW k \in DOMAIN table'[i]
        PROVE  ChainHolds(heap', table'[i][k].chain, expect'[i][k])
    BY <1>20, <1>21, <2>1
  <2>3. \A i \in Methods : Len(expect'[i]) = Len(table'[i])
    BY <1>12, <1>13, <1>14, <1>15, <1>16, <1>17
  <2> QED
    BY <1>11, <1>18, <1>20, <2>2, <2>3 DEF Holds
<1> QED
  BY <1>19, <1>22, <1>23 DEF IInv

-----------------------------------------------------------------------------
(* The theorems.                                                           *)

LEMMA InitInv == Init => IInv
<1> SUFFICES ASSUME Init PROVE IInv
  OBVIOUS
<1>1. heap = << << >> >> /\ heap \in Arrays /\ DOMAIN heap = {1} /\ heap[1] = << >>
  BY DEF Init, Arrays
<1>2. Made = {Root} /\ router[Root] = newRouter(<< >>, Nil)
  BY DEF Init, Made
<1>3. /\ Nil \in Slice /\ Nil.arr = 1 /\ Nil.len = 0
      /\ router[Root] \in Routers
      /\ router[Root].use = Nil /\ router[Root].notFound = Nil /\ router[Root].noMethod = Nil
      /\ router[Root].allNotFound = Nil /\ router[Root].allNoMethod = Nil
  BY <1>2 DEF newRouter, Nil, Slice, Routers
<1>4. /\ mws = [r \in {Root} |-> << >>] /\ expect = [m \in Methods |-> << >>]
      /\ own = [r \in {Root} |-> [notFound |-> << >>, noMethod |-> << >>]]
      /\ table = [m \in Methods |-> << >>] /\ calls \in 0..MaxCalls
  BY CallsAssumption DEF Init
<1>5. Types
  <2>1. router \in [Made -> Routers]
    BY <1>2, <1>3 DEF Init
  <2>2. mws \in [Made -> Seq(Nat)] /\ own \in [Made -> Given]
    BY <1>2, <1>4 DEF Given
  <2>3. table \in [Methods -> Seq(Route)] /\ expect \in [Methods -> Seq(Seq(Nat))]
    BY <1>4
  <2> QED
    BY <1>1, <1>2, <1>4, <2>1, <2>2, <2>3 DEF Types
<1>6. Apart
  BY <1>1, <1>2, <1>3, <1>4 DEF Apart, ApartFrom
<1>7. InHeap(heap, Nil) /\ ElemsIn(heap, Nil) = << >>
  BY <1>1, <1>3 DEF InHeap, ElemsIn
<1>8. Holds
  <2>1. << >> \o << >> = << >> /\ Starts(<< >>, << >>) /\ Ends(<< >>, << >>)
    <3>1. << >> \in Seq(Nat) /\ << >> \o << >> = << >>
      BY ConcatEmptySeq
    <3>2. PICK z \in Seq(Nat) : z = << >>
      BY <3>1
    <3>3. z \o z = z /\ Starts(z, z \o z) /\ Ends(z, z)
      BY <3>1, <3>2, StartsConcat, EndsSelf
    <3> QED
      BY <3>2, <3>3
  <2>2. ErrorChains(heap, router[Root], mws[Root], own[Root])
    BY <1>3, <1>4, <1>7, <2>1 DEF ErrorChains
  <2> QED
    BY <1>2, <1>3, <1>4, <1>7, <2>2 DEF Holds, AllInHeap
<1> QED
  BY <1>5, <1>6, <1>8 DEF IInv

LEMMA NextInv == IInv /\ [Next]_vars => IInv'
<1> SUFFICES ASSUME IInv, [Next]_vars PROVE IInv'
  OBVIOUS
<1>1. CASE UNCHANGED vars
  <2>1. /\ heap' = heap /\ router' = router /\ table' = table /\ calls' = calls
        /\ mws' = mws /\ own' = own /\ expect' = expect /\ Made' = Made
    BY <1>1 DEF vars, Made
  <2>2. Types'
    BY <2>1 DEF IInv, Types
  <2>3. Apart'
    BY <2>1 DEF IInv, Apart
  <2>4. Holds'
    BY <2>1 DEF IInv, Holds
  <2> QED
    BY <2>2, <2>3, <2>4 DEF IInv
<1>2. CASE Terminated
  BY <1>1, <1>2 DEF Terminated
<1>3. ASSUME NEW r \in Made, NEW n \in 1..2, Use(r, n) PROVE IInv'
  BY <1>3, UseKeeps
<1>4. ASSUME NEW r \in Made, NEW g \in GroupNames, NEW n \in 0..1, Group(r, g, n)
      PROVE  IInv'
  BY <1>4, GroupKeeps
<1>5. ASSUME NEW r \in Made, NEW m \in Methods, NEW p \in Paths, Handler(r, m, p)
      PROVE  IInv'
  BY <1>5, HandlerKeeps
<1>6. ASSUME NEW r \in Made, NotFound(r) PROVE IInv'
  BY <1>6, NotFoundKeeps
<1>7. ASSUME NEW r \in Made, NoMethod(r) PROVE IInv'
  BY <1>7, NoMethodKeeps
<1> QED
  BY <1>1, <1>2, <1>3, <1>4, <1>5, <1>6, <1>7 DEF Next

\* Whatever is registered on whichever router, in any order and any number of
\* times, no slice that grows shares an array with another slice, and every
\* slice holds what the calls gave to it. (router.go:154-180, 210-266)
THEOREM RoutesInvariant == Spec => []IInv
<1> QED
  BY InitInv, NextInv, PTL DEF Spec

\* Every slice lies within its array, and a route has one path and one chain.
\* (router.go:47-71)
THEOREM RoutesTypes == Spec => []TypeOK
<1>1. IInv => TypeOK
  <2> SUFFICES ASSUME IInv PROVE TypeOK
    OBVIOUS
  <2>1. /\ heap \in Seq(Seq(Nat)) /\ Root \in Made /\ Made \subseteq {Root} \cup GroupNames
        /\ DOMAIN table = Methods /\ calls \in 0..MaxCalls
    BY DEF IInv, Types, Arrays
  <2>2. ASSUME NEW r \in Made,
               NEW s \in { router[r].use, router[r].notFound, router[r].noMethod,
                           router[r].allNotFound, router[r].allNoMethod }
        PROVE  s \in Slice /\ s.arr \in DOMAIN heap /\ s.len <= Len(heap[s.arr])
    BY DEF IInv, Types, Routers, Holds, AllInHeap, InHeap
  <2>3. ASSUME NEW m \in Methods, NEW k \in DOMAIN table[m]
        PROVE  /\ table[m][k].path \in Path
               /\ table[m][k].chain \in Slice /\ table[m][k].chain.arr \in DOMAIN heap
               /\ Elems(table[m][k].chain) # << >>
    <3>1. table[m] \in Seq(Route)
      BY DEF IInv, Types
    <3>2. table[m][k] \in Route
      BY <3>1
    <3>3. ChainHolds(heap, table[m][k].chain, expect[m][k])
      BY DEF IInv, Holds
    <3> QED
      BY <3>2, <3>3 DEF Route, ChainHolds, InHeap, Elems
  <2> QED
    BY <2>1, <2>2, <2>3 DEF TypeOK, Path
<1> QED
  BY <1>1, RoutesInvariant, PTL

\* A route keeps the chain it was registered with, however much is appended to
\* the lists of its router and of the groups. (router.go:154-180, 216-227, 260-266)
THEOREM ChainsStayIntact == Spec => []ChainsIntact
<1>1. IInv => ChainsIntact
  BY DEF IInv, Holds, ChainHolds, ChainsIntact, Elems
<1> QED
  BY <1>1, RoutesInvariant, PTL

\* The list of a router is its parents' as it was when the router was made, and
\* then its own. (router.go:210-227)
THEOREM MiddlewareKept == Spec => []MiddlewareOfRouter
<1>1. IInv => MiddlewareOfRouter
  BY DEF IInv, Holds, MiddlewareOfRouter, Elems
<1> QED
  BY <1>1, RoutesInvariant, PTL

\* In whatever order Use, NotFound and NoMethod come, the chains of 404 and 405
\* have all the middleware first and the latest handlers last.
\* (router.go:210-214, 240-258)
THEOREM ErrorChainsFollow == Spec => []ErrorChainsCurrent
<1>1. IInv => ErrorChainsCurrent
  BY DEF IInv, Holds, ErrorChains, ErrorChainsCurrent, Elems
<1> QED
  BY <1>1, RoutesInvariant, PTL


-----------------------------------------------------------------------------
(* The loop of Match.                                                      *)

PathList == Seq(Path)

Best == [index: Nat, max: Nat]

\* The place k is looked at by Match, and matches.
Hit(paths, nodes, u, k) == k \in nodes /\ Matched(paths[k].segs, u) # {}

BestAfter(paths, nodes, u, best, k) ==
  IF Hit(paths, nodes, u, k) THEN Better(paths, u, best, k) ELSE best

\* A path has a number of parameters.
LEMMA GroupsType ==
  ASSUME NEW p \in Seq(DOMAIN Width)
  PROVE  Cardinality(ParamsOf(p)) \in Nat
<1>1. IsFiniteSet(1..Len(p)) /\ ParamsOf(p) \in SUBSET (1..Len(p))
  BY FS_Interval DEF ParamsOf
<1> QED
  BY <1>1, FS_Subset, FS_CardinalityType

\* A turn of the loop leaves a place and a number of parameters.
LEMMA TurnType ==
  ASSUME NEW paths \in PathList, NEW nodes, NEW u, NEW best \in Best, NEW k \in 1..Len(paths)
  PROVE  BestAfter(paths, nodes, u, best, k) \in Best
<1>1. paths[k].segs \in Seq(DOMAIN Width)
  <2>1. paths[k] \in Path
    BY DEF PathList
  <2> QED
    BY <2>1 DEF Path
<1>2. Cardinality(ParamsOf(paths[k].segs)) \in Nat
  BY <1>1, GroupsType
<1>3. Preferred(paths, best, k) \in Best
  BY <1>2 DEF Preferred, Best
<1> QED
  BY <1>3 DEF BestAfter, Better, Best

\* What the recursive definition of the loop computes, turn by turn.
LEMMA BestsLoop ==
  ASSUME NEW paths \in PathList, NEW nodes, NEW u
  PROVE  /\ Bests(paths, nodes, u) \in [0..Len(paths) -> Best]
         /\ Bests(paths, nodes, u)[0] = NoLocation
         /\ \A k \in 1..Len(paths) :
              Bests(paths, nodes, u)[k] =
                BestAfter(paths, nodes, u, Bests(paths, nodes, u)[k - 1], k)
<1> DEFINE n == Len(paths)
           turn == [k \in 1..n |-> [b \in Best |-> BestAfter(paths, nodes, u, b, k)]]
<1>1. n \in Nat
  BY DEF PathList
<1>2. turn \in [1..n -> [Best -> Best]]
  BY TurnType
<1>3. NoLocation \in Best
  BY DEF NoLocation, Best
<1>4. PICK f \in [0..n -> Best] : Runs(f, n, NoLocation, turn)
  <2> HIDE DEF n, turn
  <2> QED
    BY <1>1, <1>2, <1>3, LoopRuns
<1>5. ASSUME NEW k \in 1..n PROVE f[k] = BestAfter(paths, nodes, u, f[k - 1], k)
  <2>1. k - 1 \in 0..n
    BY <1>1
  <2>2. f[k - 1] \in Best
    BY <2>1
  <2>3. f[k] = turn[k][f[k - 1]]
    BY <1>4 DEF Runs
  <2> QED
    BY <2>2, <2>3
<1>6. f[0] = NoLocation
  BY <1>4 DEF Runs
<1> DEFINE Asked(g) ==
      g = [k \in 0..n |-> IF k = 0 THEN NoLocation
                          ELSE IF k \in nodes /\ Matched(paths[k].segs, u) # {}
                               THEN Better(paths, u, g[k - 1], k)
                          ELSE g[k - 1]]
<1>7. Asked(f)
  <2>1. ASSUME NEW k \in 0..n
        PROVE  f[k] = IF k = 0 THEN NoLocation
                      ELSE IF k \in nodes /\ Matched(paths[k].segs, u) # {}
                           THEN Better(paths, u, f[k - 1], k)
                      ELSE f[k - 1]
    <3>1. CASE k = 0
      BY <1>6, <3>1
    <3>2. CASE k # 0
      <4>1. k \in 1..n
        BY <1>1, <3>2
      <4> QED
        BY <1>5, <3>2, <4>1 DEF BestAfter, Hit
    <3> QED
      BY <3>1, <3>2
  <2> QED
    BY <2>1
<1>8. Asked(Bests(paths, nodes, u))
  BY <1>7, Zenon DEF Bests
<1> PICK b : b = Bests(paths, nodes, u)
  OBVIOUS
<1>9. /\ b[0] = NoLocation
      /\ \A k \in 1..n : b[k] = BestAfter(paths, nodes, u, b[k - 1], k)
  <2>1. \A k \in 1..n : k \in 0..n /\ k # 0
    BY <1>1
  <2>2. 0 \in 0..n
    BY <1>1
  <2> QED
    BY <1>8, <2>1, <2>2 DEF BestAfter, Hit
<1> DEFINE T == {k \in Nat : k <= n => b[k] \in Best}
<1>10. T = Nat
  <2>1. 0 \in T
    BY <1>3, <1>9
  <2>2. ASSUME NEW k \in T PROVE k + 1 \in T
    <3> SUFFICES ASSUME k + 1 <= n PROVE b[k + 1] \in Best
      OBVIOUS
    <3>1. k + 1 \in 1..n /\ (k + 1) - 1 = k /\ b[k] \in Best
      BY <1>1
    <3>2. b[k + 1] = BestAfter(paths, nodes, u, b[k], k + 1)
      BY <1>9, <3>1
    <3> QED
      BY <3>1, <3>2, TurnType
  <2>3. T \in SUBSET Nat
    OBVIOUS
  <2> HIDE DEF T
  <2> QED
    BY <2>1, <2>2, <2>3, NatSets
<1>11. b \in [0..n -> Best]
  <2>1. \A k \in 0..n : b[k] \in Best
    BY <1>1, <1>10
  <2>2. DOMAIN b = 0..n /\ b = [k \in 0..n |-> b[k]]
    BY <1>8
  <2> QED
    BY <2>1, <2>2
<1> QED
  BY <1>9, <1>11


\* What the loop has seen so far it has, if it matches, something for, and what
\* it has matches.
BestMatches(paths, nodes, u, best, k) ==
  IF best.index = 0 THEN \A j \in 1..k : ~Hit(paths, nodes, u, j)
  ELSE best.index \in 1..k /\ Hit(paths, nodes, u, best.index)

LEMMA MatchSound ==
  ASSUME NEW paths \in PathList, NEW nodes, NEW u
  PROVE  /\ Match(paths, nodes, u) \in Nat
         /\ BestMatches(paths, nodes, u, [index |-> Match(paths, nodes, u)], Len(paths))
<1> PICK b : b = Bests(paths, nodes, u)
  OBVIOUS
<1> PICK n \in Nat : n = Len(paths)
  BY DEF PathList
<1>1. /\ b \in [0..n -> Best] /\ b[0] = NoLocation
      /\ \A k \in 1..n : b[k] = BestAfter(paths, nodes, u, b[k - 1], k)
  BY BestsLoop
<1> DEFINE T == {k \in Nat : k <= n => BestMatches(paths, nodes, u, b[k], k)}
<1>2. 0 \in T
  BY <1>1 DEF NoLocation, BestMatches
<1>3. ASSUME NEW k \in T PROVE k + 1 \in T
  <2> SUFFICES ASSUME k + 1 <= n PROVE BestMatches(paths, nodes, u, b[k + 1], k + 1)
    OBVIOUS
  <2>1. k \in Nat /\ k + 1 \in 1..n /\ (k + 1) - 1 = k /\ k \in 0..n /\ k + 1 \in 1..k + 1
    OBVIOUS
  <2>2. BestMatches(paths, nodes, u, b[k], k)
    OBVIOUS
  <2>3. b[k + 1] = BestAfter(paths, nodes, u, b[k], k + 1) /\ b[k] \in Best
    BY <1>1, <2>1
  <2>4. \A j : j \in 1..k + 1 <=> j \in 1..k \/ j = k + 1
    BY <2>1
  <2> HIDE DEF T
  <2>5. CASE ~Hit(paths, nodes, u, k + 1)
    <3>1. b[k + 1] = b[k]
      BY <2>3, <2>5 DEF BestAfter
    <3> QED
      BY <2>2, <2>4, <2>5, <3>1 DEF BestMatches
  <2>6. CASE Hit(paths, nodes, u, k + 1)
    <3>1. b[k + 1] = Better(paths, u, b[k], k + 1)
      BY <2>3, <2>6 DEF BestAfter
    <3>2. b[k + 1].index = k + 1 \/ (b[k + 1].index = b[k].index /\ b[k].index # 0)
      BY <2>3, <3>1 DEF Better, Preferred, Best
    <3>3. CASE b[k + 1].index = k + 1
      <4>1. b[k + 1].index \in 1..k + 1 /\ b[k + 1].index # 0
        BY <2>1, <3>3
      <4> QED
        BY <2>6, <3>3, <4>1 DEF BestMatches
    <3>4. CASE b[k + 1].index = b[k].index /\ b[k].index # 0
      BY <2>2, <2>4, <3>4 DEF BestMatches
    <3> QED
      BY <3>2, <3>3, <3>4
  <2> QED
    BY <2>5, <2>6
<1>4. n \in T
  <2>1. T \in SUBSET Nat
    OBVIOUS
  <2> HIDE DEF T
  <2> QED
    BY <1>2, <1>3, <2>1, NatSets
<1>5. Match(paths, nodes, u) = b[n].index
  BY DEF Match
<1>6. b[n] \in Best
  BY <1>1
<1> QED
  BY <1>4, <1>5, <1>6 DEF Best, BestMatches

\* matchURL takes "= " paths before "~ " paths and these before the rest.
LEMMA MatchURLCases ==
  ASSUME NEW paths \in PathList, NEW u
  PROVE  LET full   == {j \in DOMAIN paths : paths[j].flag = "full" /\ EqualFold(paths[j].segs, u)}
             prefix == Match(paths, locationRegex(paths, "prefix"), u)
         IN  /\ full # {} => matchURL(paths, u) \in full
             /\ full = {} /\ prefix # 0 => matchURL(paths, u) = prefix
             /\ full = {} /\ prefix = 0 =>
                  matchURL(paths, u) = Match(paths, locationRegex(paths, "plain"), u)
<1> DEFINE full   == {j \in DOMAIN paths : paths[j].flag = "full" /\ EqualFold(paths[j].segs, u)}
           prefix == Match(paths, locationRegex(paths, "prefix"), u)
<1>1. full \in SUBSET Nat
  BY DEF PathList
<1>2. matchURL(paths, u) =
        IF full # {} THEN CHOOSE k \in full : \A m \in full : k <= m
        ELSE IF prefix # 0 THEN prefix
        ELSE Match(paths, locationRegex(paths, "plain"), u)
  BY DEF matchURL
<1> HIDE DEF full, prefix
<1>3. ASSUME full # {} PROVE matchURL(paths, u) \in full
  <2>1. \E k \in full : \A m \in full : k <= m
    BY <1>1, <1>3, LeastMember
  <2>2. (CHOOSE k \in full : \A m \in full : k <= m) \in full
    BY <2>1, Zenon
  <2> QED
    BY <1>2, <1>3, <2>2
<1>4. full = {} /\ prefix # 0 => matchURL(paths, u) = prefix
  BY <1>2
<1>5. full = {} /\ prefix = 0 =>
        matchURL(paths, u) = Match(paths, locationRegex(paths, "plain"), u)
  BY <1>2
<1> QED
  BY <1>3, <1>4, <1>5 DEF full, prefix

\* The paths of a method are a list.
LEMMA PathsOfType ==
  ASSUME IInv, NEW m \in Methods
  PROVE  PathsOf(m) \in PathList /\ DOMAIN PathsOf(m) = DOMAIN table[m]
<1>1. table[m] \in Seq(Route)
  BY DEF IInv, Types
<1>2. ASSUME NEW k \in DOMAIN table[m] PROVE table[m][k].path \in Path
  <2>1. table[m][k] \in Route
    BY <1>1
  <2> QED
    BY <2>1 DEF Route
<1>3. PICK n \in Nat : DOMAIN table[m] = 1..n
  BY <1>1
<1>4. PathsOf(m) = [k \in 1..n |-> table[m][k].path]
  BY <1>3 DEF PathsOf
<1>5. PathsOf(m) \in [1..n -> Path]
  BY <1>2, <1>3, <1>4
<1> QED
  BY <1>3, <1>5 DEF PathList


\* What the route of a URL is: in which list it was found, and what was not.
LEMMA MatchURLSound ==
  ASSUME NEW paths \in PathList, NEW u, NEW k, k = matchURL(paths, u)
  PROVE  /\ k \in Nat
         /\ k = 0 =>
              /\ \A j \in DOMAIN paths : paths[j].flag = "full" => ~EqualFold(paths[j].segs, u)
              /\ \A j \in DOMAIN paths : paths[j].flag # "full" => Matched(paths[j].segs, u) = {}
         /\ k # 0 =>
              /\ k \in DOMAIN paths
              /\ \/ paths[k].flag = "full" /\ EqualFold(paths[k].segs, u)
                 \/ /\ paths[k].flag = "prefix" /\ Matched(paths[k].segs, u) # {}
                    /\ \A j \in DOMAIN paths :
                         paths[j].flag = "full" => ~EqualFold(paths[j].segs, u)
                 \/ /\ paths[k].flag = "plain" /\ Matched(paths[k].segs, u) # {}
                    /\ k = Match(paths, locationRegex(paths, "plain"), u)
                    /\ \A j \in DOMAIN paths :
                         /\ paths[j].flag = "full" => ~EqualFold(paths[j].segs, u)
                         /\ paths[j].flag = "prefix" => Matched(paths[j].segs, u) = {}
<1> DEFINE full   == {j \in DOMAIN paths : paths[j].flag = "full" /\ EqualFold(paths[j].segs, u)}
           prefix == Match(paths, locationRegex(paths, "prefix"), u)
           plain  == Match(paths, locationRegex(paths, "plain"), u)
<1>1. /\ full # {} => k \in full
      /\ full = {} /\ prefix # 0 => k = prefix
      /\ full = {} /\ prefix = 0 => k = plain
  BY MatchURLCases
<1>2. PICK n \in Nat : n = Len(paths) /\ DOMAIN paths = 1..n
  BY DEF PathList
<1>3. \A j \in DOMAIN paths : paths[j].flag \in {"full", "prefix", "plain"}
  <2> SUFFICES ASSUME NEW j \in DOMAIN paths PROVE paths[j].flag \in {"full", "prefix", "plain"}
    OBVIOUS
  <2>1. paths[j] \in Path
    BY DEF PathList
  <2> QED
    BY <2>1 DEF Path
<1>4. /\ prefix = 0 => \A j \in DOMAIN paths :
                         paths[j].flag = "prefix" => Matched(paths[j].segs, u) = {}
      /\ prefix # 0 => /\ prefix \in DOMAIN paths /\ paths[prefix].flag = "prefix"
                       /\ Matched(paths[prefix].segs, u) # {}
  <2>1. BestMatches(paths, locationRegex(paths, "prefix"), u, [index |-> prefix], n)
    BY <1>2, MatchSound
  <2> HIDE DEF prefix
  <2> QED
    BY <2>1, <1>2 DEF BestMatches, Hit, locationRegex
<1>5. /\ plain \in Nat
      /\ plain = 0 => \A j \in DOMAIN paths :
                        paths[j].flag = "plain" => Matched(paths[j].segs, u) = {}
      /\ plain # 0 => /\ plain \in DOMAIN paths /\ paths[plain].flag = "plain"
                      /\ Matched(paths[plain].segs, u) # {}
  <2>1. plain \in Nat /\ BestMatches(paths, locationRegex(paths, "plain"), u, [index |-> plain], n)
    BY <1>2, MatchSound
  <2> HIDE DEF plain
  <2> QED
    BY <2>1, <1>2 DEF BestMatches, Hit, locationRegex
<1> HIDE DEF prefix
<1>6. CASE full # {}
  <2>1. k \in DOMAIN paths /\ paths[k].flag = "full" /\ EqualFold(paths[k].segs, u)
    BY <1>1, <1>6
  <2>2. k \in Nat /\ k # 0
    BY <2>1, <1>2
  <2> QED
    BY <2>1, <2>2
<1>7. CASE full = {}
  <2>1. \A j \in DOMAIN paths : paths[j].flag = "full" => ~EqualFold(paths[j].segs, u)
    BY <1>7
  <2>2. CASE prefix # 0
    <3>1. k = prefix /\ k # 0 /\ k \in DOMAIN paths /\ paths[k].flag = "prefix"
          /\ Matched(paths[k].segs, u) # {}
      BY <1>1, <1>4, <1>7, <2>2
    <3>2. k \in Nat
      BY <3>1, <1>2
    <3> HIDE DEF full
    <3> QED
      BY <2>1, <3>1, <3>2
  <2>3. CASE prefix = 0
    <3>1. k = plain
      BY <1>1, <1>7, <2>3
    <3> HIDE DEF full
    <3> QED
      BY <1>3, <1>4, <1>5, <2>1, <2>3, <3>1
  <2> QED
    BY <2>2, <2>3
<1> QED
  BY <1>6, <1>7

\* The route of a URL matches it, there is one if any registered path matches,
\* and the kinds of path have their order, for any paths and any URL.
\* (tree.go:66-97, 181-185, 203-219)
THEOREM RouteFound == Spec => []Found
<1>1. IInv => Found
  <2> SUFFICES ASSUME IInv, NEW m \in Methods, NEW u \in URLs,
                      NEW paths, paths = PathsOf(m), NEW k, k = matchURL(paths, u)
               PROVE  LET fits(j) == IF paths[j].flag = "full" THEN EqualFold(paths[j].segs, u)
                                     ELSE Matched(paths[j].segs, u) # {}
                          rank(j) == CASE paths[j].flag = "full"   -> 1
                                       [] paths[j].flag = "prefix" -> 2
                                       [] OTHER                    -> 3
                      IN  IF k = 0 THEN \A j \in DOMAIN paths : ~fits(j)
                          ELSE fits(k) /\ \A j \in DOMAIN paths : fits(j) => rank(k) <= rank(j)
    BY DEF Found
  <2>1. paths \in PathList
    BY PathsOfType
  <2>2. k = 0 \/ k # 0
    OBVIOUS
  <2>3. CASE k = 0
    BY <2>1, <2>3, MatchURLSound
  <2>4. CASE k # 0
    <3>1. /\ k \in DOMAIN paths
          /\ \/ paths[k].flag = "full" /\ EqualFold(paths[k].segs, u)
             \/ /\ paths[k].flag = "prefix" /\ Matched(paths[k].segs, u) # {}
                /\ \A j \in DOMAIN paths :
                     paths[j].flag = "full" => ~EqualFold(paths[j].segs, u)
             \/ /\ paths[k].flag = "plain" /\ Matched(paths[k].segs, u) # {}
                /\ \A j \in DOMAIN paths :
                     /\ paths[j].flag = "full" => ~EqualFold(paths[j].segs, u)
                     /\ paths[j].flag = "prefix" => Matched(paths[j].segs, u) = {}
      BY <2>1, <2>4, MatchURLSound
    <3>2. CASE paths[k].flag = "full"
      BY <2>4, <3>1, <3>2
    <3>3. CASE paths[k].flag = "prefix"
      BY <2>4, <3>1, <3>3
    <3>4. CASE paths[k].flag = "plain"
      BY <2>4, <3>1, <3>4
    <3> QED
      BY <3>1, <3>2, <3>3, <3>4
  <2> QED
    BY <2>3, <2>4
<1> QED
  BY <1>1, RoutesInvariant, PTL


-----------------------------------------------------------------------------
(* The length of a path.                                                   *)

\* The sum of numbers is a number.
LEMMA SumType ==
  ASSUME NEW s \in Seq(Nat)
  PROVE  Sum(s) \in Nat
<1>1. PICK t : AreSums(t, s)
  BY SumsExist
<1>2. AreSums(Sums(s), s)
  BY <1>1, Zenon DEF AreSums, Sums
<1>3. Sums(s) \in [0..Len(s) -> Nat] /\ Len(s) \in 0..Len(s)
  BY <1>2, SumsGrow
<1> QED
  BY <1>3 DEF Sum

\* A path has a number of characters.
LEMMA CharactersType ==
  ASSUME NEW p \in Seq(DOMAIN Width)
  PROVE  Characters(p) \in Nat
<1>1. [k \in DOMAIN p |-> Width[p[k]]] \in Seq(Nat)
  <2>1. PICK n \in Nat : n = Len(p) /\ DOMAIN p = 1..n
    OBVIOUS
  <2>2. \A k \in 1..n : Width[p[k]] \in Nat
    BY <2>1, WidthAssumption
  <2>3. [k \in DOMAIN p |-> Width[p[k]]] \in [1..n -> Nat]
    BY <2>1, <2>2
  <2> QED
    BY <2>3
<1> HIDE DEF Sum
<1>2. Sum([k \in DOMAIN p |-> Width[p[k]]]) \in Nat
  BY <1>1, SumType
<1> QED
  BY <1>2 DEF Characters

\* k is the longest so far of the locations without a parameter that match, and
\* of those the first one.
BestIsLongest(paths, nodes, u, best, k) ==
  /\ best.max = 0
  /\ best.index # 0 => best.index \in 1..k
  /\ \A j \in 1..k : Hit(paths, nodes, u, j) =>
       /\ best.index # 0
       /\ \/ Characters(paths[j].segs) < Characters(paths[best.index].segs)
          \/ /\ Characters(paths[j].segs) = Characters(paths[best.index].segs)
             /\ best.index <= j

LEMMA MatchLongest ==
  ASSUME NEW paths \in PathList, NEW nodes, NEW u,
         \A j \in 1..Len(paths) : Hit(paths, nodes, u, j) => ParamsOf(paths[j].segs) = {}
  PROVE  \A j \in 1..Len(paths) : Hit(paths, nodes, u, j) =>
           LET k == Match(paths, nodes, u)
           IN  \/ Characters(paths[j].segs) < Characters(paths[k].segs)
               \/ Characters(paths[j].segs) = Characters(paths[k].segs) /\ k <= j
<1> PICK b : b = Bests(paths, nodes, u)
  OBVIOUS
<1> PICK n \in Nat : n = Len(paths)
  BY DEF PathList
<1>1. /\ b \in [0..n -> Best] /\ b[0] = NoLocation
      /\ \A k \in 1..n : b[k] = BestAfter(paths, nodes, u, b[k - 1], k)
  BY BestsLoop
<1>2. ASSUME NEW k \in 1..n PROVE Characters(paths[k].segs) \in Nat
  <2>1. paths[k] \in Path
    BY DEF PathList
  <2> QED
    BY <2>1, CharactersType DEF Path
<1> DEFINE T == {k \in Nat : k <= n => BestIsLongest(paths, nodes, u, b[k], k)}
<1>3. 0 \in T
  BY <1>1 DEF NoLocation, BestIsLongest
<1>4. ASSUME NEW k \in T PROVE k + 1 \in T
  <2> SUFFICES ASSUME k + 1 <= n PROVE BestIsLongest(paths, nodes, u, b[k + 1], k + 1)
    OBVIOUS
  <2>1. k \in Nat /\ k + 1 \in 1..n /\ (k + 1) - 1 = k /\ k \in 0..n /\ k + 1 \in 1..k + 1
    OBVIOUS
  <2>2. BestIsLongest(paths, nodes, u, b[k], k)
    OBVIOUS
  <2>3. b[k + 1] = BestAfter(paths, nodes, u, b[k], k + 1) /\ b[k] \in Best
    BY <1>1, <2>1
  <2>4. \A j : j \in 1..k + 1 <=> j \in 1..k \/ j = k + 1
    BY <2>1
  <2>5. \A j \in 1..k + 1 : Characters(paths[j].segs) \in Nat /\ j <= k + 1
    BY <1>2, <2>1
  <2>6. \A j \in 1..k : j < k + 1
    BY <2>1
  <2> HIDE DEF T
  <2>7. CASE ~Hit(paths, nodes, u, k + 1)
    <3>1. b[k + 1] = b[k]
      BY <2>3, <2>7 DEF BestAfter
    <3> QED
      BY <2>2, <2>4, <2>7, <3>1 DEF BestIsLongest
  <2>8. CASE Hit(paths, nodes, u, k + 1) /\ b[k].index = 0
    <3>1. b[k + 1] = [index |-> k + 1, max |-> 0]
      BY <2>3, <2>8 DEF BestAfter, Better
    <3>2. \A j \in 1..k : ~Hit(paths, nodes, u, j)
      BY <2>2, <2>8 DEF BestIsLongest
    <3>3. b[k + 1].max = 0 /\ b[k + 1].index = k + 1 /\ k + 1 # 0
      BY <3>1, <2>1
    <3> QED
      BY <2>1, <2>4, <2>5, <3>2, <3>3 DEF BestIsLongest
  <2>9. CASE Hit(paths, nodes, u, k + 1) /\ b[k].index # 0
    <3>1. ParamsOf(paths[k + 1].segs) = {}
      BY <2>1, <2>9
    <3>2. LastNonEmpty(paths[k + 1].segs, u) /\ Cardinality(ParamsOf(paths[k + 1].segs)) = 0
      BY <3>1, FS_EmptySet DEF LastNonEmpty
    <3>3. b[k].max = 0 /\ b[k].index \in 1..k
      BY <2>2, <2>9 DEF BestIsLongest
    <3>4. b[k + 1] = IF Longer(paths, k + 1, b[k].index) THEN [b[k] EXCEPT !.index = k + 1]
                     ELSE b[k]
      BY <2>3, <2>9, <3>2, <3>3 DEF BestAfter, Better, Preferred
    <3>5. /\ Characters(paths[k + 1].segs) \in Nat
          /\ Characters(paths[b[k].index].segs) \in Nat
          /\ b[k].index \in Nat /\ b[k].index < k + 1
      BY <2>5, <3>3, <2>6, <2>1
    <3>6. CASE Longer(paths, k + 1, b[k].index)
      <4>1. b[k + 1].index = k + 1 /\ b[k + 1].max = 0
        BY <2>3, <3>3, <3>4, <3>6 DEF Best
      <4>2. Characters(paths[k + 1].segs) > Characters(paths[b[k].index].segs)
        BY <3>6 DEF Longer
      <4>3. ASSUME NEW j \in 1..k, Hit(paths, nodes, u, j)
            PROVE  Characters(paths[j].segs) < Characters(paths[k + 1].segs)
        <5>1. \/ Characters(paths[j].segs) < Characters(paths[b[k].index].segs)
              \/ Characters(paths[j].segs) = Characters(paths[b[k].index].segs)
          BY <2>2, <4>3 DEF BestIsLongest
        <5>2. Characters(paths[j].segs) \in Nat
          BY <2>4, <2>5
        <5> QED
          BY <5>1, <5>2, <4>2, <3>5
      <4> QED
        BY <2>1, <2>4, <4>1, <4>3 DEF BestIsLongest
    <3>7. CASE ~Longer(paths, k + 1, b[k].index)
      <4>1. b[k + 1] = b[k]
        BY <3>4, <3>7
      <4>2. Characters(paths[k + 1].segs) <= Characters(paths[b[k].index].segs)
        BY <3>5, <3>7 DEF Longer
      <4>3. \/ Characters(paths[k + 1].segs) < Characters(paths[b[k].index].segs)
            \/ /\ Characters(paths[k + 1].segs) = Characters(paths[b[k].index].segs)
               /\ b[k].index <= k + 1
        BY <2>1, <3>5, <4>2
      <4>4. b[k].index \in 1..k + 1
        BY <3>3, <2>4
      <4> QED
        BY <2>2, <2>4, <2>9, <4>1, <4>3, <4>4 DEF BestIsLongest
    <3> QED
      BY <3>6, <3>7
  <2> QED
    BY <2>7, <2>8, <2>9
<1>5. n \in T
  <2>1. T \in SUBSET Nat
    OBVIOUS
  <2> HIDE DEF T
  <2> QED
    BY <1>3, <1>4, <2>1, NatSets
<1>6. Match(paths, nodes, u) = b[n].index
  BY DEF Match
<1> QED
  BY <1>5, <1>6 DEF BestIsLongest

\* Where no parameter is involved the longest path that matches is taken, and
\* of equal ones the first, for any paths in any order. (tree.go:66-97)
THEOREM LongestLiteralWins == Spec => []LongestLiteral
<1>1. IInv => LongestLiteral
  <2> SUFFICES ASSUME IInv, NEW m \in Methods, NEW u \in URLs,
                      NEW paths, paths = PathsOf(m), NEW k, k = matchURL(paths, u),
                      k \in Plain(m, u), \A j \in Plain(m, u) : ParamsOf(paths[j].segs) = {},
                      NEW i \in Plain(m, u)
               PROVE  \/ Characters(paths[i].segs) < Characters(paths[k].segs)
                      \/ Characters(paths[i].segs) = Characters(paths[k].segs) /\ k <= i
    BY DEF LongestLiteral
  <2>1. paths \in PathList /\ DOMAIN paths = DOMAIN table[m]
    BY PathsOfType
  <2>2. DOMAIN paths = 1..Len(paths)
    BY <2>1 DEF PathList
  <2> DEFINE nodes == locationRegex(paths, "plain")
  <2>3. \A j \in DOMAIN paths : Hit(paths, nodes, u, j) <=> j \in Plain(m, u)
    BY <2>1 DEF Hit, locationRegex, Plain
  <2>4. Plain(m, u) \subseteq DOMAIN paths /\ paths[k].flag = "plain"
    BY <2>1 DEF Plain
  <2>5. k # 0 /\ k = Match(paths, nodes, u)
    <3>1. k # 0
      BY <2>2, <2>4
    <3> QED
      BY <2>1, <2>4, <3>1, MatchURLSound
  <2> HIDE DEF nodes
  <2>6. \A j \in 1..Len(paths) : Hit(paths, nodes, u, j) => ParamsOf(paths[j].segs) = {}
    BY <2>2, <2>3
  <2>7. i \in 1..Len(paths) /\ Hit(paths, nodes, u, i)
    BY <2>2, <2>3, <2>4
  <2> QED
    BY SMTT(30), <2>1, <2>5, <2>6, <2>7, MatchLongest
<1> QED
  BY <1>1, RoutesInvariant, PTL
=============================================================================
