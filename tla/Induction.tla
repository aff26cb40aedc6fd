----------------------------- MODULE Induction ------------------------------
(***************************************************************************)
(* Induction for the provers, which cannot instantiate a theorem that has  *)
(* an operator as a parameter: a property of numbers is given as the set   *)
(* of the numbers that have it, the turns of a loop as a function.         *)
(***************************************************************************)
EXTENDS Integers, Sequences, WellFoundedInduction, TLAPS

\* A set of numbers that is not empty has a least one.
LEMMA LeastMember ==
  ASSUME NEW S \in SUBSET Nat, S # {}
  PROVE  \E x \in S : \A y \in S : x <= y
<1>1. PICK x \in S : \A y \in S : ~ (<<y, x>> \in OpToRel(<, Nat))
  BY WFMin, NatLessThanWellFounded
<1>2. ASSUME NEW y \in S PROVE x <= y
  <2> SUFFICES ASSUME y < x PROVE FALSE
    OBVIOUS
  <2>1. <<y, x>> \in OpToRel(<, Nat)
    BY DEF OpToRel
  <2> QED
    BY <1>1, <2>1
<1> QED
  BY <1>2

\* A set with zero and the successors of its members has every number: one
\* that it had not, the least of them, would follow a member.
THEOREM NatSets ==
  ASSUME NEW T \in SUBSET Nat, 0 \in T, \A n \in T : n + 1 \in T
  PROVE  T = Nat
<1> DEFINE U == Nat \ T
<1> SUFFICES ASSUME U # {} PROVE FALSE
  OBVIOUS
<1>1. PICK x \in U : \A y \in U : x <= y
  <2>1. U \in SUBSET Nat
    OBVIOUS
  <2> HIDE DEF U
  <2> QED
    BY <2>1, LeastMember
<1>2. x \in Nat /\ x # 0
  OBVIOUS
<1>3. x - 1 \in Nat /\ x - 1 < x /\ (x - 1) + 1 = x
  BY <1>2
<1>4. x - 1 \notin U
  BY <1>1, <1>2, <1>3
<1>5. x \in T
  BY <1>3, <1>4
<1> QED
  BY <1>5

-----------------------------------------------------------------------------
(* Loops.                                                                  *)

\* f is what a loop of n turns that starts with base goes through.
Runs(f, n, base, turn) ==
  f[0] = base /\ \A j \in 1..n : f[j] = turn[j][f[j - 1]]

\* One more turn.
LEMMA LoopGoesOn ==
  ASSUME NEW n \in Nat, NEW B, NEW base \in B, NEW turn \in [1..n + 1 -> [B -> B]],
         NEW f \in [0..n -> B], Runs(f, n, base, turn)
  PROVE  \E g \in [0..n + 1 -> B] : Runs(g, n + 1, base, turn)
<1> DEFINE g == [j \in 0..n + 1 |-> IF j = n + 1 THEN turn[n + 1][f[n]] ELSE f[j]]
<1>1. turn[n + 1][f[n]] \in B
  <2>1. n + 1 \in 1..n + 1 /\ n \in 0..n
    OBVIOUS
  <2>2. turn[n + 1] \in [B -> B] /\ f[n] \in B
    BY <2>1
  <2> QED
    BY <2>2
<1>2. g \in [0..n + 1 -> B]
  <2>1. ASSUME NEW j \in 0..n + 1, j # n + 1 PROVE j \in 0..n
    BY <2>1
  <2> QED
    BY <1>1, <2>1
<1>3. g[0] = base
  BY DEF Runs
<1>4. ASSUME NEW j \in 1..n + 1 PROVE g[j] = turn[j][g[j - 1]]
  <2>1. j \in 0..n + 1 /\ j - 1 \in 0..n /\ j - 1 \in 0..n + 1 /\ j - 1 # n + 1
    OBVIOUS
  <2>2. g[j - 1] = f[j - 1]
    BY <2>1
  <2>3. CASE j = n + 1
    <3>1. g[j] = turn[n + 1][f[n]] /\ j - 1 = n
      BY <2>1, <2>3
    <3> QED
      BY <3>1, <2>2, <2>3
  <2>4. CASE j # n + 1
    <3>1. j \in 1..n /\ g[j] = f[j]
      BY <2>1, <2>4
    <3> QED
      BY <3>1, <2>2 DEF Runs
  <2> QED
    BY <2>3, <2>4
<1> HIDE DEF g
<1> QED
  BY <1>2, <1>3, <1>4 DEF Runs

\* Every loop runs: what a recursive definition by its turns asks for exists.
THEOREM LoopRuns ==
  ASSUME NEW n \in Nat, NEW B, NEW base \in B, NEW turn \in [1..n -> [B -> B]]
  PROVE  \E f \in [0..n -> B] : Runs(f, n, base, turn)
<1> DEFINE Upto(m) == \E f \in [0..m -> B] : Runs(f, m, base, turn)
           T == {m \in Nat : m <= n => Upto(m)}
<1>1. Upto(0)
  <2> DEFINE f == [j \in 0..0 |-> base]
  <2>1. f \in [0..0 -> B] /\ f[0] = base
    OBVIOUS
  <2> HIDE DEF f
  <2> QED
    BY <2>1 DEF Runs
<1>2. ASSUME NEW m \in Nat, m + 1 <= n, Upto(m) PROVE Upto(m + 1)
  <2>1. PICK f \in [0..m -> B] : Runs(f, m, base, turn)
    BY <1>2
  <2> DEFINE front == [j \in 1..m + 1 |-> turn[j]]
  <2>2. \A j \in 1..m + 1 : j \in 1..n /\ front[j] = turn[j]
    BY <1>2
  <2>3. front \in [1..m + 1 -> [B -> B]]
    BY <2>2
  <2>4. \A k \in 0..m + 1 : \A g : Runs(g, k, base, front) <=> Runs(g, k, base, turn)
    <3>1. \A k \in 0..m + 1 : \A j \in 1..k : front[j] = turn[j]
      BY <2>2
    <3> HIDE DEF front
    <3> QED
      BY <3>1 DEF Runs
  <2> HIDE DEF front
  <2>5. Runs(f, m, base, front)
    BY <2>1, <2>4
  <2>6. \E g \in [0..m + 1 -> B] : Runs(g, m + 1, base, front)
    BY <2>3, <2>5, LoopGoesOn
  <2> QED
    BY <2>4, <2>6
<1> HIDE DEF Upto
<1>3. 0 \in T /\ \A m \in T : m + 1 \in T
  BY <1>1, <1>2
<1>4. T \in SUBSET Nat
  OBVIOUS
<1>5. n \in T
  <2> HIDE DEF T
  <2> QED
    BY <1>3, <1>4, NatSets
<1> QED
  BY <1>5 DEF Upto


-----------------------------------------------------------------------------
(* Sums.                                                                   *)

\* t is what a recursive definition of the sums of the front parts of s asks for.
AreSums(t, s) == t = [k \in 0..Len(s) |-> IF k = 0 THEN 0 ELSE t[k - 1] + s[k]]

\* There are such sums.
THEOREM SumsExist ==
  ASSUME NEW s \in Seq(Nat)
  PROVE  \E t : AreSums(t, s)
<1> DEFINE n == Len(s)
           turn == [k \in 1..n |-> [x \in Nat |-> x + s[k]]]
<1>1. n \in Nat /\ 0 \in Nat
  OBVIOUS
<1>2. turn \in [1..n -> [Nat -> Nat]]
  OBVIOUS
<1>3. PICK f \in [0..n -> Nat] : Runs(f, n, 0, turn)
  <2> HIDE DEF n, turn
  <2> QED
    BY <1>1, <1>2, LoopRuns
<1>4. ASSUME NEW k \in 0..n PROVE f[k] = IF k = 0 THEN 0 ELSE f[k - 1] + s[k]
  <2>1. CASE k = 0
    BY <1>3, <2>1 DEF Runs
  <2>2. CASE k # 0
    <3>1. k \in 1..n /\ k - 1 \in 0..n
      BY <1>1, <2>2
    <3>2. f[k - 1] \in Nat /\ f[k] = turn[k][f[k - 1]]
      BY <1>3, <3>1 DEF Runs
    <3> QED
      BY <2>2, <3>1, <3>2
  <2> QED
    BY <2>1, <2>2
<1> QED
  BY <1>4 DEF AreSums

\* They are numbers, each larger than the one before by an element of s.
THEOREM SumsGrow ==
  ASSUME NEW s \in Seq(Nat), NEW t, AreSums(t, s)
  PROVE  /\ t \in [0..Len(s) -> Nat] /\ t[0] = 0
         /\ \A k \in 1..Len(s) : t[k] = t[k - 1] + s[k]
         /\ \A k \in 0..Len(s) : \A j \in 0..k : t[j] <= t[k]
<1> PICK n \in Nat : n = Len(s)
  OBVIOUS
<1>1. t[0] = 0
  BY DEF AreSums
<1>2. ASSUME NEW k \in 1..n PROVE t[k] = t[k - 1] + s[k]
  <2>1. k \in 0..n /\ k # 0
    OBVIOUS
  <2> QED
    BY <2>1 DEF AreSums
<1> DEFINE T == {k \in Nat : k <= n => /\ t[k] \in Nat
                                       /\ \A j \in 0..k : t[j] \in Nat /\ t[j] <= t[k]}
<1>3. 0 \in T
  BY <1>1
<1>4. ASSUME NEW k \in T PROVE k + 1 \in T
  <2> SUFFICES ASSUME k + 1 <= n
               PROVE  /\ t[k + 1] \in Nat
                      /\ \A j \in 0..k + 1 : t[j] \in Nat /\ t[j] <= t[k + 1]
    OBVIOUS
  <2>1. k + 1 \in 1..n /\ (k + 1) - 1 = k /\ t[k] \in Nat
        /\ \A j \in 0..k : t[j] \in Nat /\ t[j] <= t[k]
    OBVIOUS
  <2>2. t[k + 1] = t[k] + s[k + 1] /\ s[k + 1] \in Nat
    BY <1>2, <2>1
  <2>3. t[k + 1] \in Nat /\ t[k] <= t[k + 1]
    BY <2>1, <2>2
  <2>4. \A j \in 0..k + 1 : j \in 0..k \/ j = k + 1
    OBVIOUS
  <2>5. ASSUME NEW j \in 0..k PROVE t[j] \in Nat /\ t[j] <= t[k + 1]
    BY <2>1, <2>3
  <2> QED
    BY <2>3, <2>4, <2>5
<1>5. T = Nat
  <2>1. T \in SUBSET Nat
    OBVIOUS
  <2> HIDE DEF T
  <2> QED
    BY <1>3, <1>4, <2>1, NatSets
<1>6. \A k \in 0..n : t[k] \in Nat /\ \A j \in 0..k : t[j] <= t[k]
  BY <1>5
<1>7. t \in [0..n -> Nat]
  BY <1>6 DEF AreSums
<1> QED
  BY <1>1, <1>2, <1>6, <1>7
=============================================================================
