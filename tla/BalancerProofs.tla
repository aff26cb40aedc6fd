--------------------------- MODULE BalancerProofs ---------------------------
(***************************************************************************)
(* The balancers for any goroutines, targets and number of calls: the      *)
(* lock, what an Add decides, the turns of the round robin, the shares of  *)
(* the weighted choice, and that every balancer implements the registry:   *)
(* every step of Balancer is a step of Registry, or leaves all of it as it *)
(* is.                                                                     *)
(***************************************************************************)
EXTENDS Balancer, Induction, SequenceTheorems, FiniteSetTheorems, TLAPS

-----------------------------------------------------------------------------
(* The inductive invariant.                                                *)

Writing == {"drain", "write", "unlock"}

\* From the store of the counter to its increment.
Turning == {"index", "advance"}

\* The lock: who holds it, who waits for it, and that a list which is being
\* changed has no readers.
Mutex ==
  /\ \A t \in Threads : pc[t] \in Writing <=> writer = t
  /\ \A t \in Threads : pc[t] \in Choosing <=> t \in readers
  /\ \A t \in Threads : pc[t] = "rwait" <=> t \in waiting
  /\ waiting # {} => writer # None
  /\ \A t \in Threads : pc[t] \in {"write", "unlock"} => readers = {}

InArrays(h) == h.arr \in DOMAIN arrays /\ h.len <= Len(arrays[h.arr])

\* Where a goroutine is says which call it makes and bounds what it holds.
CallAt(t) ==
  /\ pc[t] \in {"scan", "refused", "panic", "write"} => op[t] = "Add"
  /\ pc[t] \in {"lock", "drain", "unlock"} => op[t] \in {"Add", "Remove"}
  /\ pc[t] \in Choosing \cup {"rwait"} => op[t] = "Next"
  /\ op[t] # "Next" => name[t] \in Names
  /\ pc[t] = "scan" => InArrays(hdr[t]) /\ at[t] >= 1
  /\ pc[t] \in {"wrap", "index"} => kind = "roundRobin"
  /\ pc[t] = "wrap" => at[t] < Modulus
  /\ pc[t] = "index" => at[t] < target.len
  /\ pc[t] = "pick" => kind = "random"
  /\ pc[t] \in {"wrap", "index", "advance", "pick", "write"} => target.len > 0
  /\ pc[t] = "advance" => at[t] >= 1
  /\ pc[t] \in {"advance", "picked"} => at[t] <= target.len

\* Only the place of the target that Add is about to write may be nil.
Filled ==
  \A k \in 1..target.len :
    arrays[target.arr][k] = None => k = target.len /\ ~Settled

IInv == TypeOK /\ Mutex /\ (\A t \in Threads : CallAt(t)) /\ Filled

LEMMA InitSound == Init => IInv
<1> SUFFICES ASSUME Init PROVE IInv
  OBVIOUS
<1>1. PICK s \in Initial : arrays = <<s>>
  BY DEF Init
<1>2. s \in Seq(Names) /\ s \in Seq(Names \cup {None}) /\ arrays[1] = s
  BY <1>1, InitialAssumption
<1>3. TypeOK
  BY <1>1, <1>2, BoundsAssumption DEF Init, TypeOK, Header, NoHeader, PCs
<1>4. Mutex
  BY NoneAssumption DEF Init, Mutex, Choosing, Writing
<1>5. \A t \in Threads : CallAt(t)
  BY DEF Init, CallAt, Choosing
<1>6. Filled
  BY <1>1, <1>2, NoneAssumption DEF Init, Filled
<1> QED
  BY <1>3, <1>4, <1>5, <1>6 DEF IInv

-----------------------------------------------------------------------------
(* The three steps that change the list.                                   *)

\* growslice makes a longer array that starts like the old one.
LEMMA GrownArray ==
  ASSUME TypeOK
  PROVE  LET full == arrays[target.arr]
         IN  /\ Grown(target) \in Seq(Names \cup {None})
             /\ Len(Grown(target)) > Len(full)
             /\ \A k \in 1..Len(full) : Grown(target)[k] = full[k]
<1> DEFINE full == arrays[target.arr]
           room == IF full = << >> THEN 1 ELSE Len(full)
           more == [k \in 1..room |-> None]
<1>1. full \in Seq(Names \cup {None})
  BY DEF TypeOK
<1>2. room \in Nat /\ room >= 1
  BY <1>1
<1>3. more \in Seq(Names \cup {None}) /\ Len(more) = room
  BY <1>2
<1>4. Grown(target) = full \o more
  BY DEF Grown
<1> HIDE DEF full, room, more
<1>5. full \o more \in Seq(Names \cup {None}) /\ Len(full \o more) = Len(full) + Len(more)
      /\ \A k \in 1..Len(full) : (full \o more)[k] = full[k]
  BY <1>1, <1>3
<1> QED
  BY <1>1, <1>2, <1>3, <1>4, <1>5 DEF full

\* What Grow does: a target more, the other cells and arrays as they were.
LEMMA GrowList ==
  ASSUME IInv, NEW t \in Threads, Grow(t)
  PROVE  /\ arrays' \in Seq(Seq(Names \cup {None}))
         /\ target' \in Header /\ target'.len = target.len + 1
         /\ target'.arr \in DOMAIN arrays' /\ target'.len <= Len(arrays'[target'.arr])
         /\ Len(arrays'[target'.arr]) >= Len(arrays[target.arr])
         /\ DOMAIN arrays \subseteq DOMAIN arrays'
         /\ \A a \in DOMAIN arrays : arrays'[a] = arrays[a]
         /\ \A k \in 1..target.len : arrays'[target'.arr][k] = arrays[target.arr][k]
<1>1. arrays \in Seq(Seq(Names \cup {None})) /\ target \in Header /\ target.arr \in DOMAIN arrays
      /\ target.len <= Len(arrays[target.arr])
  BY DEF IInv, TypeOK
<1>2. CASE target.len < Len(arrays[target.arr])
  BY <1>1, <1>2 DEF Grow, AppendTo, Header
<1>3. CASE ~(target.len < Len(arrays[target.arr]))
  <2>1. arrays' = Append(arrays, Grown(target))
        /\ target' = [arr |-> Len(arrays) + 1, len |-> target.len + 1]
    BY <1>3 DEF Grow, AppendTo
  <2>2. /\ Grown(target) \in Seq(Names \cup {None})
        /\ Len(Grown(target)) > Len(arrays[target.arr])
        /\ \A k \in 1..Len(arrays[target.arr]) : Grown(target)[k] = arrays[target.arr][k]
    BY GrownArray DEF IInv
  <2>3. arrays' \in Seq(Seq(Names \cup {None})) /\ Len(arrays') = Len(arrays) + 1
        /\ arrays'[Len(arrays) + 1] = Grown(target)
        /\ \A a \in 1..Len(arrays) : arrays'[a] = arrays[a]
    BY <1>1, <2>1, <2>2
  <2> QED
    BY <1>1, <1>3, <2>1, <2>2, <2>3 DEF Header
<1> QED
  BY <1>2, <1>3

\* What Write does: the last target is the argument of its Add.
LEMMA WriteList ==
  ASSUME IInv, NEW t \in Threads, Write(t)
  PROVE  /\ arrays' \in Seq(Seq(Names \cup {None}))
         /\ DOMAIN arrays' = DOMAIN arrays
         /\ \A a \in DOMAIN arrays : Len(arrays'[a]) = Len(arrays[a])
         /\ \A k \in 1..target.len :
              arrays'[target.arr][k] = IF k = target.len THEN name[t] ELSE arrays[target.arr][k]
         /\ name[t] \in Names
<1> DEFINE S == Names \cup {None}
           full == arrays[target.arr]
           new == [full EXCEPT ![target.len] = name[t]]
<1>1. arrays \in Seq(Seq(S)) /\ target \in Header /\ target.arr \in DOMAIN arrays
      /\ target.len <= Len(full)
  BY DEF IInv, TypeOK
<1>2. target.len > 0 /\ name[t] \in Names
  BY DEF IInv, CallAt, Write
<1>3. full \in Seq(S) /\ target.len \in DOMAIN full
  BY <1>1, <1>2 DEF Header
<1>4. new \in Seq(S) /\ Len(new) = Len(full) /\ DOMAIN new = DOMAIN full
  BY <1>2, <1>3
<1>5. arrays' = [arrays EXCEPT ![target.arr] = new]
  BY DEF Write
<1> HIDE DEF S
<1>6. arrays' \in Seq(Seq(S)) /\ DOMAIN arrays' = DOMAIN arrays /\ arrays'[target.arr] = new
      /\ \A a \in DOMAIN arrays : a # target.arr => arrays'[a] = arrays[a]
  BY <1>1, <1>4, <1>5
<1>7. \A k \in 1..target.len : new[k] = IF k = target.len THEN name[t] ELSE full[k]
  BY <1>3, <1>1 DEF Header
<1> QED
  BY <1>1, <1>2, <1>4, <1>6, <1>7 DEF S

\* A set of numbers that is not empty has a first one.
LEMMA FirstIsLeast ==
  ASSUME NEW S \in SUBSET Nat, S # {}
  PROVE  First(S) \in S /\ \A m \in S : First(S) <= m
<1>1. \E k \in S : \A m \in S : k <= m
  BY LeastMember
<1> QED
  BY <1>1 DEF First

\* What RemoveFound does: the first target of the name is gone, and the ones
\* after it are a place further in front.
LEMMA RemoveList ==
  ASSUME IInv, NEW t \in Threads, RemoveFound(t)
  PROVE  LET k == First(Matches(t))
         IN  /\ k \in 1..target.len /\ arrays[target.arr][k] = name[t]
             /\ arrays' \in Seq(Seq(Names \cup {None}))
             /\ target' = [arr |-> target.arr, len |-> target.len - 1] /\ target' \in Header
             /\ DOMAIN arrays' = DOMAIN arrays
             /\ \A a \in DOMAIN arrays : Len(arrays'[a]) = Len(arrays[a])
             /\ \A m \in 1..target.len - 1 :
                  arrays'[target.arr][m] = arrays[target.arr][IF m < k THEN m ELSE m + 1]
<1> DEFINE S == Names \cup {None}
           full == arrays[target.arr]
           k == First(Matches(t))
           new == [m \in DOMAIN full |->
                     IF k <= m /\ m < target.len THEN full[m + 1] ELSE full[m]]
<1>1. arrays \in Seq(Seq(S)) /\ target \in Header /\ target.arr \in DOMAIN arrays
      /\ target.len <= Len(full) /\ target.len \in Nat
  BY DEF IInv, TypeOK, Header
<1>2. full \in Seq(S)
  BY <1>1
<1>3. List = [m \in 1..target.len |-> full[m]]
  BY <1>1, <1>2 DEF List
<1>4. k \in 1..target.len /\ full[k] = name[t]
  <2>1. Matches(t) \in SUBSET Nat /\ Matches(t) # {}
    BY <1>1 DEF Matches, RemoveFound
  <2>2. k \in Matches(t)
    BY <2>1, FirstIsLeast
  <2> QED
    BY <2>2, <1>3 DEF Matches
<1>5. arrays' = [arrays EXCEPT ![target.arr] = new]
  BY DEF RemoveFound
<1> HIDE DEF k
<1>6. target' = [arr |-> target.arr, len |-> target.len - 1] /\ target' \in Header
  <2>1. target' = [target EXCEPT !.len = @ - 1]
    BY DEF RemoveFound
  <2>2. target.arr \in Nat \ {0} /\ target = [arr |-> target.arr, len |-> target.len]
    BY <1>1 DEF Header
  <2>3. target.len - 1 \in Nat
    BY <1>1, <1>4
  <2>4. target' = [arr |-> target.arr, len |-> target.len - 1]
    BY <2>1, <2>2
  <2> QED
    BY <2>2, <2>3, <2>4 DEF Header
<1>7. new \in Seq(S) /\ Len(new) = Len(full)
  <2>1. \A m \in 1..Len(full) : full[m] \in S
    BY <1>2
  <2>2. new = [m \in 1..Len(full) |->
                 IF k <= m /\ m < target.len THEN full[m + 1] ELSE full[m]]
    BY <1>2
  <2>3. ASSUME NEW m \in 1..Len(full) PROVE new[m] \in S
    BY SMTT(30), <1>1, <1>4, <2>1, <2>2, <2>3
  <2> HIDE DEF S, new
  <2>4. Len(full) \in Nat /\ new = [m \in 1..Len(full) |-> new[m]]
    BY <1>2, <2>2
  <2> QED
    BY <2>3, <2>4
<1>8. \A m \in 1..target.len - 1 : new[m] = full[IF m < k THEN m ELSE m + 1]
  BY <1>1, <1>2, <1>4
<1> HIDE DEF S, new
<1>9. arrays' \in Seq(Seq(S)) /\ DOMAIN arrays' = DOMAIN arrays /\ arrays'[target.arr] = new
      /\ \A a \in DOMAIN arrays : a # target.arr => arrays'[a] = arrays[a]
  BY <1>1, <1>5, <1>7
<1> QED
  BY <1>1, <1>4, <1>6, <1>7, <1>8, <1>9 DEF S, k

-----------------------------------------------------------------------------
(* The invariant is inductive.                                             *)

\* The weighted choice is one of the places of a list that is not empty.
LEMMA ChoiceInList ==
  ASSUME NEW s, Len(s) \in Nat, Len(s) > 0, DOMAIN s = 1..Len(s), NEW r
  PROVE  weightedChoiceOne(Weights(s), r) \in 1..Len(s)
<1> DEFINE w == Weights(s)
           passed == {j \in DOMAIN w : r - SumTo(w, j) < 0}
<1>1. DOMAIN w = 1..Len(s)
  BY DEF Weights
<1>2. passed \in SUBSET Nat /\ passed \subseteq 1..Len(s)
  BY <1>1
<1>3. weightedChoiceOne(w, r) = IF passed = {} THEN 1 ELSE First(passed)
  BY DEF weightedChoiceOne
<1> HIDE DEF passed, w
<1> QED
  <2>1. passed # {} => First(passed) \in passed
    BY <1>2, FirstIsLeast
  <2>2. CASE passed = {}
    BY <1>3, <2>2 DEF w
  <2>3. CASE passed # {}
    <3>1. weightedChoiceOne(w, r) = First(passed)
      BY <1>3, <2>3
    <3>2. First(passed) \in 1..Len(s)
      BY <1>2, <2>1, <2>3
    <3> QED
      BY <3>1, <3>2 DEF w
  <2> QED
    BY <2>2, <2>3

\* Every lock step keeps the lock sound.
LEMMA MutexKeeps ==
  ASSUME IInv, NEW t \in Threads, Step(t)
  PROVE  Mutex'
<1>1. TypeOK /\ Mutex /\ None \notin Threads
  BY NoneAssumption DEF IInv
<1>2. pc \in [Threads -> PCs]
  BY <1>1 DEF TypeOK
<1> USE DEF Mutex, Choosing, Writing, Goto, mutex
<1>3. CASE CallsOfAdd(t)
  <2>1. CASE Grow(t)
    BY <1>1, <1>2, <2>1 DEF Grow, Entered
  <2>2. CASE Write(t)
    BY <1>1, <1>2, <2>2 DEF Write
  <2>3. CASE ScanEnds(t)
    BY <1>1, <1>2, <2>3 DEF ScanEnds
  <2>4. CASE AddOther(t) \/ CallAdd(t) \/ Scan(t) \/ Refuse(t) \/ ScanPanics(t) \/ AddReturns(t)
    BY <1>1, <1>2, <2>4 DEF AddOther, CallAdd, Calls, Scan, Scanning, Refuse, ScanPanics, AddReturns
  <2> QED
    BY <1>3, <2>1, <2>2, <2>3, <2>4 DEF CallsOfAdd
<1>4. CASE CallsOfRemove(t)
  BY <1>1, <1>2, <1>4 DEF CallsOfRemove, CallRemove, Calls, RemoveFound, RemoveMissing, Entered
<1>5. CASE CallsOfNext(t)
  <2>1. CASE RLock(t)
    BY <1>1, <1>2, <2>1 DEF RLock, Calls
  <2>2. CASE RLockWaits(t)
    BY <1>1, <1>2, <2>2 DEF RLockWaits, Calls
  <2>3. CASE RUnlock(t)
    BY <1>1, <1>2, <2>3 DEF RUnlock
  <2>4. CASE NextPanics(t) \/ IndexPanics(t) \/ Intn(t) \/ IntnRaced(t) \/ GetOne(t)
    <3>1. UNCHANGED mutex /\ pc' = [pc EXCEPT ![t] = "picked"] /\ pc[t] \in Choosing
      BY <2>4 DEF NextPanics, IndexPanics, Intn, IntnRaced, GetOne, Chooses, Loads
    <3> QED
      BY <1>1, <1>2, <3>1
  <2>5. CASE LoadI(t) \/ StoreI(t) \/ ReadI(t) \/ AdvanceI(t) \/ EnterIntn(t)
    BY <1>1, <1>2, <2>5 DEF LoadI, StoreI, ReadI, AdvanceI, EnterIntn, Loads
  <2> QED
    BY <1>5, <2>1, <2>2, <2>3, <2>4, <2>5 DEF CallsOfNext
<1>6. CASE Lock(t)
  BY <1>1, <1>2, <1>6 DEF Lock
<1>7. CASE Unlock(t)
  BY <1>1, <1>2, <1>7 DEF Unlock
<1> QED
  BY <1>3, <1>4, <1>5, <1>6, <1>7 DEF Step

\* The choice of a Next is 0 or a place of the list.
LEMMA ChoosesAt ==
  ASSUME IInv, NEW t \in Threads, NextPanics(t) \/ IndexPanics(t) \/ Intn(t) \/ IntnRaced(t) \/ GetOne(t)
  PROVE  \E k \in 0..target.len : Chooses(t, k)
<1>1. target.len \in Nat
  BY DEF IInv, TypeOK, Header
<1>2. CASE GetOne(t)
  <2>1. arrays[target.arr] \in Seq(Names \cup {None}) /\ target.len <= Len(arrays[target.arr])
    BY DEF IInv, TypeOK
  <2>2. Len(List) = target.len /\ DOMAIN List = 1..target.len
    BY <1>1, <2>1 DEF List
  <2>3. \A r : weightedChoiceOne(Weights(List), r) \in 1..Len(List)
    BY <1>1, <1>2, <2>2, ChoiceInList DEF GetOne, Loads
  <2> QED
    BY <1>1, <1>2, <2>2, <2>3 DEF GetOne
<1>3. CASE NextPanics(t) \/ IndexPanics(t) \/ Intn(t) \/ IntnRaced(t)
  BY <1>1, <1>3 DEF NextPanics, IndexPanics, Intn, IntnRaced
<1> QED
  BY <1>2, <1>3

\* The second read of the counter is a place of the list.
LEMMA ReadAt ==
  ASSUME IInv, NEW t \in Threads, ReadI(t)
  PROVE  \E k \in {i, at[t]} :
           /\ k \in 0..target.len - 1
           /\ at' = [at EXCEPT ![t] = k + 1] /\ pc' = [pc EXCEPT ![t] = "advance"]
<1>1. i \in Nat /\ at[t] \in Nat /\ target.len \in Nat
  BY BoundsAssumption DEF IInv, TypeOK, Header
<1>2. PICK k \in {i, at[t]} : k < target.len /\ at' = [at EXCEPT ![t] = k + 1]
  BY DEF ReadI
<1>3. k \in 0..target.len - 1
  BY <1>1, <1>2
<1> QED
  BY <1>2, <1>3 DEF ReadI, Goto

\* Every step keeps the types.
LEMMA TypeKeeps ==
  ASSUME IInv, NEW t \in Threads, Step(t)
  PROVE  TypeOK'
<1>1. TypeOK /\ Mutex /\ CallAt(t) /\ Modulus \in Nat \ {0} /\ MaxCalls \in Nat
  BY BoundsAssumption DEF IInv
<1>2. i \in Nat /\ i < Modulus /\ target.len \in Nat /\ calls \in Nat
  BY <1>1 DEF TypeOK, Header
<1> USE DEF Goto, mutex, call, PCs
<1>3. CASE CallsOfAdd(t)
  <2>1. CASE Grow(t)
    BY <1>1, <2>1, GrowList DEF TypeOK, Grow, Disturb, Header
  <2>2. CASE Write(t)
    BY <1>1, <2>2, WriteList DEF TypeOK, Write, Disturb
  <2>3. CASE CallAdd(t)
    BY SMTT(30), <1>1, <1>2, <2>3 DEF TypeOK, CallAdd, Calls
  <2>4. CASE AddOther(t) \/ Scan(t) \/ Refuse(t) \/ ScanPanics(t) \/ ScanEnds(t)
    <3>1. CASE Scan(t)
      BY SMTT(30), <1>1, <3>1 DEF TypeOK, Scan
    <3>2. CASE AddOther(t)
      BY SMTT(30), <1>1, <1>2, <3>2 DEF TypeOK, AddOther
    <3>3. CASE Refuse(t) \/ ScanPanics(t) \/ ScanEnds(t)
      BY <1>1, <3>3 DEF TypeOK, Refuse, ScanPanics, ScanEnds
    <3> QED
      BY <2>4, <3>1, <3>2, <3>3
  <2>5. CASE AddReturns(t)
    BY SMTT(30), <1>1, <2>5 DEF TypeOK, AddReturns, Forget, NoHeader, Header
  <2> QED
    BY <1>3, <2>1, <2>2, <2>3, <2>4, <2>5 DEF CallsOfAdd
<1>4. CASE CallsOfRemove(t)
  <2>1. CASE CallRemove(t)
    <3>1. calls' \in 0..MaxCalls /\ op' \in [Threads -> {"Add", "Remove", "Next"}]
      BY <1>1, <1>2, <2>1 DEF TypeOK, CallRemove, Calls
    <3>2. name' \in [Threads -> Names \cup {None}] /\ pc' \in [Threads -> PCs]
      BY <1>1, <2>1 DEF TypeOK, CallRemove
    <3> QED
      BY <1>1, <2>1, <3>1, <3>2 DEF TypeOK, CallRemove
  <2>2. CASE RemoveFound(t)
    <3>1. target'.arr = target.arr /\ target'.len <= target.len
      BY <1>2, <2>2, RemoveList
    <3>2. target'.len <= Len(arrays'[target'.arr])
      BY SMTT(30), <1>1, <1>2, <2>2, <3>1, RemoveList DEF TypeOK, Header
    <3> QED
      BY <1>1, <2>2, <3>1, <3>2, RemoveList DEF TypeOK, RemoveFound, Disturb
  <2>3. CASE RemoveMissing(t)
    BY <1>1, <2>3 DEF TypeOK, RemoveMissing
  <2> QED
    BY <1>4, <2>1, <2>2, <2>3 DEF CallsOfRemove
<1>5. CASE CallsOfNext(t)
  <2>1. CASE RLock(t)
    <3>1. calls' \in 0..MaxCalls /\ op' \in [Threads -> {"Add", "Remove", "Next"}]
      BY <1>1, <1>2, <2>1 DEF TypeOK, RLock, Calls
    <3>2. readers' \subseteq Threads /\ quiet' \in [Threads -> BOOLEAN] /\ pc' \in [Threads -> PCs]
      BY <1>1, <2>1 DEF TypeOK, RLock
    <3> QED
      BY SMTT(30), <1>1, <2>1, <3>1, <3>2 DEF TypeOK, RLock
  <2>2. CASE RLockWaits(t)
    BY SMTT(30), <1>1, <1>2, <2>2 DEF TypeOK, RLockWaits, Calls
  <2>3. CASE NextPanics(t) \/ IndexPanics(t) \/ Intn(t) \/ IntnRaced(t) \/ GetOne(t)
    <3>1. PICK k \in 0..target.len : Chooses(t, k)
      BY SMTT(30), <2>3, ChoosesAt
    <3> QED
      BY <1>1, <1>2, <3>1 DEF TypeOK, Chooses
  <2>4. CASE LoadI(t) \/ EnterIntn(t)
    <3>1. CASE LoadI(t)
      BY <1>1, <1>2, <3>1 DEF TypeOK, LoadI
    <3>2. CASE EnterIntn(t)
      BY <1>1, <3>2 DEF TypeOK, EnterIntn
    <3> QED
      BY <2>4, <3>1, <3>2
  <2>5. CASE StoreI(t)
    <3>1. at[t] \in Nat /\ at[t] < Modulus /\ target.len > 0
      BY <1>1, <2>5 DEF TypeOK, CallAt, StoreI
    <3>2. at[t] % target.len \in 0..target.len - 1 /\ at[t] % target.len <= at[t]
      BY <1>2, <3>1
    <3>3. i' \in 0..Modulus - 1
      BY <1>1, <1>2, <2>5, <3>1, <3>2 DEF StoreI
    <3>4. at' \in [Threads -> Nat]
      BY <1>1, <1>2, <2>5, <3>2 DEF TypeOK, StoreI
    <3> QED
      BY <1>1, <2>5, <3>3, <3>4 DEF TypeOK, StoreI
  <2>6. CASE AdvanceI(t)
    <3>1. i' \in 0..Modulus - 1
      BY <1>1, <1>2, <2>6 DEF AdvanceI
    <3> QED
      BY <1>1, <2>6, <3>1 DEF TypeOK, AdvanceI
  <2>7. CASE RUnlock(t)
    BY SMTT(30), <1>1, <2>7 DEF TypeOK, RUnlock, Forget, NoHeader, Header
  <2>8. CASE ReadI(t)
    <3>1. PICK k \in {i, at[t]} :
            /\ k \in 0..target.len - 1
            /\ at' = [at EXCEPT ![t] = k + 1] /\ pc' = [pc EXCEPT ![t] = "advance"]
      BY <2>8, ReadAt
    <3>2. at' \in [Threads -> Nat]
      BY <1>1, <1>2, <3>1 DEF TypeOK
    <3> QED
      BY <1>1, <2>8, <3>1, <3>2 DEF TypeOK, ReadI
  <2> QED
    BY <1>5, <2>1, <2>2, <2>3, <2>4, <2>5, <2>6, <2>7, <2>8 DEF CallsOfNext
<1>6. CASE Lock(t)
  BY <1>1, <1>6 DEF TypeOK, Lock
<1>7. CASE Unlock(t)
  <2>1. pc' \in [Threads -> PCs] /\ quiet' \in [Threads -> BOOLEAN]
    BY <1>1, <1>7 DEF TypeOK, Unlock
  <2>2. /\ op' \in [Threads -> {"Add", "Remove", "Next"}] /\ name' \in [Threads -> Names \cup {None}]
        /\ hdr' \in [Threads -> Header] /\ at' \in [Threads -> Nat]
    BY SMTT(30), <1>1, <1>7 DEF TypeOK, Unlock, Forget, NoHeader, Header
  <2>3. readers' \subseteq Threads /\ waiting' \subseteq Threads /\ writer' \in Threads \cup {None}
    BY <1>1, <1>7 DEF TypeOK, Unlock
  <2>4. UNCHANGED <<kind, arrays, target, i, calls, last>>
    BY <1>7 DEF Unlock
  <2> QED
    BY <1>1, <2>1, <2>2, <2>3, <2>4 DEF TypeOK
<1> QED
  BY <1>3, <1>4, <1>5, <1>6, <1>7 DEF Step

\* No goroutine loses what its place in a call says of it.
LEMMA CallsKeep ==
  ASSUME IInv, NEW t \in Threads, Step(t), NEW u \in Threads
  PROVE  CallAt(u)'
<1>1. TypeOK /\ Mutex /\ CallAt(t) /\ CallAt(u) /\ Modulus \in Nat \ {0}
  BY BoundsAssumption DEF IInv
<1>2. i \in Nat /\ i < Modulus /\ target.len \in Nat /\ target.arr \in DOMAIN arrays
      /\ hdr[u].len \in Nat /\ hdr[u].arr \in Nat /\ at \in [Threads -> Nat]
  BY SMTT(30), <1>1 DEF TypeOK, Header
<1> USE DEF Goto, mutex, call, Choosing, InArrays
<1>3. CASE CallsOfAdd(t)
  <2>1. CASE Grow(t)
    <3>1. \A a \in DOMAIN arrays : a \in DOMAIN arrays' /\ arrays'[a] = arrays[a]
      BY <2>1, GrowList
    <3>2. target'.len = target.len + 1
      BY <2>1, GrowList
    <3>3. readers = {} /\ pc[t] = "drain" /\ op[t] = "Add" /\ pc' = [pc EXCEPT ![t] = "write"]
          /\ UNCHANGED <<kind, op, name, hdr, at>>
      BY <2>1 DEF Grow, Entered
    <3> QED
      BY SMTT(30), <1>1, <1>2, <3>1, <3>2, <3>3 DEF CallAt, Mutex, TypeOK
  <2>2. CASE Write(t)
    <3>1. \A a \in DOMAIN arrays : a \in DOMAIN arrays' /\ Len(arrays'[a]) = Len(arrays[a])
      BY <2>2, WriteList
    <3> QED
      BY <1>1, <1>2, <2>2, <3>1 DEF CallAt, TypeOK, Write
  <2>3. CASE CallAdd(t)
    BY <1>1, <1>2, <2>3 DEF CallAt, TypeOK, CallAdd, Calls
  <2>4. CASE AddOther(t) \/ Scan(t) \/ Refuse(t) \/ ScanPanics(t) \/ ScanEnds(t)
    <3>1. CASE Scan(t)
      BY SMTT(30), <1>1, <1>2, <3>1 DEF CallAt, TypeOK, Scan, Scanning
    <3>2. CASE AddOther(t)
      BY <1>1, <3>2 DEF CallAt, AddOther
    <3>3. CASE Refuse(t) \/ ScanPanics(t) \/ ScanEnds(t)
      BY SMTT(30), <1>1, <3>3 DEF CallAt, TypeOK, Scanning, Refuse, ScanPanics, ScanEnds
    <3> QED
      BY <2>4, <3>1, <3>2, <3>3
  <2>5. CASE AddReturns(t)
    BY <1>1, <2>5 DEF CallAt, TypeOK, AddReturns, Forget
  <2> QED
    BY <1>3, <2>1, <2>2, <2>3, <2>4, <2>5 DEF CallsOfAdd
<1>4. CASE CallsOfRemove(t)
  <2>1. CASE CallRemove(t)
    BY <1>1, <2>1 DEF CallAt, TypeOK, CallRemove, Calls
  <2>2. CASE RemoveFound(t)
    <3>1. \A a \in DOMAIN arrays : a \in DOMAIN arrays' /\ Len(arrays'[a]) = Len(arrays[a])
      BY <2>2, RemoveList
    <3>2. readers = {} /\ pc[t] = "drain" /\ pc' = [pc EXCEPT ![t] = "unlock"]
          /\ UNCHANGED <<kind, op, name, hdr, at>>
      BY <2>2 DEF RemoveFound, Entered
    <3>3. pc[u] \notin {"wrap", "index", "advance", "pick", "write", "picked"}
      BY <1>1, <3>2 DEF Mutex, Writing, TypeOK
    <3> QED
      BY <1>1, <1>2, <3>1, <3>2, <3>3 DEF CallAt, TypeOK
  <2>3. CASE RemoveMissing(t)
    BY <1>1, <2>3 DEF CallAt, TypeOK, RemoveMissing, Entered
  <2> QED
    BY <1>4, <2>1, <2>2, <2>3 DEF CallsOfRemove
<1>5. CASE CallsOfNext(t)
  <2>1. CASE RLock(t) \/ RLockWaits(t)
    BY SMTT(30), <1>1, <2>1 DEF CallAt, TypeOK, RLock, RLockWaits, Calls
  <2>2. CASE NextPanics(t) \/ IndexPanics(t) \/ Intn(t) \/ IntnRaced(t) \/ GetOne(t)
    <3>1. PICK k \in 0..target.len : Chooses(t, k)
      BY <2>2, ChoosesAt
    <3>2. pc[t] \in Choosing
      BY <2>2 DEF NextPanics, IndexPanics, Intn, IntnRaced, GetOne, Loads
    <3> QED
      BY <1>1, <1>2, <3>1, <3>2 DEF CallAt, TypeOK, Chooses
  <2>3. CASE LoadI(t) \/ EnterIntn(t)
    <3>1. CASE LoadI(t)
      BY <1>1, <1>2, <3>1 DEF CallAt, TypeOK, LoadI, Loads
    <3>2. CASE EnterIntn(t)
      BY <1>1, <1>2, <3>2 DEF CallAt, TypeOK, EnterIntn, Loads
    <3> QED
      BY <2>3, <3>1, <3>2
  <2>4. CASE StoreI(t)
    <3>1. target.len > 0 /\ at[t] \in Nat
      BY <1>1, <2>4 DEF CallAt, TypeOK, StoreI
    <3>2. at[t] % target.len \in 0..target.len - 1
      BY <1>2, <3>1
    <3> QED
      BY <1>1, <1>2, <2>4, <3>1, <3>2 DEF CallAt, TypeOK, StoreI
  <2>5. CASE AdvanceI(t)
    BY <1>1, <2>5 DEF CallAt, TypeOK, AdvanceI
  <2>6. CASE RUnlock(t)
    BY <1>1, <2>6 DEF CallAt, TypeOK, RUnlock, Forget
  <2>7. CASE ReadI(t)
    <3>1. PICK k \in {i, at[t]} :
            /\ k \in 0..target.len - 1
            /\ at' = [at EXCEPT ![t] = k + 1] /\ pc' = [pc EXCEPT ![t] = "advance"]
      BY <2>7, ReadAt
    <3>2. pc[t] = "index" /\ UNCHANGED <<kind, arrays, target, op, name, hdr>>
      BY <2>7 DEF ReadI
    <3> QED
      BY <1>1, <1>2, <3>1, <3>2 DEF CallAt, TypeOK
  <2> QED
    BY <1>5, <2>1, <2>2, <2>3, <2>4, <2>5, <2>6, <2>7 DEF CallsOfNext
<1>6. CASE Lock(t)
  BY <1>1, <1>6 DEF CallAt, TypeOK, Lock
<1>7. CASE Unlock(t)
  BY <1>1, <1>7 DEF CallAt, TypeOK, Unlock, Forget, Mutex
<1> QED
  BY <1>3, <1>4, <1>5, <1>6, <1>7 DEF Step

\* Outside Grow, Write and RemoveFound the list stays as it is, and no
\* goroutine enters or leaves the write of a target.
LEMMA ListStays ==
  ASSUME IInv, NEW t \in Threads, Step(t), ~Grow(t), ~Write(t), ~RemoveFound(t)
  PROVE  /\ UNCHANGED <<arrays, target>>
         /\ \A u \in Threads : pc'[u] = "write" <=> pc[u] = "write"
<1>1. pc \in [Threads -> PCs] /\ \A u \in waiting : pc[u] = "rwait"
  BY DEF IInv, TypeOK, Mutex
<1> USE DEF Goto
<1>2. CASE CallsOfAdd(t)
  BY <1>1, <1>2 DEF CallsOfAdd, AddOther, CallAdd, Calls, Scan, Scanning, Refuse, ScanPanics,
                    ScanEnds, AddReturns
<1>3. CASE CallsOfRemove(t)
  BY <1>1, <1>3 DEF CallsOfRemove, CallRemove, Calls, RemoveMissing, Entered
<1>4. CASE CallsOfNext(t)
  <2>1. CASE NextPanics(t) \/ IndexPanics(t) \/ Intn(t) \/ IntnRaced(t) \/ GetOne(t)
    <3>1. UNCHANGED <<arrays, target>> /\ pc' = [pc EXCEPT ![t] = "picked"] /\ pc[t] \in Choosing
      BY <2>1 DEF NextPanics, IndexPanics, Intn, IntnRaced, GetOne, Chooses, Loads, Choosing
    <3> QED
      BY <1>1, <3>1 DEF Choosing
  <2>2. CASE RLock(t) \/ RLockWaits(t) \/ RUnlock(t)
    BY <1>1, <2>2 DEF RLock, RLockWaits, RUnlock, Calls
  <2>3. CASE LoadI(t) \/ StoreI(t) \/ ReadI(t) \/ AdvanceI(t) \/ EnterIntn(t)
    BY <1>1, <2>3 DEF LoadI, StoreI, ReadI, AdvanceI, EnterIntn, Loads
  <2> QED
    BY <1>4, <2>1, <2>2, <2>3 DEF CallsOfNext
<1>5. CASE Lock(t) \/ Unlock(t)
  BY <1>1, <1>5 DEF Lock, Unlock
<1> QED
  BY <1>2, <1>3, <1>4, <1>5 DEF Step

\* A nil cell is only ever the last one, and written before the lock goes.
LEMMA FilledKeeps ==
  ASSUME IInv, NEW t \in Threads, Step(t)
  PROVE  Filled'
<1>1. TypeOK /\ Mutex /\ CallAt(t) /\ Filled /\ None \notin Threads /\ None \notin Names
  BY NoneAssumption DEF IInv
<1>2. target.len \in Nat /\ pc \in [Threads -> PCs]
  BY <1>1 DEF TypeOK, Header
<1>3. CASE Grow(t)
  <2>1. pc[t] = "drain" /\ pc'[t] = "write"
    BY <1>2, <1>3 DEF Grow, Entered, Goto
  <2>2. Settled
    BY <1>1, <2>1 DEF Settled, Mutex, Writing
  <2>3. ~Settled'
    BY <2>1 DEF Settled
  <2>4. target'.len = target.len + 1
        /\ \A k \in 1..target.len : arrays'[target'.arr][k] = arrays[target.arr][k]
    BY <1>3, GrowList
  <2> QED
    BY <1>1, <1>2, <2>2, <2>3, <2>4 DEF Filled
<1>4. CASE Write(t)
  <2>1. target' = target /\ \A k \in 1..target.len :
          arrays'[target.arr][k] = IF k = target.len THEN name[t] ELSE arrays[target.arr][k]
    BY <1>4, WriteList DEF Write
  <2>2. name[t] \in Names
    BY <1>4, WriteList
  <2> QED
    BY <1>1, <2>1, <2>2 DEF Filled
<1>5. CASE RemoveFound(t)
  <2>1. pc[t] = "drain"
    BY <1>5 DEF RemoveFound, Entered
  <2>2. Settled
    BY <1>1, <2>1 DEF Settled, Mutex, Writing
  <2>3. PICK k \in 1..target.len :
          /\ target' = [arr |-> target.arr, len |-> target.len - 1]
          /\ \A m \in 1..target.len - 1 :
               arrays'[target.arr][m] = arrays[target.arr][IF m < k THEN m ELSE m + 1]
    BY <1>5, RemoveList
  <2> QED
    BY <1>1, <1>2, <2>2, <2>3 DEF Filled
<1>6. CASE ~Grow(t) /\ ~Write(t) /\ ~RemoveFound(t)
  BY <1>1, <1>6, ListStays DEF Filled, Settled
<1> QED
  BY <1>3, <1>4, <1>5, <1>6

LEMMA StepSound == IInv /\ [Next]_vars => IInv'
<1>1. ASSUME IInv, NEW t \in Threads, Step(t) PROVE IInv'
  BY <1>1, TypeKeeps, MutexKeeps, CallsKeep, FilledKeeps DEF IInv
<1>2. ASSUME IInv, UNCHANGED vars PROVE IInv'
  BY <1>2 DEF IInv, vars, mutex, call, TypeOK, Mutex, CallAt, InArrays, Filled, Settled
<1> QED
  BY <1>1, <1>2 DEF Next, Terminated

\* The lock, the calls and the cells of the list are sound in every state of a
\* balancer.  (proxy.go:39-66, 98-105)
THEOREM BalancerInvariant == Spec => []IInv
BY InitSound, StepSound, PTL DEF Spec

\* Every variable of a balancer has its type; the header stays within its array.
\* (proxy.go:34-66)
THEOREM BalancerTypes == Spec => []TypeOK
<1>1. IInv => TypeOK
  BY DEF IInv
<1> QED
  BY <1>1, BalancerInvariant, PTL

\* A goroutine that changes the list is alone with it: no Next reads it, and
\* no other Add or Remove changes it.  (proxy.go:51-52, 58-59, 99-100)
Exclusive ==
  \A t, u \in Threads :
    pc[t] \in {"write", "unlock"} /\ t # u => pc[u] \notin Choosing \cup Writing

\* The lock keeps Add and Remove apart from each other and from Next.
\* (proxy.go:51-52, 58-59, 99-100)
THEOREM BalancerExclusive == Spec => []Exclusive
<1>1. IInv => Exclusive
  BY DEF IInv, Mutex, Exclusive, Writing
<1> QED
  BY <1>1, BalancerInvariant, PTL

-----------------------------------------------------------------------------
(* What a step leaves to the other goroutines.                             *)

LEMMA OthersStay ==
  ASSUME IInv, NEW t \in Threads, Step(t), NEW u \in Threads \ {t}
  PROVE  /\ UNCHANGED <<op[u], name[u], hdr[u], at[u]>>
         /\ \/ pc'[u] = pc[u] /\ (quiet'[u] => quiet[u])
            \/ pc[u] = "rwait" /\ pc'[u] = "load" /\ Unlock(t)
<1>1. TypeOK /\ Mutex
  BY DEF IInv
<1> USE DEF Goto, call
<1>2. CASE CallsOfAdd(t)
  BY <1>1, <1>2 DEF TypeOK, CallsOfAdd, AddOther, CallAdd, Calls, Scan, Refuse, ScanPanics,
                    ScanEnds, AddReturns, Forget, Grow, Write, Disturb
<1>3. CASE CallsOfRemove(t)
  BY <1>1, <1>3 DEF TypeOK, CallsOfRemove, CallRemove, Calls, RemoveFound, RemoveMissing, Disturb
<1>4. CASE CallsOfNext(t)
  <2>1. CASE NextPanics(t) \/ IndexPanics(t) \/ Intn(t) \/ IntnRaced(t) \/ GetOne(t)
    <3>1. PICK k \in 0..target.len : Chooses(t, k)
      BY <2>1, ChoosesAt
    <3> QED
      BY <1>1, <3>1 DEF TypeOK, Chooses
  <2>2. CASE RLock(t) \/ RLockWaits(t) \/ RUnlock(t)
    BY <1>1, <2>2 DEF TypeOK, RLock, RLockWaits, RUnlock, Calls, Forget
  <2>3. CASE LoadI(t) \/ StoreI(t) \/ ReadI(t) \/ AdvanceI(t) \/ EnterIntn(t)
    BY <1>1, <2>3 DEF TypeOK, LoadI, StoreI, ReadI, AdvanceI, EnterIntn
  <2> QED
    BY <1>4, <2>1, <2>2, <2>3 DEF CallsOfNext
<1>5. CASE Lock(t)
  BY <1>1, <1>5 DEF TypeOK, Lock
<1>6. CASE Unlock(t)
  BY <1>1, <1>6 DEF TypeOK, Mutex, Unlock, Forget
<1> QED
  BY <1>2, <1>3, <1>4, <1>5, <1>6 DEF Step

\* Only StoreI and AdvanceI touch the counter, and only they and IndexPanics
\* begin or end a turn.
LEMMA CounterStays ==
  ASSUME IInv, NEW t \in Threads, Step(t), ~StoreI(t), ~AdvanceI(t)
  PROVE  /\ i' = i
         /\ ~IndexPanics(t) => \A u \in Threads : pc'[u] \in Turning <=> pc[u] \in Turning
         /\ IndexPanics(t) => /\ pc[t] = "index" /\ i >= target.len
                              /\ pc' = [pc EXCEPT ![t] = "picked"]
<1>1. pc \in [Threads -> PCs]
  BY DEF IInv, TypeOK
<1>2. CASE IndexPanics(t)
  BY <1>2 DEF IndexPanics, Chooses, Goto
<1>3. CASE ~IndexPanics(t)
  <2>1. i' = i /\ (pc'[t] \in Turning <=> pc[t] \in Turning)
    <3> USE DEF Goto, Turning
    <3>1. CASE CallsOfAdd(t)
      BY <1>1, <3>1 DEF CallsOfAdd, AddOther, CallAdd, Calls, Scan, Scanning, Refuse, ScanPanics,
                        ScanEnds, AddReturns, Grow, Entered, Write
    <3>2. CASE CallsOfRemove(t)
      BY <1>1, <3>2 DEF CallsOfRemove, CallRemove, Calls, RemoveFound, RemoveMissing, Entered
    <3>3. CASE NextPanics(t) \/ Intn(t) \/ IntnRaced(t) \/ GetOne(t)
      <4>1. i' = i /\ pc' = [pc EXCEPT ![t] = "picked"] /\ pc[t] \in {"load", "pick"}
        BY <3>3 DEF NextPanics, Intn, IntnRaced, GetOne, Chooses, Loads
      <4> QED
        BY <1>1, <4>1
    <3>4. CASE RLock(t) \/ RLockWaits(t) \/ RUnlock(t) \/ LoadI(t) \/ ReadI(t) \/ EnterIntn(t)
      BY <1>1, <3>4 DEF RLock, RLockWaits, RUnlock, Calls, LoadI, ReadI, EnterIntn, Loads
    <3>5. CASE Lock(t) \/ Unlock(t)
      BY <1>1, <3>5 DEF Lock, Unlock
    <3> QED
      BY <1>3, <3>1, <3>2, <3>3, <3>4, <3>5 DEF Step, CallsOfNext
  <2>2. ASSUME NEW u \in Threads \ {t} PROVE pc'[u] \in Turning <=> pc[u] \in Turning
    BY OthersStay DEF Turning
  <2> QED
    BY <1>3, <2>1, <2>2
<1> QED
  BY <1>2, <1>3

-----------------------------------------------------------------------------
(* The round-robin counter.                                                *)

Advancing == {t \in Threads : pc[t] \in Turning}

\* Every goroutine that has stored the counter and not advanced it is counted
\* as if it had: it is this sum that no step but the store makes larger.
Counted == i + Cardinality(Advancing) < Len(arrays[target.arr]) + Cardinality(Threads)

LEMMA SubsetSize ==
  ASSUME NEW S \in SUBSET Threads
  PROVE  IsFiniteSet(S) /\ Cardinality(S) \in Nat /\ Cardinality(S) <= Cardinality(Threads)
         /\ Cardinality(Threads) \in Nat /\ Cardinality(Threads) > 0
BY ThreadsAssumption, FS_Subset, FS_CardinalityType, FS_EmptySet

LEMMA CountedKeeps ==
  ASSUME IInv, Counted, NEW t \in Threads, Step(t)
  PROVE  Counted'
<1>1. TypeOK /\ CallAt(t) /\ target.len \in Nat /\ i \in Nat /\ target.len <= Len(arrays[target.arr])
      /\ Len(arrays[target.arr]) \in Nat /\ Modulus \in Nat \ {0}
  BY SMTT(30), BoundsAssumption DEF IInv, TypeOK, Header
<1>2. /\ IsFiniteSet(Advancing) /\ Cardinality(Advancing) \in Nat /\ Cardinality(Advancing') \in Nat
      /\ Cardinality(Advancing') <= Cardinality(Threads) /\ Cardinality(Threads) \in Nat
  BY SubsetSize DEF Advancing
<1>3. CASE StoreI(t)
  <2>1. target.len > 0 /\ at[t] \in Nat
    BY <1>1, <1>3 DEF TypeOK, CallAt, StoreI
  <2>2. i' = at[t] % target.len /\ UNCHANGED <<arrays, target>>
    BY <1>3 DEF StoreI
  <2>3. i' \in 0..target.len - 1
    BY <1>1, <2>1, <2>2
  <2> QED
    BY SMTT(30), <1>1, <1>2, <2>2, <2>3 DEF Counted
<1>4. CASE AdvanceI(t)
  <2>1. t \in Advancing /\ Advancing' = Advancing \ {t}
    BY <1>1, <1>4 DEF TypeOK, AdvanceI, Advancing, Goto, Turning
  <2>2. Cardinality(Advancing') = Cardinality(Advancing) - 1
    BY <1>2, <2>1, FS_RemoveElement
  <2>3. i' = (i + 1) % Modulus /\ UNCHANGED <<arrays, target>>
    BY <1>4 DEF AdvanceI
  <2>4. i' \in Nat /\ i' <= i + 1
    BY <1>1, <2>3
  <2> QED
    BY SMTT(30), <1>1, <1>2, <2>2, <2>3, <2>4 DEF Counted
<1>5. CASE ~StoreI(t) /\ ~AdvanceI(t)
  <2>1. i' = i /\ Cardinality(Advancing') <= Cardinality(Advancing)
    <3>1. i' = i /\ Advancing' \subseteq Advancing
      BY <1>1, <1>5, CounterStays DEF TypeOK, Advancing, Turning
    <3> QED
      BY <1>2, <3>1, FS_Subset
  <2>2. Len(arrays'[target'.arr]) >= Len(arrays[target.arr]) /\ Len(arrays'[target'.arr]) \in Nat
    <3>1. TypeOK'
      BY TypeKeeps
    <3>2. Len(arrays'[target'.arr]) \in Nat
      BY <3>1 DEF TypeOK
    <3>3. CASE Grow(t)
      BY <3>2, <3>3, GrowList
    <3>4. CASE Write(t)
      BY <1>1, <3>2, <3>4, WriteList DEF Write, TypeOK
    <3>5. CASE RemoveFound(t)
      BY SMTT(30), <1>1, <3>2, <3>5, RemoveList DEF TypeOK
    <3>6. CASE ~Grow(t) /\ ~Write(t) /\ ~RemoveFound(t)
      BY <1>1, <3>2, <3>6, ListStays
    <3> QED
      BY <3>3, <3>4, <3>5, <3>6
  <2> QED
    BY SMTT(30), <1>1, <1>2, <2>1, <2>2 DEF Counted
<1> QED
  BY <1>3, <1>4, <1>5

\* The counter stays below the capacity of the list and the number of the
\* goroutines: no race on it lets it near the width of its type.
\* (proxy.go:101-103)
THEOREM CounterNeverWraps == Spec => []CounterBounded
<1>1. Init => Counted
  <2> SUFFICES ASSUME Init PROVE Counted
    OBVIOUS
  <2>1. Advancing = {}
    BY DEF Init, Advancing, Turning
  <2>2. IInv
    BY InitSound
  <2>3. Len(arrays[target.arr]) \in Nat
    BY <2>2 DEF IInv, TypeOK
  <2> QED
    BY <2>1, <2>3, SubsetSize, FS_EmptySet DEF Init, Counted
<1>2. IInv /\ Counted /\ [Next]_vars => Counted'
  BY CountedKeeps DEF Next, Terminated, vars, Counted, Advancing
<1>3. IInv /\ Counted => CounterBounded
  <2> SUFFICES ASSUME IInv, Counted PROVE CounterBounded
    OBVIOUS
  <2>1. i \in Int /\ Len(arrays[target.arr]) \in Nat
    BY BoundsAssumption DEF IInv, TypeOK
  <2>2. Cardinality(Advancing) \in Nat /\ Cardinality(Threads) \in Nat
    BY SubsetSize DEF Advancing
  <2> QED
    BY <2>1, <2>2 DEF Counted, CounterBounded
<1> QED
  BY <1>1, <1>2, <1>3, BalancerInvariant, PTL DEF Spec

-----------------------------------------------------------------------------
(* The scan of Add.                                                        *)

\* A name occurs in a list when one of its places holds it.
LEMMA OccursAt ==
  ASSUME NEW s, Len(s) \in Nat, DOMAIN s = 1..Len(s), NEW n
  PROVE  /\ Occurrences(s, n) \in Nat
         /\ Occurrences(s, n) = 0 <=> \A k \in 1..Len(s) : s[k] # n
<1> DEFINE places == {k \in DOMAIN s : s[k] = n}
<1>1. IsFiniteSet(places)
  <2>1. IsFiniteSet(1..Len(s)) /\ places \in SUBSET (1..Len(s))
    BY FS_Interval
  <2> QED
    BY <2>1, FS_Subset
<1>2. Cardinality(places) \in Nat /\ (Cardinality(places) = 0 <=> places = {})
  BY <1>1, FS_CardinalityType, FS_EmptySet
<1> QED
  BY <1>2 DEF Occurrences

\* The cells of the list.
LEMMA ListCells ==
  ASSUME TypeOK
  PROVE  /\ target.len \in Nat /\ Len(List) = target.len /\ DOMAIN List = 1..target.len
         /\ \A k \in 1..target.len : List[k] = arrays[target.arr][k]
<1>1. arrays[target.arr] \in Seq(Names \cup {None}) /\ target.len \in Nat
      /\ target.len <= Len(arrays[target.arr])
  BY DEF TypeOK, Header
<1> QED
  BY <1>1 DEF List

\* An Add that scans undisturbed has the list itself before it, and has passed
\* no target of its name.
Watched(t) ==
  quiet[t] /\ (pc[t] \in {"scan", "refused", "panic"} \/ (pc[t] = "lock" /\ op[t] = "Add")) =>
    /\ hdr[t] = target /\ Settled
    /\ pc[t] # "panic"
    /\ pc[t] = "refused" => at[t] \in 1..target.len /\ arrays[target.arr][at[t]] = name[t]
    /\ \A k \in 1..target.len :
         (pc[t] = "scan" => k < at[t]) /\ pc[t] # "refused" => arrays[target.arr][k] # name[t]

\* A change of the list ends what the other Adds can say of it.
LEMMA DisturbsOthers ==
  ASSUME IInv, NEW t \in Threads, Grow(t) \/ Write(t) \/ RemoveFound(t), NEW u \in Threads, quiet'[u]
  PROVE  u = t /\ pc'[t] \in {"write", "unlock"}
BY DEF IInv, TypeOK, Grow, Write, RemoveFound, Disturb, Goto

LEMMA WatchedKeeps ==
  ASSUME IInv, NEW t \in Threads, Step(t), NEW u \in Threads, Watched(u)
  PROVE  Watched(u)'
<1>1. TypeOK /\ Filled /\ CallAt(u) /\ target.len \in Nat /\ None \notin Names
  BY NoneAssumption DEF IInv, TypeOK, Header
<1>2. CASE Grow(t) \/ Write(t) \/ RemoveFound(t)
  BY <1>2, DisturbsOthers DEF Watched
<1>3. CASE ~Grow(t) /\ ~Write(t) /\ ~RemoveFound(t)
  <2>1. UNCHANGED <<arrays, target>> /\ Settled' = Settled
    BY <1>3, ListStays DEF Settled
  <2>2. CASE u # t
    <3>1. UNCHANGED <<op[u], name[u], hdr[u], at[u]>>
          /\ (pc'[u] = "load" \/ (pc'[u] = pc[u] /\ (quiet'[u] => quiet[u])))
      BY <2>2, OthersStay
    <3> QED
      BY <2>1, <3>1 DEF Watched
  <2>3. CASE u = t
    <3> USE DEF Goto
    <3>1. CASE CallAdd(t)
      BY <1>1, <2>1, <2>3, <3>1 DEF Watched, TypeOK, CallAdd, Calls, Settled
    <3>2. CASE Scan(t)
      BY <1>1, <2>1, <2>3, <3>2 DEF Watched, TypeOK, Scan, Scanning, Cell
    <3>3. CASE Refuse(t)
      BY <1>1, <2>1, <2>3, <3>3 DEF Watched, TypeOK, Refuse, Scanning, Cell, CallAt, call
    <3>4. CASE ScanPanics(t)
      <4>1. quiet'[t] => FALSE
        BY <1>1, <2>1, <2>3, <3>4 DEF Watched, TypeOK, ScanPanics, Scanning, Cell, CallAt, Filled
      <4> QED
        BY <2>3, <4>1 DEF Watched
    <3>5. CASE ScanEnds(t)
      <4>1. pc[t] = "scan" /\ pc'[t] = "lock" /\ UNCHANGED <<op, name, hdr, at, quiet>>
        BY <1>1, <3>5 DEF TypeOK, ScanEnds, call
      <4>2. at[t] \in Nat /\ (hdr[t] = target => at[t] > target.len)
        BY <1>1, <3>5, <4>1 DEF TypeOK, ScanEnds, Scanning
      <4> QED
        BY <1>1, <2>1, <2>3, <4>1, <4>2 DEF Watched
    <3>6. CASE AddOther(t)
      BY <2>1, <2>3, <3>6 DEF Watched, AddOther, call
    <3>7. CASE AddReturns(t) \/ Lock(t)
      BY <1>1, <2>3, <3>7 DEF Watched, TypeOK, AddReturns, Lock
    <3>8. CASE CallsOfRemove(t)
      BY <1>1, <1>3, <2>3, <3>8 DEF Watched, TypeOK, CallsOfRemove, CallRemove, Calls, RemoveMissing
    <3>9. CASE CallsOfNext(t)
      <4>1. CASE NextPanics(t) \/ IndexPanics(t) \/ Intn(t) \/ IntnRaced(t) \/ GetOne(t)
        <5>1. PICK k \in 0..target.len : Chooses(t, k)
          BY <4>1, ChoosesAt
        <5> QED
          BY <1>1, <2>3, <5>1 DEF Watched, TypeOK, Chooses
      <4>2. CASE RLock(t) \/ RLockWaits(t) \/ RUnlock(t)
        BY <1>1, <2>3, <4>2 DEF Watched, TypeOK, RLock, RLockWaits, RUnlock, Calls
      <4>3. CASE LoadI(t) \/ StoreI(t) \/ ReadI(t) \/ AdvanceI(t) \/ EnterIntn(t)
        BY <1>1, <2>3, <4>3 DEF Watched, TypeOK, LoadI, StoreI, ReadI, AdvanceI, EnterIntn
      <4> QED
        BY <3>9, <4>1, <4>2, <4>3 DEF CallsOfNext
    <3>10. CASE Unlock(t)
      BY <1>1, <2>3, <3>10 DEF Watched, TypeOK, Unlock
    <3> QED
      BY <1>3, <3>1, <3>2, <3>3, <3>4, <3>5, <3>6, <3>7, <3>8, <3>9, <3>10 DEF Step, CallsOfAdd
  <2> QED
    BY <2>2, <2>3
<1> QED
  BY <1>2, <1>3

\* An undisturbed Add refuses a name exactly when the list holds it, and never
\* reads a nil cell.  (proxy.go:46-50, 57-68)
THEOREM AddDecides == Spec => []Decides
<1> DEFINE WInv == \A t \in Threads : Watched(t)
<1>1. Init => WInv
  BY DEF Init, Watched
<1>2. IInv /\ WInv /\ [Next]_vars => WInv'
  <2>1. ASSUME IInv, WInv, NEW t \in Threads, Step(t) PROVE WInv'
    BY <2>1, WatchedKeeps
  <2>2. ASSUME WInv, UNCHANGED vars PROVE WInv'
    BY <2>2 DEF vars, call, Watched, Settled
  <2> QED
    BY <2>1, <2>2 DEF Next, Terminated
<1>3. IInv /\ WInv => Decides
  <2> SUFFICES ASSUME IInv, WInv, NEW t \in Threads, quiet[t]
               PROVE  /\ pc[t] = "refused" => Occurrences(List, name[t]) > 0
                      /\ pc[t] = "lock" /\ op[t] = "Add" => Occurrences(List, name[t]) = 0
                      /\ pc[t] # "panic"
    BY DEF Decides
  <2>1. Watched(t) /\ TypeOK
    BY DEF IInv
  <2>2. /\ Occurrences(List, name[t]) \in Nat
        /\ Occurrences(List, name[t]) = 0 <=>
             \A k \in 1..target.len : arrays[target.arr][k] # name[t]
    BY <2>1, ListCells, OccursAt
  <2> QED
    BY <2>1, <2>2 DEF Watched
<1> QED
  BY <1>1, <1>2, <1>3, BalancerInvariant, PTL DEF Spec

-----------------------------------------------------------------------------
(* The turns of the round robin.                                           *)

\* The Adds that may still make the list longer.
Adding == {t \in Threads : op[t] = "Add" /\ pc[t] \in {"scan", "lock", "drain"}}

\* The list never has more targets than the counter has values.
Short == target.len + calls + Cardinality(Adding) <= Modulus

\* Only CallAdd makes an Add that may grow the list, at the price of a call.
LEMMA AddingStays ==
  ASSUME IInv, NEW t \in Threads, Step(t), ~CallAdd(t)
  PROVE  Adding' \subseteq Adding /\ calls' \in Nat /\ calls' <= calls
<1>1. TypeOK /\ TypeOK'
  BY TypeKeeps DEF IInv
<1>2. calls \in Nat /\ calls' \in Nat
  BY <1>1, BoundsAssumption DEF TypeOK
<1>3. /\ calls' \in {calls, calls - 1}
      /\ op'[t] = "Add" /\ pc'[t] \in {"scan", "lock", "drain"} =>
           op[t] = "Add" /\ pc[t] \in {"scan", "lock", "drain"}
  <2> USE DEF Goto, call
  <2>1. pc \in [Threads -> PCs] /\ op \in [Threads -> {"Add", "Remove", "Next"}]
    BY <1>1 DEF TypeOK
  <2>2. CASE CallsOfAdd(t)
    BY <2>1, <2>2 DEF CallsOfAdd, AddOther, Scan, Scanning, Refuse, ScanPanics, ScanEnds,
                      AddReturns, Grow, Write
  <2>3. CASE CallsOfRemove(t)
    BY <2>1, <2>3 DEF CallsOfRemove, CallRemove, Calls, RemoveFound, RemoveMissing
  <2>4. CASE NextPanics(t) \/ IndexPanics(t) \/ Intn(t) \/ IntnRaced(t) \/ GetOne(t)
    <3>1. PICK k \in 0..target.len : Chooses(t, k)
      BY <2>4, ChoosesAt
    <3> QED
      BY <2>1, <3>1 DEF Chooses
  <2>5. CASE RLock(t) \/ RLockWaits(t) \/ RUnlock(t)
    BY <2>1, <2>5 DEF RLock, RLockWaits, RUnlock, Calls
  <2>6. CASE LoadI(t) \/ StoreI(t) \/ ReadI(t) \/ AdvanceI(t) \/ EnterIntn(t)
    BY <2>1, <2>6 DEF LoadI, StoreI, ReadI, AdvanceI, EnterIntn
  <2>7. CASE Lock(t) \/ Unlock(t)
    BY <2>1, <2>7 DEF Lock, Unlock
  <2> QED
    BY <2>2, <2>3, <2>4, <2>5, <2>6, <2>7 DEF Step, CallsOfNext
<1>4. ASSUME NEW u \in Threads \ {t}, op'[u] = "Add", pc'[u] \in {"scan", "lock", "drain"}
      PROVE  op[u] = "Add" /\ pc[u] \in {"scan", "lock", "drain"}
  BY <1>4, OthersStay
<1> QED
  BY <1>2, <1>3, <1>4 DEF Adding

LEMMA ShortKeeps ==
  ASSUME IInv, Short, NEW t \in Threads, Step(t)
  PROVE  Short'
<1>1. TypeOK /\ target.len \in Nat /\ calls \in Nat /\ Modulus \in Nat
  BY SMTT(30), BoundsAssumption DEF IInv, TypeOK, Header
<1>2. /\ IsFiniteSet(Adding) /\ Cardinality(Adding) \in Nat
      /\ IsFiniteSet(Adding') /\ Cardinality(Adding') \in Nat
  BY SubsetSize DEF Adding
<1>3. CASE CallAdd(t)
  <2>1. target' = target /\ calls' = calls - 1 /\ t \notin Adding /\ Adding' = Adding \cup {t}
    BY <1>1, <1>3 DEF TypeOK, CallAdd, Calls, Goto, Adding
  <2>2. Cardinality(Adding') = Cardinality(Adding) + 1
    BY <1>2, <2>1, FS_AddElement
  <2> QED
    BY <1>1, <1>2, <2>1, <2>2 DEF Short
<1>4. CASE Grow(t)
  <2>1. target'.len = target.len + 1 /\ calls' = calls
    BY <1>4, GrowList DEF Grow
  <2>2. t \in Adding /\ Adding' = Adding \ {t}
    BY <1>1, <1>4 DEF TypeOK, Grow, Entered, Goto, Adding, call
  <2>3. Cardinality(Adding') = Cardinality(Adding) - 1
    BY <1>2, <2>2, FS_RemoveElement
  <2> QED
    BY <1>1, <1>2, <2>1, <2>3 DEF Short
<1>5. CASE ~CallAdd(t) /\ ~Grow(t)
  <2>1. calls' \in Nat /\ calls' <= calls /\ Cardinality(Adding') <= Cardinality(Adding)
    BY <1>2, <1>5, AddingStays, FS_Subset
  <2>2. target'.len \in Nat /\ target'.len <= target.len
    <3>1. CASE RemoveFound(t)
      BY <1>1, <3>1, RemoveList
    <3>2. CASE Write(t)
      BY <1>1, <3>2 DEF Write
    <3>3. CASE ~RemoveFound(t) /\ ~Write(t)
      BY <1>1, <1>5, <3>3, ListStays
    <3> QED
      BY <3>1, <3>2, <3>3
  <2> QED
    BY <1>1, <1>2, <2>1, <2>2 DEF Short
<1> QED
  BY <1>3, <1>4, <1>5

\* Between two turns the counter is where the last of them left it, and a Next
\* that runs alone takes the place after it.
Turns ==
  /\ last <= target.len
  /\ kind = "roundRobin" /\ last # 0 /\ (\A t \in Threads : pc[t] \notin Turning) =>
       i = last % Modulus
  /\ \A t \in Threads :
       /\ pc[t] \in Turning /\ last # 0 => i < target.len
       /\ quiet[t] /\ pc[t] \in Choosing => readers = {t}
       /\ quiet[t] /\ pc[t] = "wrap" => at[t] = i
       /\ quiet[t] /\ pc[t] = "index" =>
            at[t] = i /\ (last # 0 => at[t] = last % target.len)
       /\ quiet[t] /\ pc[t] = "advance" =>
            i = at[t] - 1 /\ (last # 0 => at[t] = (last % target.len) + 1)

\* Only AdvanceI and a change of the list say where the last turn was.
LEMMA LastStays ==
  ASSUME IInv, NEW t \in Threads, Step(t), ~AdvanceI(t), ~Grow(t), ~Write(t), ~RemoveFound(t)
  PROVE  UNCHANGED <<last, kind, target>>
<1>1. UNCHANGED target
  BY ListStays
<1>2. UNCHANGED <<last, kind>>
  <2>1. CASE NextPanics(t) \/ IndexPanics(t) \/ Intn(t) \/ IntnRaced(t) \/ GetOne(t)
    <3>1. PICK k \in 0..target.len : Chooses(t, k)
      BY <2>1, ChoosesAt
    <3> QED
      BY <3>1 DEF Chooses
  <2>2. CASE CallsOfAdd(t)
    BY <2>2 DEF CallsOfAdd, AddOther, CallAdd, Scan, Refuse, ScanPanics, ScanEnds, AddReturns
  <2>3. CASE CallsOfRemove(t) \/ Lock(t) \/ Unlock(t)
    BY <2>3 DEF CallsOfRemove, CallRemove, RemoveMissing, Lock, Unlock
  <2>4. CASE RLock(t) \/ RLockWaits(t) \/ RUnlock(t) \/ LoadI(t) \/ StoreI(t) \/ ReadI(t) \/ EnterIntn(t)
    BY <2>4 DEF RLock, RLockWaits, RUnlock, LoadI, StoreI, ReadI, EnterIntn
  <2> QED
    BY <2>1, <2>2, <2>3, <2>4 DEF Step, CallsOfNext
<1> QED
  BY <1>1, <1>2

\* Only the calls of Next and the end of a change let a goroutine read; the
\* other steps of a goroutine leave what it says of its turn.
LEMMA TurnStarts ==
  ASSUME IInv, NEW t \in Threads, Step(t), ~StoreI(t), ~ReadI(t), ~AdvanceI(t), quiet'[t],
         \A u \in Threads : quiet[u] /\ pc[u] \in Choosing => readers = {u}
  PROVE  /\ pc'[t] \in Choosing => readers' = {t}
         /\ pc'[t] = "wrap" => at'[t] = i
         /\ pc'[t] \notin Turning
<1>1. TypeOK /\ Mutex
  BY DEF IInv
<1> USE DEF Goto, Choosing, Turning, mutex
<1>2. CASE RLock(t)
  BY <1>1, <1>2 DEF TypeOK, RLock, Calls, Mutex
<1>3. CASE NextPanics(t) \/ IndexPanics(t) \/ Intn(t) \/ IntnRaced(t) \/ GetOne(t)
  <2>1. PICK k \in 0..target.len : Chooses(t, k)
    BY <1>3, ChoosesAt
  <2>2. pc[t] \in Choosing
    BY <1>3 DEF NextPanics, IndexPanics, Intn, IntnRaced, GetOne, Loads
  <2> QED
    BY <1>1, <2>1, <2>2 DEF TypeOK, Chooses
<1>4. CASE LoadI(t) \/ EnterIntn(t)
  BY <1>1, <1>4 DEF TypeOK, LoadI, EnterIntn, Loads
<1>5. CASE RLockWaits(t) \/ RUnlock(t)
  BY <1>1, <1>5 DEF TypeOK, RLockWaits, RUnlock
<1>6. CASE CallsOfAdd(t)
  <2>1. pc'[t] \notin Choosing
    BY <1>1, <1>6 DEF TypeOK, CallsOfAdd, AddOther, CallAdd, Scan, Scanning, Refuse, ScanPanics,
                      ScanEnds, AddReturns, Grow, Write
  <2> QED
    BY <2>1
<1>7. CASE CallsOfRemove(t) \/ Lock(t) \/ Unlock(t)
  <2>1. pc'[t] \notin Choosing
    BY <1>1, <1>7 DEF TypeOK, CallsOfRemove, CallRemove, RemoveFound, RemoveMissing, Lock, Unlock
  <2> QED
    BY <2>1
<1> QED
  BY <1>2, <1>3, <1>4, <1>5, <1>6, <1>7 DEF Step, CallsOfNext

\* Only RLock, RUnlock and Unlock change who reads.
LEMMA ReadersStay ==
  ASSUME IInv, NEW t \in Threads, Step(t), ~RLock(t), ~RUnlock(t), ~Unlock(t)
  PROVE  readers' = readers
<1> USE DEF mutex
<1>1. CASE NextPanics(t) \/ IndexPanics(t) \/ Intn(t) \/ IntnRaced(t) \/ GetOne(t)
  <2>1. PICK k \in 0..target.len : Chooses(t, k)
    BY <1>1, ChoosesAt
  <2> QED
    BY <2>1 DEF Chooses
<1>2. CASE CallsOfAdd(t)
  BY <1>2 DEF CallsOfAdd, AddOther, CallAdd, Scan, Refuse, ScanPanics, ScanEnds, AddReturns,
              Grow, Write
<1>3. CASE CallsOfRemove(t) \/ Lock(t)
  BY <1>3 DEF CallsOfRemove, CallRemove, RemoveFound, RemoveMissing, Lock
<1>4. CASE RLockWaits(t) \/ LoadI(t) \/ StoreI(t) \/ ReadI(t) \/ AdvanceI(t) \/ EnterIntn(t)
  BY <1>4 DEF RLockWaits, LoadI, StoreI, ReadI, AdvanceI, EnterIntn
<1> QED
  BY <1>1, <1>2, <1>3, <1>4 DEF Step, CallsOfNext

\* A goroutine that reads alone goes on to do so, or is no longer quiet.
LEMMA AloneStays ==
  ASSUME IInv, NEW t \in Threads, Step(t), NEW u \in Threads \ {t}, quiet'[u], pc'[u] \in Choosing,
         quiet[u] /\ pc[u] \in Choosing => readers = {u}
  PROVE  readers' = {u} /\ (pc'[u] = pc[u] \/ pc'[u] = "load")
<1>1. TypeOK /\ Mutex
  BY DEF IInv
<1>2. CASE Unlock(t) /\ u \in waiting
  <2>1. readers' = waiting /\ quiet'[u] = (waiting = {u}) /\ pc'[u] = "load"
    BY <1>1, <1>2 DEF TypeOK, Unlock
  <2> QED
    BY <2>1
<1>3. CASE ~(Unlock(t) /\ u \in waiting)
  <2>1. pc'[u] = pc[u] /\ quiet[u]
    BY <1>1, <1>3, OthersStay DEF Mutex
  <2>2. readers = {u}
    BY <2>1
  <2>3. ~RLock(t)
    BY <1>1, <2>2 DEF TypeOK, RLock
  <2>4. ~RUnlock(t) /\ ~Unlock(t)
    BY <1>1, <2>2 DEF TypeOK, Mutex, Choosing, RUnlock, Unlock
  <2> QED
    BY <2>1, <2>2, <2>3, <2>4, ReadersStay
<1> QED
  BY <1>2, <1>3

\* The remainder of a last turn at the width of the counter is that turn, but
\* for a list as long as the counter is wide.
LEMMA LastRemainder ==
  ASSUME NEW m \in Nat \ {0}, NEW n \in Nat \ {0}, n <= m, NEW x \in Nat, x <= n
  PROVE  (x % m) % n = x % n
<1>1. CASE x < m
  BY <1>1
<1>2. CASE x = m
  <2>1. x = n /\ x % m = 0 /\ x % n = 0 /\ 0 % n = 0
    BY <1>2
  <2> QED
    BY <2>1
<1> QED
  BY <1>1, <1>2

LEMMA TurnsKeep ==
  ASSUME IInv, Short, Turns, NEW t \in Threads, Step(t)
  PROVE  Turns'
<1>1. TypeOK /\ Mutex /\ CallAt(t) /\ TypeOK'
  BY TypeKeeps DEF IInv
<1>2. /\ target.len \in Nat /\ target'.len \in Nat /\ last \in Nat /\ i \in Nat /\ at[t] \in Nat
      /\ Modulus \in Nat \ {0} /\ target.len <= Modulus
  <2>1. Cardinality(Adding) \in Nat
    BY SubsetSize DEF Adding
  <2>2. calls \in Nat /\ i \in Nat /\ Modulus \in Nat \ {0}
    BY <1>1, BoundsAssumption DEF TypeOK
  <2>3. target \in Header /\ target' \in Header /\ last \in Nat /\ at \in [Threads -> Nat]
    BY <1>1 DEF TypeOK
  <2>4. target.len \in Nat /\ target'.len \in Nat /\ at[t] \in Nat
    BY <2>3 DEF Header
  <2> QED
    BY <2>1, <2>2, <2>3, <2>4 DEF Short
<1>3. CASE Grow(t) \/ Write(t) \/ RemoveFound(t)
  <2>1. last' = 0
    BY <1>3 DEF Grow, Write, RemoveFound, Disturb
  <2>2. ASSUME NEW u \in Threads, quiet'[u] PROVE pc'[u] \notin Choosing
    BY <1>3, <2>2, DisturbsOthers DEF Choosing
  <2> QED
    BY <1>2, <2>1, <2>2 DEF Turns, Choosing
<1>4. CASE AdvanceI(t)
  <2>1. pc[t] = "advance" /\ pc' = [pc EXCEPT ![t] = "picked"] /\ t \in readers
        /\ UNCHANGED <<kind, target, quiet, at, readers>>
        /\ i' = (i + 1) % Modulus /\ last' = IF quiet[t] THEN at[t] ELSE 0
    BY <1>1, <1>4 DEF Mutex, AdvanceI, Goto, Choosing, call, mutex
  <2>2. quiet[t] => i + 1 = at[t] /\ at[t] <= target.len
    <3>1. at[t] \in Nat /\ at[t] <= target.len
      BY <1>1, <2>1 DEF CallAt, TypeOK
    <3>2. quiet[t] => i = at[t] - 1
      BY <1>2, <2>1 DEF Turns
    <3> QED
      BY <3>1, <3>2
  <2>3. last' <= target.len /\ (last' # 0 => i' = last' % Modulus)
    BY <1>2, <2>1, <2>2
  <2>4. ASSUME NEW u \in Threads, quiet'[u], pc'[u] \in Choosing PROVE readers' = {u} /\ u = t
    BY SMTT(30), <1>1, <2>1, <2>4 DEF Turns, Mutex, TypeOK, Choosing
  <2>5. pc'[t] = "picked"
    BY <1>1, <2>1 DEF TypeOK
  <2>6. ASSUME NEW u \in Threads, pc'[u] \in Turning PROVE last' = 0
    <3>1. u # t /\ u \in readers
      BY <1>1, <2>1, <2>5, <2>6 DEF TypeOK, Mutex, Choosing, Turning
    <3>2. ~quiet[t]
      BY <2>1, <3>1 DEF Turns, Choosing
    <3> QED
      BY <2>1, <3>2
  <2> QED
    BY <2>1, <2>3, <2>4, <2>5, <2>6 DEF Turns, Choosing, Turning
<1>5. CASE StoreI(t)
  <2>1. pc[t] = "wrap" /\ pc' = [pc EXCEPT ![t] = "index"] /\ t \in readers
        /\ UNCHANGED <<kind, target, quiet, readers, last>>
        /\ i' = at[t] % target.len /\ at' = [at EXCEPT ![t] = at[t] % target.len]
    BY <1>1, <1>5 DEF Mutex, StoreI, Goto, Choosing, mutex
  <2>2. target.len > 0 /\ kind = "roundRobin"
    BY <1>1, <2>1 DEF CallAt
  <2>3. pc'[t] = "index" /\ at'[t] = i' /\ i' \in Nat /\ i' < target.len
    <3>1. at[t] % target.len \in 0..target.len - 1
      BY <1>2, <2>2
    <3>2. i' \in Nat /\ i' < target.len
      BY <1>2, <2>1, <3>1
    <3>3. at \in [Threads -> Nat] /\ pc \in [Threads -> PCs]
      BY <1>1 DEF TypeOK
    <3>4. pc'[t] = "index" /\ at'[t] = i'
      BY <2>1, <3>3
    <3> QED
      BY <3>2, <3>4
  <2>4. ASSUME NEW u \in Threads, quiet'[u], pc'[u] \in Choosing PROVE readers' = {u} /\ u = t
    BY SMTT(30), <1>1, <2>1, <2>4 DEF Turns, Mutex, TypeOK, Choosing
  <2>5. ASSUME quiet[t], last # 0 PROVE i' = last % target.len
    <3>1. readers = {t} /\ at[t] = i
      BY <2>1, <2>5 DEF Turns, Choosing
    <3>2. \A u \in Threads : pc[u] \notin Turning
      BY <1>1, <2>1, <3>1 DEF Mutex, Choosing, Turning
    <3>3. i = last % Modulus /\ last <= target.len
      BY <2>2, <2>5, <3>2 DEF Turns
    <3>4. (last % Modulus) % target.len = last % target.len
      BY <1>2, <2>2, <3>3, LastRemainder
    <3> QED
      BY <2>1, <3>1, <3>3, <3>4
  <2>6. quiet'[t] => (last' # 0 => at'[t] = last' % target'.len)
    BY <2>1, <2>3, <2>5
  <2> QED
    BY <2>1, <2>3, <2>4, <2>6 DEF Turns, Choosing, Turning
<1>6. CASE ReadI(t)
  <2>1. PICK k \in {i, at[t]} : at' = [at EXCEPT ![t] = k + 1] /\ pc' = [pc EXCEPT ![t] = "advance"]
    BY <1>6, ReadAt
  <2>2. pc[t] = "index" /\ t \in readers /\ UNCHANGED <<i, kind, target, quiet, readers, last>>
    BY <1>1, <1>6 DEF Mutex, ReadI, Choosing, mutex
  <2>3. pc'[t] = "advance" /\ at'[t] = k + 1 /\ k \in Nat
    BY <1>1, <1>2, <2>1 DEF TypeOK
  <2>4. ASSUME NEW u \in Threads, quiet'[u], pc'[u] \in Choosing PROVE readers' = {u} /\ u = t
    BY SMTT(30), <1>1, <2>1, <2>2, <2>4 DEF Turns, Mutex, TypeOK, Choosing
  <2>5. quiet[t] => k = i /\ (last # 0 => k = last % target.len)
    BY <2>2 DEF Turns
  <2>6. quiet'[t] => i' = at'[t] - 1 /\ (last' # 0 => at'[t] = (last' % target'.len) + 1)
    BY <1>2, <2>2, <2>3, <2>5
  <2>7. \A u \in Threads : pc'[u] \in Turning <=> pc[u] \in Turning
    BY <1>1, <2>1, <2>2 DEF TypeOK, Turning
  <2> QED
    BY <2>2, <2>3, <2>4, <2>6, <2>7 DEF Turns, Choosing, Turning
<1>7. CASE ~Grow(t) /\ ~Write(t) /\ ~RemoveFound(t) /\ ~AdvanceI(t) /\ ~StoreI(t) /\ ~ReadI(t)
  <2>1. UNCHANGED <<last, kind, target, i>>
    BY <1>7, LastStays, CounterStays
  <2>2. ASSUME NEW u \in Threads \ {t}, quiet'[u], pc'[u] \in Choosing
        PROVE  readers' = {u} /\ at'[u] = at[u] /\ (pc'[u] # "load" => pc'[u] = pc[u] /\ quiet[u])
    <3>1. quiet[u] /\ pc[u] \in Choosing => readers = {u}
      BY DEF Turns
    <3> QED
      BY <2>2, <3>1, AloneStays, OthersStay
  <2>3. ASSUME quiet'[t]
        PROVE  /\ pc'[t] \in Choosing => readers' = {t}
               /\ pc'[t] = "wrap" => at'[t] = i
               /\ pc'[t] \notin Turning
    <3>1. \A u \in Threads : quiet[u] /\ pc[u] \in Choosing => readers = {u}
      BY DEF Turns
    <3> QED
      BY <1>7, <2>3, <3>1, TurnStarts
  <2>4. last # 0 => \A u \in Threads : pc'[u] \in Turning <=> pc[u] \in Turning
    <3>1. IndexPanics(t) => last = 0
      BY <1>2, <1>7, CounterStays DEF Turns, Turning
    <3> QED
      BY <1>7, <3>1, CounterStays
  <2>5. /\ last' <= target'.len
        /\ kind' = "roundRobin" /\ last' # 0 /\ (\A u \in Threads : pc'[u] \notin Turning) =>
             i' = last' % Modulus
    BY <2>1, <2>4 DEF Turns
  <2>6. ASSUME NEW u \in Threads
        PROVE  /\ pc'[u] \in Turning /\ last' # 0 => i' < target'.len
               /\ quiet'[u] /\ pc'[u] \in Choosing => readers' = {u}
               /\ quiet'[u] /\ pc'[u] = "wrap" => at'[u] = i'
               /\ quiet'[u] /\ pc'[u] = "index" =>
                    at'[u] = i' /\ (last' # 0 => at'[u] = last' % target'.len)
               /\ quiet'[u] /\ pc'[u] = "advance" =>
                    i' = at'[u] - 1 /\ (last' # 0 => at'[u] = (last' % target'.len) + 1)
    <3>1. pc'[u] \in Turning /\ last' # 0 => i' < target'.len
      BY <2>1, <2>4 DEF Turns
    <3>2. CASE u = t
      BY <2>1, <2>3, <3>1, <3>2 DEF Turning
    <3>3. CASE u # t
      BY <2>1, <2>2, <3>1, <3>3 DEF Turns, Choosing
    <3> QED
      BY <3>2, <3>3
  <2> QED
    BY <2>5, <2>6 DEF Turns
<1> QED
  BY <1>3, <1>4, <1>5, <1>6, <1>7

LEMMA TurnsInvariant == Spec => [](Short /\ Turns)
<1>1. Init => Short /\ Turns
  <2> SUFFICES ASSUME Init PROVE Short /\ Turns
    OBVIOUS
  <2>1. PICK s \in Initial : arrays = <<s>>
    BY DEF Init
  <2>2. Len(s) \in Nat /\ Len(s) + MaxCalls <= Modulus /\ target.len = Len(s)
    BY <2>1, InitialAssumption, LengthAssumption DEF Init
  <2>3. Adding = {}
    BY DEF Init, Adding
  <2>4. Short
    BY <2>2, <2>3, FS_EmptySet, BoundsAssumption DEF Init, Short
  <2> QED
    BY <2>2, <2>4 DEF Init, Turns, Choosing, Turning
<1>2. IInv /\ Short /\ Turns /\ [Next]_vars => (Short /\ Turns)'
  <2>1. ASSUME IInv, Short, Turns, NEW t \in Threads, Step(t) PROVE (Short /\ Turns)'
    BY <2>1, ShortKeeps, TurnsKeep
  <2>2. ASSUME Short, Turns, UNCHANGED vars PROVE (Short /\ Turns)'
    BY <2>2 DEF vars, mutex, call, Short, Adding, Turns
  <2> QED
    BY <2>1, <2>2 DEF Next, Terminated
<1> QED
  BY <1>1, <1>2, BalancerInvariant, PTL DEF Spec

\* Nexts that do not overlap take the targets in turn, for lists no longer
\* than the counter can count.  (proxy.go:98-105)
THEOREM RoundRobinRotates == Spec => []Rotation
<1>1. Turns => Rotation
  BY DEF Turns, Rotation
<1> QED
  BY <1>1, TurnsInvariant, PTL


-----------------------------------------------------------------------------
(* The weighted choice.                                                    *)

\* The sums of the weights.
LEMMA SumsOfWeights ==
  ASSUME NEW w \in Seq(Nat)
  PROVE  \E t \in [0..Len(w) -> Nat] :
           /\ \A j \in 0..Len(w) : SumTo(w, j) = t[j]
           /\ t[0] = 0
           /\ \A k \in 1..Len(w) : t[k] = t[k - 1] + w[k]
           /\ \A k \in 0..Len(w) : \A j \in 0..k : t[j] <= t[k]
<1> DEFINE Asked(t) == t = [k \in 0..Len(w) |-> IF k = 0 THEN 0 ELSE t[k - 1] + w[k]]
<1>1. PICK t : t = CHOOSE f : Asked(f)
  OBVIOUS
<1>2. \E f : Asked(f)
  BY SumsExist DEF AreSums
<1>3. AreSums(t, w)
  BY <1>1, <1>2, Zenon DEF AreSums
<1>4. \A j \in 0..Len(w) : SumTo(w, j) = t[j]
  BY <1>1, Zenon DEF SumTo
<1> HIDE DEF Asked
<1> QED
  BY <1>3, <1>4, SumsGrow

\* The draws that take the weight before k away and not the one of k choose k:
\* as many as the weight of k.
LEMMA ShareOfWeights ==
  ASSUME NEW w \in Seq(Nat), SumTo(w, Len(w)) > 0, NEW k \in 1..Len(w)
  PROVE  Cardinality({r \in Draws(w) : weightedChoiceOne(w, r) = k}) = w[k]
<1> PICK n \in Nat : n = Len(w) /\ DOMAIN w = 1..n
  OBVIOUS
<1>1. PICK t \in [0..n -> Nat] :
        /\ \A j \in 0..n : SumTo(w, j) = t[j]
        /\ t[0] = 0
        /\ \A m \in 1..n : t[m] = t[m - 1] + w[m]
        /\ \A m \in 0..n : \A j \in 0..m : t[j] <= t[m]
  BY SumsOfWeights
<1>2. /\ k \in Nat /\ k - 1 \in 0..n /\ k \in 0..n /\ n \in 0..n /\ t[n] \in Nat /\ t[n] > 0
      /\ t[k - 1] \in Nat /\ t[k] \in Nat /\ w[k] \in Nat /\ t[k] = t[k - 1] + w[k]
      /\ t[k] <= t[n]
  <2>1. k \in Nat /\ k - 1 \in 0..n /\ k \in 0..n /\ n \in 0..n
    OBVIOUS
  <2>2. t[n] \in Nat /\ t[k - 1] \in Nat /\ t[k] \in Nat
    BY <1>1, <2>1
  <2>3. t[n] > 0
    BY <1>1, <2>1
  <2>4. w[k] \in Nat /\ t[k] = t[k - 1] + w[k]
    BY <1>1
  <2>5. t[k] <= t[n]
    BY <1>1, <2>1
  <2> QED
    BY <2>1, <2>2, <2>3, <2>4, <2>5
<1>3. Draws(w) = 0..t[n] - 1
  <2>1. SumTo(w, n) = t[n]
    BY <1>1, <1>2
  <2> QED
    BY SMTT(30), <1>2, <2>1 DEF Draws
<1>4. ASSUME NEW r \in 0..t[n] - 1
      PROVE  weightedChoiceOne(w, r) = k <=> t[k - 1] <= r /\ r < t[k]
  <2> DEFINE S == {j \in 1..n : r - SumTo(w, j) < 0}
  <2>1. \A j \in 1..n : j \in S <=> r < t[j]
    <3> SUFFICES ASSUME NEW j \in 1..n PROVE j \in S <=> r < t[j]
      OBVIOUS
    <3>1. j \in 0..n /\ r \in Nat
      BY <1>2
    <3>2. SumTo(w, j) = t[j] /\ t[j] \in Nat
      BY <1>1, <3>1
    <3> QED
      BY <3>1, <3>2
  <2>2. n \in 1..n
    BY <1>2
  <2>3. S # {} /\ S \in SUBSET Nat /\ S \subseteq 1..n
    <3>1. S \subseteq 1..n
      OBVIOUS
    <3>2. r < t[n]
      <4>1. PICK sum \in Nat : sum = t[n]
        BY <1>2
      <4> QED
        BY <4>1
    <3>3. n \in S
      <4> HIDE DEF S
      <4> QED
        BY <2>1, <2>2, <3>2
    <3> HIDE DEF S
    <3> QED
      BY <3>1, <3>3
  <2>4. weightedChoiceOne(w, r) = First(S)
    BY <2>3 DEF weightedChoiceOne
  <2> HIDE DEF S
  <2>5. First(S) \in S /\ \A m \in S : First(S) <= m
    BY <2>3, FirstIsLeast
  <2>6. ASSUME First(S) = k PROVE t[k - 1] <= r /\ r < t[k]
    <3>1. r < t[k]
      BY <2>1, <2>5, <2>6
    <3>2. CASE k = 1
      BY <1>1, <3>1, <3>2
    <3>3. CASE k # 1
      <4>1. k - 1 \in 1..n /\ k - 1 \notin S
        BY <1>2, <2>5, <2>6, <3>3
      <4> QED
        BY SMTT(30), <1>2, <2>1, <3>1, <4>1
    <3> QED
      BY <3>2, <3>3
  <2>7. ASSUME t[k - 1] <= r, r < t[k] PROVE First(S) = k
    <3>1. k \in S
      BY <2>1, <2>7
    <3>2. ASSUME NEW m \in S PROVE k <= m
      <4> SUFFICES ASSUME m < k PROVE FALSE
        BY <2>3
      <4>1. m \in 0..k - 1 /\ m \in 1..n
        BY <2>3
      <4>2. t[m] <= t[k - 1] /\ t[m] \in Nat
        BY SMTT(30), <1>1, <1>2, <4>1
      <4>3. r < t[m]
        BY <2>1, <4>1
      <4> QED
        BY SMTT(30), <1>2, <2>7, <4>2, <4>3
    <3> QED
      BY SMTT(30), <2>3, <2>5, <3>1, <3>2
  <2> QED
    BY <2>4, <2>6, <2>7
<1>5. {r \in Draws(w) : weightedChoiceOne(w, r) = k} = t[k - 1]..t[k] - 1
  <2>1. \A r : r \in 0..t[n] - 1 /\ t[k - 1] <= r /\ r < t[k] <=> r \in t[k - 1]..t[k] - 1
    BY SMTT(30), <1>2
  <2> QED
    BY <1>3, <1>4, <2>1
<1>6. Cardinality(t[k - 1]..t[k] - 1) = w[k]
  <2>1. PICK a \in Int : a = t[k - 1]
    BY <1>2
  <2>2. PICK b \in Int : b = t[k] - 1
    BY <1>2
  <2>3. Cardinality(a..b) = IF a > b THEN 0 ELSE b - a + 1
    BY FS_Interval
  <2> QED
    BY SMTT(30), <1>2, <2>1, <2>2, <2>3
<1> QED
  BY <1>5, <1>6

\* The weighted balancer gives every target its share, whatever Adds and
\* Removes have made of the list. (utils.go:50-98)
THEOREM WeightsShared == Spec => []WeightShare
<1>1. IInv => WeightShare
  <2> SUFFICES ASSUME IInv, Settled, NEW w, w = Weights(List), SumTo(w, Len(w)) > 0,
                      NEW k \in DOMAIN w
               PROVE  Cardinality({r \in Draws(w) : weightedChoiceOne(w, r) = k}) = w[k]
    BY DEF WeightShare
  <2>1. TypeOK /\ Filled
    BY DEF IInv
  <2>2. PICK n \in Nat : /\ n = target.len /\ DOMAIN List = 1..n
                         /\ \A j \in 1..n : List[j] = arrays[target.arr][j]
    BY <2>1, ListCells
  <2>3. ASSUME NEW j \in 1..n PROVE Weight[List[j]] \in Nat
    <3>1. arrays[target.arr] \in Seq(Names \cup {None}) /\ j \in DOMAIN arrays[target.arr]
      BY <2>1, <2>2 DEF TypeOK, Header
    <3>2. arrays[target.arr][j] \in Names \cup {None}
      BY <3>1
    <3>3. arrays[target.arr][j] # None
      BY <2>1, <2>2 DEF Filled
    <3> QED
      BY <2>2, <3>2, <3>3, WeightAssumption
  <2>4. w = [j \in 1..n |-> Weight[List[j]]]
    BY <2>2 DEF Weights
  <2>5. w \in [1..n -> Nat]
    BY <2>3, <2>4
  <2>6. w \in Seq(Nat) /\ k \in 1..Len(w)
    BY <2>5
  <2> QED
    BY <2>6, ShareOfWeights
<1> QED
  BY <1>1, BalancerInvariant, PTL


-----------------------------------------------------------------------------
(* How often a name occurs in a list that changes.                         *)

\* Lists with the same cells count the same.
LEMMA OccursSame ==
  ASSUME NEW s, NEW r, NEW n \in Nat, DOMAIN s = 1..n, DOMAIN r = 1..n,
         \A k \in 1..n : r[k] = s[k], NEW x
  PROVE  Occurrences(r, x) = Occurrences(s, x)
<1>1. {k \in DOMAIN r : r[k] = x} = {k \in DOMAIN s : s[k] = x}
  OBVIOUS
<1> QED
  BY <1>1 DEF Occurrences

\* A target more at the end.
LEMMA OccursAppend ==
  ASSUME NEW s, NEW r, NEW n \in Nat, DOMAIN s = 1..n, DOMAIN r = 1..n + 1,
         \A k \in 1..n : r[k] = s[k], NEW x
  PROVE  /\ Occurrences(s, x) \in Nat
         /\ Occurrences(r, x) = IF r[n + 1] = x THEN Occurrences(s, x) + 1 ELSE Occurrences(s, x)
<1> DEFINE S == {k \in DOMAIN s : s[k] = x}
           R == {k \in DOMAIN r : r[k] = x}
<1>1. IsFiniteSet(S) /\ Cardinality(S) \in Nat
  <2>1. IsFiniteSet(1..n) /\ S \in SUBSET (1..n)
    BY FS_Interval
  <2> QED
    BY <2>1, FS_Subset, FS_CardinalityType
<1>2. R = IF r[n + 1] = x THEN S \cup {n + 1} ELSE S
  <2>1. \A k : k \in 1..n + 1 <=> k \in 1..n \/ k = n + 1
    OBVIOUS
  <2> QED
    BY <2>1
<1>3. n + 1 \notin S
  OBVIOUS
<1> HIDE DEF S, R
<1>4. Cardinality(R) = IF r[n + 1] = x THEN Cardinality(S) + 1 ELSE Cardinality(S)
  BY <1>1, <1>2, <1>3, FS_AddElement
<1> QED
  BY <1>1, <1>4 DEF S, R, Occurrences

\* r is s without its place k, the ones after it a place further in front.
Shifted(s, r, n, k) ==
  /\ n \in Nat /\ k \in 1..n /\ DOMAIN s = 1..n /\ DOMAIN r = 1..n - 1
  /\ \A m \in 1..n - 1 : r[m] = s[IF m < k THEN m ELSE m + 1]

LEMMA OccursRemove ==
  ASSUME NEW s, NEW r, NEW n, NEW k, Shifted(s, r, n, k), NEW x
  PROVE  /\ Occurrences(s, x) \in Nat /\ Occurrences(r, x) \in Nat
         /\ Occurrences(s, x) = IF s[k] = x THEN Occurrences(r, x) + 1 ELSE Occurrences(r, x)
<1> DEFINE S == {m \in DOMAIN s : s[m] = x}
           R == {m \in DOMAIN r : r[m] = x}
           came(m) == IF m < k THEN m ELSE m + 1
           f == [m \in R |-> came(m)]
<1> USE DEF Shifted
<1>1. IsFiniteSet(S) /\ Cardinality(S) \in Nat /\ IsFiniteSet(R) /\ Cardinality(R) \in Nat
  <2>1. IsFiniteSet(1..n) /\ S \in SUBSET (1..n)
    BY FS_Interval
  <2>2. n - 1 \in Int /\ R \in SUBSET (1..n - 1)
    OBVIOUS
  <2>3. IsFiniteSet(1..n - 1)
    BY <2>2, FS_Interval
  <2> HIDE DEF S, R
  <2> QED
    BY <2>1, <2>2, <2>3, FS_Subset, FS_CardinalityType
<1>2. ASSUME NEW m \in R PROVE f[m] \in S \ {k}
  <2>1. m \in 1..n - 1 /\ r[m] = x /\ f[m] = came(m)
    OBVIOUS
  <2>2. came(m) \in 1..n /\ came(m) # k
    BY <2>1
  <2> QED
    BY <2>1, <2>2
<1>3. ASSUME NEW l \in R, NEW m \in R, f[l] = f[m] PROVE l = m
  <2>1. l \in Int /\ m \in Int /\ came(l) = came(m)
    BY <1>3
  <2> QED
    BY <2>1
<1>4. ASSUME NEW j \in S \ {k} PROVE \E m \in R : f[m] = j
  <2> DEFINE m == IF j < k THEN j ELSE j - 1
  <2>1. j \in 1..n /\ s[j] = x /\ j # k
    OBVIOUS
  <2>2. m \in 1..n - 1 /\ came(m) = j
    BY <2>1
  <2>3. r[m] = x
    BY <2>1, <2>2
  <2> QED
    BY <2>2, <2>3
<1> HIDE DEF S, R
<1>5. f \in Bijection(R, S \ {k})
  BY <1>2, <1>3, <1>4 DEF Bijection, Injection, Surjection, IsInjective
<1>6. Cardinality(S \ {k}) = Cardinality(R)
  BY <1>1, <1>5, FS_Bijection DEF ExistsBijection
<1>7. Cardinality(S \ {k}) = IF k \in S THEN Cardinality(S) - 1 ELSE Cardinality(S)
  BY <1>1, FS_RemoveElement
<1>8. k \in S <=> s[k] = x
  BY DEF S
<1>9. Cardinality(S) = IF s[k] = x THEN Cardinality(R) + 1 ELSE Cardinality(R)
  BY <1>1, <1>6, <1>7, <1>8
<1> QED
  BY <1>1, <1>9 DEF S, R, Occurrences

-----------------------------------------------------------------------------
(* What the steps do to the registry.                                      *)

\* The list as far as its targets are registered.
SettledList == IF Settled THEN List ELSE SubSeq(List, 1, target.len - 1)

Answer(t) == IF pc[t] = "picked" /\ at[t] > 0 THEN List[at[t]] ELSE None

\* The settled list is the list, up to the place that an Add is about to write.
SettledSound ==
  LET n == IF Settled THEN target.len ELSE target.len - 1
  IN  /\ n \in Nat /\ DOMAIN SettledList = 1..n
      /\ \A k \in 1..n : SettledList[k] = arrays[target.arr][k]

LEMMA SettledCells == IInv => SettledSound
<1> SUFFICES ASSUME IInv PROVE SettledSound
  OBVIOUS
<1>1. TypeOK /\ arrays[target.arr] \in Seq(Names \cup {None}) /\ target.len <= Len(arrays[target.arr])
      /\ target.len \in Nat
  BY DEF IInv, TypeOK, Header
<1>2. List \in Seq(Names \cup {None})
  BY <1>1 DEF List
<1>3. CASE Settled
  BY <1>1, <1>3, ListCells DEF SettledList, SettledSound
<1>4. CASE ~Settled
  <2>1. target.len > 0
    BY <1>4 DEF IInv, CallAt, Settled
  <2>2. target.len - 1 \in Nat /\ target.len - 1 <= Len(List) /\ Len(List) = target.len
    BY <1>1, <2>1, ListCells
  <2>3. /\ DOMAIN SubSeq(List, 1, target.len - 1) = 1..target.len - 1
        /\ \A k \in 1..target.len - 1 : SubSeq(List, 1, target.len - 1)[k] = List[k]
    BY <1>2, <2>2
  <2>4. \A k \in 1..target.len - 1 : List[k] = arrays[target.arr][k]
    BY <1>1, ListCells
  <2> QED
    BY <1>4, <2>2, <2>3, <2>4 DEF SettledList, SettledSound
<1> QED
  BY <1>3, <1>4

\* The same after a step.
LEMMA SettledCellsAfter == IInv' => SettledSound'
BY SettledCells, PTL

LEMMA RegisteredIs ==
  /\ Registered = [x \in Names |-> Occurrences(SettledList, x)]
  /\ Registered' = [x \in Names |-> Occurrences(SettledList', x)]
BY DEF Registered, SettledList

\* The counts stay when a step leaves the settled targets alone.
LEMMA RegisteredSame ==
  ASSUME IInv, IInv', NEW n \in Nat,
         n = IF Settled THEN target.len ELSE target.len - 1,
         n = IF Settled' THEN target'.len ELSE target'.len - 1,
         \A k \in 1..n : arrays'[target'.arr][k] = arrays[target.arr][k]
  PROVE  Registered' = Registered
<1>1. DOMAIN SettledList = 1..n /\ \A k \in 1..n : SettledList[k] = arrays[target.arr][k]
  BY SettledCells DEF SettledSound
<1>2. DOMAIN SettledList' = 1..n /\ \A k \in 1..n : SettledList'[k] = arrays'[target'.arr][k]
  BY SettledCellsAfter DEF SettledSound
<1>3. \A k \in 1..n : SettledList'[k] = SettledList[k]
  BY <1>1, <1>2
<1>4. ASSUME NEW x \in Names PROVE Occurrences(SettledList', x) = Occurrences(SettledList, x)
  BY <1>1, <1>2, <1>3, OccursSame
<1> QED
  BY <1>4, RegisteredIs

\* Write registers the target of its Add.
LEMMA RegisteredWrite ==
  ASSUME IInv, IInv', NEW t \in Threads, Write(t)
  PROVE  Registered' = [Registered EXCEPT ![name[t]] = @ + 1]
<1>1. TypeOK /\ Mutex /\ CallAt(t) /\ target.len \in Nat /\ pc \in [Threads -> PCs]
  BY DEF IInv, TypeOK, Header
<1>2. pc[t] = "write" /\ pc' = [pc EXCEPT ![t] = "unlock"] /\ target' = target
  BY <1>1 DEF Write, Goto
<1>3. target.len > 0 /\ target.len - 1 \in Nat
  BY <1>1, <1>2 DEF CallAt
<1>4. ~Settled /\ Settled'
  BY <1>1, <1>2 DEF Settled, Mutex, Writing
<1>5. /\ name[t] \in Names
      /\ \A k \in 1..target.len :
           arrays'[target.arr][k] = IF k = target.len THEN name[t] ELSE arrays[target.arr][k]
  BY WriteList
<1> DEFINE n == target.len - 1
<1>6. DOMAIN SettledList = 1..n /\ \A k \in 1..n : SettledList[k] = arrays[target.arr][k]
  BY <1>4, SettledCells DEF SettledSound
<1>7. DOMAIN SettledList' = 1..target.len
      /\ \A k \in 1..target.len : SettledList'[k] = arrays'[target.arr][k]
  BY <1>2, <1>4, SettledCellsAfter DEF SettledSound
<1>8. n \in Nat /\ n + 1 = target.len /\ DOMAIN SettledList' = 1..n + 1
  BY <1>1, <1>3, <1>7
<1>9. \A k \in 1..n : SettledList'[k] = SettledList[k]
  BY <1>1, <1>3, <1>5, <1>6, <1>7
<1>10. SettledList'[n + 1] = name[t]
  BY <1>1, <1>3, <1>5, <1>7
<1> HIDE DEF n
<1>11. ASSUME NEW x \in Names
       PROVE  Occurrences(SettledList', x) =
                IF name[t] = x THEN Occurrences(SettledList, x) + 1 ELSE Occurrences(SettledList, x)
  <2>1. Occurrences(SettledList', x) =
          IF SettledList'[n + 1] = x THEN Occurrences(SettledList, x) + 1 ELSE Occurrences(SettledList, x)
    BY <1>6, <1>8, <1>9, OccursAppend
  <2> QED
    BY <1>10, <2>1
<1> QED
  BY <1>5, <1>11, RegisteredIs

\* RemoveFound takes one target of its name away.
LEMMA RegisteredRemove ==
  ASSUME IInv, IInv', NEW t \in Threads, RemoveFound(t)
  PROVE  /\ name[t] \in Names
         /\ Registered' = [Registered EXCEPT ![name[t]] = IF @ > 0 THEN @ - 1 ELSE 0]
<1>1. TypeOK /\ Mutex /\ Filled /\ target.len \in Nat /\ pc \in [Threads -> PCs]
  BY DEF IInv, TypeOK, Header
<1>2. pc[t] = "drain" /\ pc' = [pc EXCEPT ![t] = "unlock"] /\ op[t] = "Remove"
  BY <1>1 DEF RemoveFound, Entered, Goto
<1>3. Settled /\ Settled'
  BY <1>1, <1>2 DEF Settled, Mutex, Writing
<1>4. PICK k \in 1..target.len :
        /\ arrays[target.arr][k] = name[t]
        /\ target' = [arr |-> target.arr, len |-> target.len - 1]
        /\ \A m \in 1..target.len - 1 :
             arrays'[target.arr][m] = arrays[target.arr][IF m < k THEN m ELSE m + 1]
  BY RemoveList
<1>5. name[t] \in Names
  BY <1>2 DEF IInv, CallAt
<1> DEFINE n == target.len
<1>6. DOMAIN SettledList = 1..n /\ \A m \in 1..n : SettledList[m] = arrays[target.arr][m]
  BY <1>3, SettledCells DEF SettledSound
<1>7. DOMAIN SettledList' = 1..n - 1
      /\ \A m \in 1..n - 1 : SettledList'[m] = arrays'[target.arr][m]
  BY <1>3, <1>4, SettledCellsAfter DEF SettledSound
<1>8. n \in Nat /\ k \in 1..n /\ SettledList[k] = name[t]
  BY <1>1, <1>4, <1>6
<1>9. Shifted(SettledList, SettledList', n, k)
  BY <1>1, <1>4, <1>6, <1>7 DEF Shifted
<1> HIDE DEF n
<1>10. ASSUME NEW x \in Names
       PROVE  /\ Occurrences(SettledList', x) \in Nat
              /\ Occurrences(SettledList, x) =
                   IF name[t] = x THEN Occurrences(SettledList', x) + 1 ELSE Occurrences(SettledList', x)
  <2>1. /\ Occurrences(SettledList', x) \in Nat
        /\ Occurrences(SettledList, x) =
             IF SettledList[k] = x THEN Occurrences(SettledList', x) + 1 ELSE Occurrences(SettledList', x)
    BY <1>9, OccursRemove
  <2> QED
    BY <1>8, <2>1
<1>11. ASSUME NEW x \in Names
       PROVE  Occurrences(SettledList', x) =
                IF name[t] = x
                THEN IF Occurrences(SettledList, x) > 0 THEN Occurrences(SettledList, x) - 1 ELSE 0
                ELSE Occurrences(SettledList, x)
  BY <1>10
<1> QED
  BY <1>5, <1>11, RegisteredIs

\* Only Write and RemoveFound change what is registered.
LEMMA RegisteredStays ==
  ASSUME IInv, IInv', NEW t \in Threads, Step(t), ~Write(t), ~RemoveFound(t)
  PROVE  Registered' = Registered
<1>1. TypeOK /\ Mutex /\ target.len \in Nat /\ pc \in [Threads -> PCs]
  BY DEF IInv, TypeOK, Header
<1>2. CASE Grow(t)
  <2>1. pc[t] = "drain" /\ pc' = [pc EXCEPT ![t] = "write"]
    BY <1>2 DEF Grow, Entered, Goto
  <2>2. Settled /\ ~Settled'
    BY <1>1, <2>1 DEF Settled, Mutex, Writing
  <2>3. target'.len = target.len + 1
        /\ \A k \in 1..target.len : arrays'[target'.arr][k] = arrays[target.arr][k]
    BY <1>2, GrowList
  <2>4. target'.len - 1 = target.len
    BY <1>1, <2>3
  <2> QED
    BY <1>1, <2>2, <2>3, <2>4, RegisteredSame
<1>3. CASE ~Grow(t)
  <2>1. UNCHANGED <<arrays, target>> /\ (Settled' <=> Settled)
    BY <1>3, ListStays DEF Settled
  <2>2. SettledSound
    BY SettledCells
  <2>3. PICK n \in Nat : n = IF Settled THEN target.len ELSE target.len - 1
    BY <2>2 DEF SettledSound
  <2> QED
    BY <2>1, <2>3, RegisteredSame
<1> QED
  BY <1>2, <1>3

-----------------------------------------------------------------------------
(* The calls, as Registry sees them.                                       *)

Phases  == [t \in Threads |-> Phase(t)]
Answers == [t \in Threads |-> Answer(t)]

\* A step is of one call: what the others are at, and what they answer, stays.
LEMMA OthersAnswer ==
  ASSUME IInv, NEW t \in Threads, Step(t), NEW u \in Threads \ {t}
  PROVE  Phase(u)' = Phase(u) /\ Answer(u)' = Answer(u)
<1>1. Mutex /\ TypeOK
  BY DEF IInv
<1>2. UNCHANGED at[u] /\ (pc'[u] = pc[u] \/ (pc[u] = "rwait" /\ pc'[u] = "load"))
  BY OthersStay
<1>3. pc[u] = "picked" => UNCHANGED <<arrays, target>>
  <2>1. pc[u] = "picked" => readers # {}
    BY <1>1 DEF Mutex, Choosing
  <2>2. Grow(t) \/ Write(t) \/ RemoveFound(t) => readers = {}
    BY <1>1 DEF Mutex, Grow, Write, RemoveFound, Entered
  <2> QED
    BY <2>1, <2>2, ListStays
<1>4. Phase(u)' = Phase(u)
  BY <1>2 DEF Phase
<1>5. Answer(u)' = Answer(u)
  BY <1>2, <1>3 DEF Answer, List
<1> QED
  BY <1>4, <1>5

LEMMA CallMoves ==
  ASSUME IInv, NEW t \in Threads, Step(t)
  PROVE  /\ Phases' = [Phases EXCEPT ![t] = Phase(t)']
         /\ Answers' = [Answers EXCEPT ![t] = Answer(t)']
<1>1. \A u \in Threads \ {t} : Phase(u)' = Phase(u) /\ Answer(u)' = Answer(u)
  BY OthersAnswer
<1>2. Phases' = [u \in Threads |-> Phase(u)'] /\ Answers' = [u \in Threads |-> Answer(u)']
  BY DEF Phases, Answers
<1>3. [Phases EXCEPT ![t] = Phase(t)'] = [u \in Threads |-> IF u = t THEN Phase(t)' ELSE Phase(u)]
  BY DEF Phases
<1>4. [Answers EXCEPT ![t] = Answer(t)'] = [u \in Threads |-> IF u = t THEN Answer(t)' ELSE Answer(u)]
  BY DEF Answers
<1> HIDE DEF Phase, Answer
<1> QED
  BY <1>1, <1>2, <1>3, <1>4

\* The Nexts under way that another has overlapped.
Raced == {t \in Threads : pc[t] \in Choosing /\ ~quiet[t]}

\* Only the lock makes a Next meet another, or lets one go.
LEMMA RacedStays ==
  ASSUME IInv, IInv', NEW t \in Threads, Step(t), ~RLock(t), ~RUnlock(t), ~Unlock(t)
  PROVE  Raced' = Raced
<1>1. readers' = readers
  BY ReadersStay
<1>2. Mutex /\ Mutex' /\ TypeOK
  BY DEF IInv
<1>3. Raced = {u \in readers : ~quiet[u]} /\ Raced' = {u \in readers' : ~quiet'[u]}
  <2>1. readers \subseteq Threads /\ readers' \subseteq Threads
    BY <1>1, <1>2 DEF TypeOK
  <2>2. \A u \in Threads : (pc[u] \in Choosing <=> u \in readers)
                         /\ (pc'[u] \in Choosing <=> u \in readers')
    BY <1>2 DEF Mutex, Choosing
  <2> QED
    BY <2>1, <2>2 DEF Raced, Choosing
<1>4. \A u \in readers : quiet'[u] = quiet[u]
  <2> USE DEF Goto, call
  <2>1. CASE Grow(t) \/ Write(t) \/ RemoveFound(t)
    BY <1>2, <2>1 DEF Mutex, Grow, Write, RemoveFound, Entered
  <2>2. CASE CallAdd(t) \/ AddReturns(t)
    <3>1. t \notin readers
      BY <1>2, <2>2 DEF Mutex, Choosing, CallAdd, Calls, AddReturns
    <3> QED
      BY <1>2, <2>2, <3>1 DEF TypeOK, CallAdd, AddReturns
  <2>3. CASE AddOther(t) \/ Scan(t) \/ Refuse(t) \/ ScanPanics(t) \/ ScanEnds(t)
    BY <2>3 DEF AddOther, Scan, Refuse, ScanPanics, ScanEnds
  <2>4. CASE CallRemove(t) \/ RemoveMissing(t) \/ Lock(t)
    BY <2>4 DEF CallRemove, RemoveMissing, Lock
  <2>5. CASE NextPanics(t) \/ IndexPanics(t) \/ Intn(t) \/ IntnRaced(t) \/ GetOne(t)
    <3>1. PICK k \in 0..target.len : Chooses(t, k)
      BY <2>5, ChoosesAt
    <3> QED
      BY <3>1 DEF Chooses
  <2>6. CASE RLockWaits(t) \/ LoadI(t) \/ StoreI(t) \/ ReadI(t) \/ AdvanceI(t) \/ EnterIntn(t)
    BY <2>6 DEF RLockWaits, LoadI, StoreI, ReadI, AdvanceI, EnterIntn
  <2> QED
    BY <2>1, <2>2, <2>3, <2>4, <2>5, <2>6 DEF Step, CallsOfAdd, CallsOfRemove, CallsOfNext
<1> QED
  BY <1>1, <1>3, <1>4

\* A Next is raced only by another that is under way with it.
LEMMA RacedMeet ==
  ASSUME IInv, IInv', NEW t \in Threads, Step(t)
  PROVE  Abstract!Meetings
<1>1. Mutex /\ Mutex' /\ TypeOK /\ TypeOK' /\ \A u \in Threads : CallAt(u)'
  BY DEF IInv
<1>2. ASSUME NEW u \in readers' PROVE u \in Threads /\ Phase(u)' # "idle" /\ op'[u] = "Next"
  <2>1. u \in Threads /\ pc'[u] \in Choosing
    BY <1>1 DEF TypeOK, Mutex, Choosing
  <2>2. op'[u] = "Next"
    BY <1>1, <2>1 DEF CallAt, Choosing
  <2> QED
    BY <2>1, <2>2 DEF Phase, Choosing
<1>3. ASSUME NEW u \in Raced' PROVE u \in readers' /\ (u \in Raced \/ \E v \in readers' : v # u)
  <2>1. u \in Threads /\ u \in readers' /\ ~quiet'[u]
    BY <1>1 DEF Raced, Mutex, Choosing
  <2>2. CASE RLock(t)
    <3>1. readers' = readers \cup {t} /\ t \notin readers
          /\ quiet' = [v \in Threads |-> IF v = t THEN readers = {}
                                         ELSE quiet[v] /\ v \notin readers]
      BY <1>1, <2>2 DEF RLock, Calls, Mutex, Choosing
    <3>2. CASE u = t
      <4>1. readers # {}
        BY <2>1, <3>1, <3>2
      <4> QED
        BY <2>1, <3>1, <3>2, <4>1
    <3>3. CASE u # t
      BY <2>1, <3>1, <3>3
    <3> QED
      BY <3>2, <3>3
  <2>3. CASE Unlock(t)
    <3>1. readers' = waiting /\ (u \in waiting => quiet'[u] = (waiting = {u}))
      BY <2>1, <2>3 DEF Unlock
    <3> QED
      BY <2>1, <3>1
  <2>4. CASE RUnlock(t)
    <3>1. readers' = readers \ {t} /\ u # t /\ quiet'[u] = quiet[u]
      BY <1>1, <2>1, <2>4 DEF RUnlock, TypeOK
    <3>2. pc[u] \in Choosing
      BY <1>1, <2>1, <3>1 DEF Mutex, Choosing
    <3> QED
      BY <2>1, <3>1, <3>2 DEF Raced
  <2>5. CASE ~RLock(t) /\ ~Unlock(t) /\ ~RUnlock(t)
    BY <2>1, <2>5, RacedStays
  <2> QED
    BY <2>2, <2>3, <2>4, <2>5
<1>4. readers' \subseteq {u \in Threads : Phases'[u] # "idle" /\ op'[u] = "Next"}
  BY <1>2 DEF Phases
<1> QED
  BY <1>3, <1>4 DEF Abstract!Meetings, Abstract!Nexts, Raced, Phases

\* How a step moves the call of t.
Moves(t, p, a) ==
  /\ UNCHANGED kind
  /\ Phases' = [Phases EXCEPT ![t] = p]
  /\ Answers' = [Answers EXCEPT ![t] = a]

\* The steps of Registry, in terms of the call of t and of the list.
LEMMA MapCall ==
  ASSUME NEW t \in Threads, Moves(t, "called", Answer(t)), Phase(t) = "idle", Registered' = Registered,
         \/ \E o \in {"Add", "Remove"}, n \in Names :
              op' = [op EXCEPT ![t] = o] /\ name' = [name EXCEPT ![t] = n]
         \/ op' = [op EXCEPT ![t] = "Next"] /\ name' = name
  PROVE  Abstract!Call(t)
<1>1. Answers' = Answers
  BY DEF Moves, Answers
<1> QED
  BY <1>1 DEF Moves, Phases, Answers, Answer, Abstract!Call

LEMMA MapAdd ==
  ASSUME NEW t \in Threads, Moves(t, "done", Answer(t)), Phase(t) = "called", op[t] = "Add",
         UNCHANGED <<op, name>>, Registered' = [Registered EXCEPT ![name[t]] = @ + 1]
  PROVE  Abstract!Add(t)
<1>1. Answers' = Answers
  BY DEF Moves, Answers
<1> QED
  BY <1>1 DEF Moves, Phases, Answers, Answer, Abstract!Add, Abstract!Does

LEMMA MapRefuse ==
  ASSUME NEW t \in Threads, Moves(t, "done", Answer(t)), Phase(t) = "called", op[t] = "Add",
         UNCHANGED <<op, name>>, Registered' = Registered
  PROVE  Abstract!Refuse(t)
<1>1. Answers' = Answers
  BY DEF Moves, Answers
<1> QED
  BY <1>1 DEF Moves, Phases, Answers, Answer, Abstract!Refuse, Abstract!Does

LEMMA MapRemove ==
  ASSUME NEW t \in Threads, Moves(t, "done", Answer(t)), Phase(t) = "called", op[t] = "Remove",
         UNCHANGED <<op, name>>,
         Registered' = [Registered EXCEPT ![name[t]] = IF @ > 0 THEN @ - 1 ELSE 0]
  PROVE  Abstract!Remove(t)
<1>1. Answers' = Answers
  BY DEF Moves, Answers
<1> QED
  BY <1>1 DEF Moves, Phases, Answers, Answer, Abstract!Remove, Abstract!Does

LEMMA MapAnswer ==
  ASSUME NEW t \in Threads, NEW n \in Names, Moves(t, "done", n), Registered[n] > 0,
         Phase(t) = "called", op[t] = "Next", UNCHANGED <<op, name>>, Registered' = Registered
  PROVE  Abstract!Next1(t)
BY DEF Moves, Phases, Answers, Answer, Abstract!Next1, Abstract!Does

LEMMA MapPanic ==
  ASSUME NEW t \in Threads, Moves(t, "done", Answer(t)), Phase(t) = "called", op[t] = "Next",
         UNCHANGED <<op, name>>, Registered' = Registered,
         kind = "static" \/ t \notin Raced => \A n \in Names : Registered[n] = 0
  PROVE  Abstract!Next1(t)
<1>1. Answers' = Answers
  BY DEF Moves, Answers
<1> QED
  BY <1>1 DEF Moves, Phases, Answers, Answer, Raced, Abstract!Next1, Abstract!Does

LEMMA MapReturn ==
  ASSUME NEW t \in Threads, Moves(t, "idle", None), Phase(t) = "done", Registered' = Registered,
         op' = [op EXCEPT ![t] = "Next"], name' = [name EXCEPT ![t] = None]
  PROVE  Abstract!Return(t)
BY DEF Moves, Phases, Answers, Answer, Abstract!Return

LEMMA MapStutter ==
  ASSUME NEW t \in Threads, Moves(t, Phase(t), Answer(t)), UNCHANGED <<op, name>>,
         Registered' = Registered, Raced' = Raced
  PROVE  UNCHANGED Abstract!vars
<1>1. Answers' = Answers /\ Phases' = Phases
  BY DEF Moves, Answers, Phases
<1> QED
  BY <1>1 DEF Moves, Phases, Answers, Answer, Raced, Abstract!vars

\* What a step makes of its call is how it moves it.
LEMMA Moved ==
  ASSUME IInv, NEW t \in Threads, Step(t), NEW p, NEW a, Phase(t)' = p, Answer(t)' = a
  PROVE  Moves(t, p, a)
<1>1. UNCHANGED kind
  <2>1. CASE NextPanics(t) \/ IndexPanics(t) \/ Intn(t) \/ IntnRaced(t) \/ GetOne(t)
    <3>1. PICK k \in 0..target.len : Chooses(t, k)
      BY <2>1, ChoosesAt
    <3> QED
      BY <3>1 DEF Chooses
  <2>2. CASE AdvanceI(t) \/ Grow(t) \/ Write(t) \/ RemoveFound(t)
    BY <2>2 DEF AdvanceI, Grow, Write, RemoveFound
  <2>3. CASE ~AdvanceI(t) /\ ~Grow(t) /\ ~Write(t) /\ ~RemoveFound(t)
    BY <2>3, LastStays
  <2> QED
    BY <2>1, <2>2, <2>3
<1> QED
  BY <1>1, CallMoves DEF Moves

\* Add: the call, the refusal or the write, and the return.
LEMMA AddMaps ==
  ASSUME IInv, IInv', NEW t \in Threads, Step(t), CallsOfAdd(t)
  PROVE  Abstract!Call(t) \/ Abstract!Step(t) \/ UNCHANGED Abstract!vars
<1>1. pc \in [Threads -> PCs] /\ CallAt(t)
  BY DEF IInv, TypeOK
<1> USE DEF Goto, call
<1>2. CASE Write(t)
  <2>1. pc[t] = "write" /\ pc'[t] = "unlock" /\ UNCHANGED <<op, name>> /\ op[t] = "Add"
    BY <1>1, <1>2 DEF Write, CallAt
  <2>2. Phase(t) = "called" /\ Phase(t)' = "done" /\ Answer(t)' = Answer(t)
    BY <2>1 DEF Phase, Answer
  <2>3. Moves(t, "done", Answer(t))
    BY <2>2, Moved
  <2> QED
    BY <1>2, <2>1, <2>2, <2>3, RegisteredWrite, MapAdd DEF Abstract!Step
<1>3. CASE ~Write(t)
  <2>1. Registered' = Registered
    <3>1. ~RemoveFound(t)
      BY <1>1 DEF CallsOfAdd, AddOther, CallAdd, Calls, Scan, Scanning, Refuse, ScanPanics, ScanEnds,
                  AddReturns, Grow, Write, RemoveFound, Entered
    <3> QED
      BY <1>3, <3>1, RegisteredStays
  <2>2. CASE CallAdd(t)
    <3>1. PICK n \in Names : pc[t] = "idle" /\ pc'[t] = "scan"
            /\ op' = [op EXCEPT ![t] = "Add"] /\ name' = [name EXCEPT ![t] = n]
      BY <1>1, <2>2 DEF CallAdd, Calls
    <3>2. Phase(t) = "idle" /\ Phase(t)' = "called" /\ Answer(t)' = Answer(t)
      BY <3>1 DEF Phase, Answer
    <3>3. Moves(t, "called", Answer(t))
      BY <3>2, Moved
    <3> QED
      BY <2>1, <3>1, <3>2, <3>3, MapCall
  <2>3. CASE Refuse(t) \/ ScanPanics(t)
    <3>1. pc[t] = "scan" /\ pc'[t] \in {"refused", "panic"} /\ UNCHANGED <<op, name>> /\ op[t] = "Add"
      BY <1>1, <2>3 DEF Refuse, ScanPanics, Scanning, CallAt
    <3>2. Phase(t) = "called" /\ Phase(t)' = "done" /\ Answer(t)' = Answer(t)
      BY <3>1 DEF Phase, Answer
    <3>3. Moves(t, "done", Answer(t))
      BY <3>2, Moved
    <3> QED
      BY <2>1, <3>1, <3>2, <3>3, MapRefuse DEF Abstract!Step
  <2>4. CASE AddReturns(t)
    <3>1. pc[t] \in {"refused", "panic"} /\ pc'[t] = "idle"
          /\ op' = [op EXCEPT ![t] = "Next"] /\ name' = [name EXCEPT ![t] = None]
      BY <1>1, <2>4 DEF AddReturns, Forget
    <3>2. Phase(t) = "done" /\ Phase(t)' = "idle" /\ Answer(t)' = None
      BY <3>1 DEF Phase, Answer
    <3>3. Moves(t, "idle", None)
      BY <3>2, Moved
    <3> QED
      BY <2>1, <3>1, <3>2, <3>3, MapReturn DEF Abstract!Step
  <2>5. CASE AddOther(t) \/ Scan(t) \/ ScanEnds(t) \/ Grow(t)
    <3>1. UNCHANGED <<op, name>> /\ (pc' = pc \/ (pc[t] = "scan" /\ pc'[t] = "lock")
                                              \/ (pc[t] = "drain" /\ pc'[t] = "write"))
          /\ pc[t] # "picked"
      BY <1>1, <2>5 DEF AddOther, Scan, Scanning, ScanEnds, Grow, Entered
    <3>2. Phase(t)' = Phase(t) /\ Answer(t)' = Answer(t)
      BY <3>1 DEF Phase, Answer
    <3>3. Moves(t, Phase(t), Answer(t))
      BY <3>2, Moved
    <3>4. ~RLock(t) /\ ~RUnlock(t) /\ ~Unlock(t)
      BY <1>1, <2>5 DEF AddOther, Scan, Scanning, ScanEnds, Grow, Entered, RLock, Calls, RUnlock, Unlock
    <3> QED
      BY <2>1, <3>1, <3>3, <3>4, RacedStays, MapStutter
  <2> QED
    BY <1>3, <2>2, <2>3, <2>4, <2>5 DEF CallsOfAdd
<1> QED
  BY <1>2, <1>3

\* Remove: the call, and the removal.
LEMMA RemoveMaps ==
  ASSUME IInv, IInv', NEW t \in Threads, Step(t), CallsOfRemove(t)
  PROVE  Abstract!Call(t) \/ Abstract!Step(t) \/ UNCHANGED Abstract!vars
<1>1. pc \in [Threads -> PCs] /\ CallAt(t) /\ TypeOK /\ Mutex
  BY DEF IInv, TypeOK
<1> USE DEF Goto, call
<1>2. CASE CallRemove(t)
  <2>1. PICK n \in Names : pc[t] = "idle" /\ pc'[t] = "lock"
          /\ op' = [op EXCEPT ![t] = "Remove"] /\ name' = [name EXCEPT ![t] = n]
    BY <1>1, <1>2 DEF CallRemove, Calls
  <2>2. Phase(t) = "idle" /\ Phase(t)' = "called" /\ Answer(t)' = Answer(t)
    BY <2>1 DEF Phase, Answer
  <2>3. Moves(t, "called", Answer(t))
    BY <2>2, Moved
  <2>4. Registered' = Registered
    BY <2>1, RegisteredStays DEF Write, RemoveFound, Entered
  <2> QED
    BY <2>1, <2>2, <2>3, <2>4, MapCall
<1>3. CASE RemoveFound(t) \/ RemoveMissing(t)
  <2>1. pc[t] = "drain" /\ pc'[t] = "unlock" /\ op[t] = "Remove" /\ UNCHANGED <<op, name>>
    BY <1>1, <1>3 DEF RemoveFound, RemoveMissing, Entered
  <2>2. Phase(t) = "called" /\ Phase(t)' = "done" /\ Answer(t)' = Answer(t)
    BY <2>1 DEF Phase, Answer
  <2>3. Moves(t, "done", Answer(t))
    BY <2>2, Moved
  <2>4. Registered' = [Registered EXCEPT ![name[t]] = IF @ > 0 THEN @ - 1 ELSE 0]
    <3>1. CASE RemoveFound(t)
      BY <3>1, RegisteredRemove
    <3>2. CASE RemoveMissing(t) /\ ~RemoveFound(t)
      <4>1. name[t] \in Names /\ Settled
        BY <1>1, <2>1 DEF CallAt, Mutex, Writing, Settled
      <4>2. Occurrences(List, name[t]) = 0
        <5>1. \A k \in 1..target.len : List[k] # name[t]
          BY <3>2 DEF RemoveMissing, Matches
        <5> QED
          BY <1>1, <5>1, ListCells, OccursAt
      <4>3. Registered = [n \in Names |-> Occurrences(List, n)]
        BY <4>1 DEF Registered
      <4>4. Registered' = Registered
        BY <2>1, <3>2, RegisteredStays DEF Write
      <4> QED
        BY <4>1, <4>2, <4>3, <4>4
    <3> QED
      BY <1>3, <3>1, <3>2
  <2> QED
    BY <2>1, <2>2, <2>3, <2>4, MapRemove DEF Abstract!Step
<1> QED
  BY <1>2, <1>3 DEF CallsOfRemove

\* Next: the call, the choice of a target that is registered, the return.
LEMMA NextMaps ==
  ASSUME IInv, IInv', Turns, NEW t \in Threads, Step(t), CallsOfNext(t)
  PROVE  Abstract!Call(t) \/ Abstract!Step(t) \/ UNCHANGED Abstract!vars
<1>1. pc \in [Threads -> PCs] /\ CallAt(t) /\ TypeOK /\ Mutex /\ Filled
      /\ at \in [Threads -> Nat] /\ None \notin Names
  BY NoneAssumption DEF IInv, TypeOK
<1> USE DEF Goto, call
<1>2. pc[t] \in Choosing \cup {"idle"}
  BY DEF CallsOfNext, RLock, RLockWaits, Calls, NextPanics, LoadI, StoreI, ReadI, AdvanceI, EnterIntn, Intn,
         IndexPanics, IntnRaced, GetOne, Loads, RUnlock, Choosing
<1>3. Registered' = Registered
  BY <1>2, RegisteredStays DEF Write, RemoveFound, Entered, Choosing
<1>4. ASSUME pc[t] \in Choosing
      PROVE  /\ Registered = [n \in Names |-> Occurrences(List, n)]
             /\ \A k \in 1..target.len : List[k] \in Names /\ Registered[List[k]] > 0
             /\ target.len = 0 => \A n \in Names : Registered[n] = 0
             /\ op[t] = "Next"
  <2>1. Settled
    BY <1>1, <1>4 DEF Mutex, Settled
  <2>2. Registered = [n \in Names |-> Occurrences(List, n)]
    BY <2>1 DEF Registered
  <2>3. /\ target.len \in Nat /\ Len(List) = target.len /\ DOMAIN List = 1..target.len
        /\ \A k \in 1..target.len : List[k] = arrays[target.arr][k]
    BY <1>1, ListCells
  <2>4. ASSUME NEW k \in 1..target.len PROVE List[k] \in Names
    <3>1. arrays[target.arr] \in Seq(Names \cup {None}) /\ k \in 1..Len(arrays[target.arr])
      BY <1>1, <2>3 DEF TypeOK
    <3>2. arrays[target.arr][k] # None
      BY <1>1, <2>1 DEF Filled
    <3> QED
      BY <2>3, <3>1, <3>2
  <2>5. \A n : Occurrences(List, n) \in Nat
               /\ (Occurrences(List, n) = 0 <=> \A k \in 1..Len(List) : List[k] # n)
    BY <2>3, OccursAt
  <2>6. op[t] = "Next"
    BY <1>1, <1>4 DEF CallAt
  <2>7. ASSUME NEW k \in 1..target.len PROVE Registered[List[k]] > 0
    BY <2>2, <2>3, <2>4, <2>5, <2>7
  <2>8. ASSUME target.len = 0 PROVE \A n \in Names : Registered[n] = 0
    BY <2>2, <2>3, <2>5, <2>8
  <2> QED
    BY <2>2, <2>4, <2>6, <2>7, <2>8
<1>5. ASSUME pc[t] \in Choosing, pc'[t] = "picked", UNCHANGED <<op, name, target, arrays>>,
             pc[t] # "picked", at'[t] \in 1..target.len
      PROVE  Abstract!Next1(t)
  <2>1. Phase(t) = "called" /\ Phase(t)' = "done"
    BY <1>5 DEF Phase, Choosing
  <2>2. List' = List /\ Answer(t)' = List[at'[t]]
    <3>1. List' = List
      BY <1>5 DEF List
    <3>2. target.len \in Nat /\ at'[t] > 0
      BY <1>1, <1>5 DEF TypeOK, Header
    <3> QED
      BY <1>5, <3>1, <3>2 DEF Answer
  <2>3. PICK n \in Names : n = Answer(t)' /\ Registered[n] > 0
    BY <1>4, <1>5, <2>2
  <2>4. Moves(t, "done", n)
    BY <2>1, <2>3, Moved
  <2> QED
    BY <1>3, <1>4, <1>5, <2>1, <2>3, <2>4, MapAnswer
<1>6. CASE RLock(t) \/ RLockWaits(t)
  <2>1. pc[t] = "idle" /\ pc'[t] \in {"load", "rwait"} /\ op' = [op EXCEPT ![t] = "Next"] /\ name' = name
    BY <1>1, <1>6 DEF RLock, RLockWaits, Calls
  <2>2. Phase(t) = "idle" /\ Phase(t)' = "called" /\ Answer(t)' = Answer(t)
    BY <2>1 DEF Phase, Answer
  <2>3. Moves(t, "called", Answer(t))
    BY <2>2, Moved
  <2> QED
    BY <1>3, <2>1, <2>2, <2>3, MapCall
<1>7. CASE NextPanics(t) \/ IndexPanics(t) \/ Intn(t) \/ IntnRaced(t) \/ GetOne(t)
  <2>1. PICK k \in 0..target.len :
          Chooses(t, k) /\ (k = 0 => target.len = 0 \/ (kind # "static" /\ t \in Raced))
    <3>1. target.len \in Nat /\ i \in Nat /\ 0 \in 0..target.len
      BY <1>1, BoundsAssumption DEF TypeOK, Header
    <3>2. CASE NextPanics(t)
      BY <3>1, <3>2 DEF NextPanics
    <3>3. CASE Intn(t)
      BY <3>1, <3>3 DEF Intn
    <3>5. CASE IndexPanics(t)
      <4>1. pc[t] = "index" /\ i >= target.len /\ Chooses(t, 0) /\ kind = "roundRobin"
            /\ at[t] < target.len
        BY <1>1, <3>5 DEF IndexPanics, CallAt
      <4>2. ~quiet[t]
        BY <3>1, <4>1 DEF Turns
      <4> QED
        BY <3>1, <4>1, <4>2 DEF Raced, Choosing
    <3>6. CASE IntnRaced(t)
      <4>1. pc[t] = "pick" /\ Chooses(t, 0) /\ kind = "random"
        BY <1>1, <3>6 DEF IntnRaced, CallAt
      <4>2. PICK u \in Threads \ {t} : pc[u] = "pick"
        BY <3>6 DEF IntnRaced
      <4>3. readers # {t}
        BY <1>1, <4>2 DEF Mutex, Choosing
      <4>4. ~quiet[t]
        BY <4>1, <4>3 DEF Turns, Choosing
      <4> QED
        BY <3>1, <4>1, <4>4 DEF Raced, Choosing
    <3>4. CASE GetOne(t)
      <4>1. Len(List) = target.len /\ DOMAIN List = 1..target.len /\ target.len > 0
        BY <1>1, <3>4, ListCells DEF GetOne, Loads
      <4>2. \A r : weightedChoiceOne(Weights(List), r) \in 1..Len(List)
        BY <3>1, <4>1, ChoiceInList
      <4> QED
        BY <3>1, <3>4, <4>1, <4>2 DEF GetOne
    <3> QED
      BY <1>7, <3>2, <3>3, <3>4, <3>5, <3>6
  <2>2. pc[t] \in Choosing /\ pc[t] # "picked"
    BY <1>7 DEF NextPanics, IndexPanics, Intn, IntnRaced, GetOne, Loads, Choosing
  <2>3. pc'[t] = "picked" /\ at'[t] = k /\ UNCHANGED <<op, name, target, arrays>>
    BY <1>1, <2>1 DEF Chooses
  <2>4. CASE k > 0
    BY <1>5, <2>2, <2>3, <2>4 DEF Abstract!Step
  <2>5. CASE k = 0
    <3>1. Phase(t) = "called" /\ Phase(t)' = "done" /\ Answer(t)' = Answer(t)
      BY <2>2, <2>3, <2>5 DEF Phase, Answer, Choosing
    <3>2. Moves(t, "done", Answer(t))
      BY <3>1, Moved
    <3> QED
      BY <1>3, <1>4, <2>1, <2>2, <2>3, <2>5, <3>1, <3>2, MapPanic DEF Abstract!Step
  <2> QED
    BY <2>4, <2>5
<1>8. CASE AdvanceI(t)
  <2>1. pc[t] = "advance" /\ pc'[t] = "picked" /\ UNCHANGED <<op, name, target, arrays>>
        /\ at'[t] = at[t] /\ at[t] \in 1..target.len
    <3>1. target.len \in Nat /\ at[t] \in Nat
      BY <1>1 DEF TypeOK, Header
    <3> QED
      BY <1>1, <1>8, <3>1 DEF AdvanceI, CallAt
  <2> QED
    BY <1>5, <2>1 DEF Choosing, Abstract!Step
<1>9. CASE LoadI(t) \/ StoreI(t) \/ ReadI(t) \/ EnterIntn(t)
  <2>1. pc[t] \in {"load", "wrap", "index"} /\ pc'[t] \in {"wrap", "index", "advance", "pick"}
        /\ UNCHANGED <<op, name>>
    BY <1>1, <1>9 DEF LoadI, StoreI, ReadI, EnterIntn, Loads
  <2>2. Phase(t)' = Phase(t) /\ Answer(t)' = Answer(t)
    BY <2>1 DEF Phase, Answer
  <2>3. Moves(t, Phase(t), Answer(t))
    BY <2>2, Moved
  <2>4. ~RLock(t) /\ ~RUnlock(t) /\ ~Unlock(t)
    BY <2>1 DEF RLock, Calls, RUnlock, Unlock
  <2> QED
    BY <1>3, <2>1, <2>3, <2>4, RacedStays, MapStutter
<1>10. CASE RUnlock(t)
  <2>1. pc[t] = "picked" /\ pc'[t] = "idle"
        /\ op' = [op EXCEPT ![t] = "Next"] /\ name' = [name EXCEPT ![t] = None]
    BY <1>1, <1>10 DEF RUnlock, Forget
  <2>2. Phase(t) = "done" /\ Phase(t)' = "idle" /\ Answer(t)' = None
    BY <2>1 DEF Phase, Answer
  <2>3. Moves(t, "idle", None)
    BY <2>2, Moved
  <2> QED
    BY <1>3, <2>1, <2>2, <2>3, MapReturn DEF Abstract!Step
<1> QED
  BY <1>6, <1>7, <1>8, <1>9, <1>10 DEF CallsOfNext

\* The lock is not seen; giving it back ends the call.
LEMMA LockMaps ==
  ASSUME IInv, IInv', NEW t \in Threads, Step(t), Lock(t) \/ Unlock(t)
  PROVE  Abstract!Call(t) \/ Abstract!Step(t) \/ UNCHANGED Abstract!vars
<1>1. pc \in [Threads -> PCs]
  BY DEF IInv, TypeOK
<1>2. Registered' = Registered
  BY RegisteredStays DEF Lock, Unlock, Write, RemoveFound, Entered
<1>3. CASE Lock(t)
  <2>1. pc[t] = "lock" /\ pc'[t] = "drain" /\ UNCHANGED <<op, name>>
    BY <1>1, <1>3 DEF Lock, Goto, call
  <2>2. Phase(t)' = Phase(t) /\ Answer(t)' = Answer(t)
    BY <2>1 DEF Phase, Answer
  <2>3. Moves(t, Phase(t), Answer(t))
    BY <2>2, Moved
  <2>4. ~RLock(t) /\ ~RUnlock(t) /\ ~Unlock(t)
    BY <2>1 DEF RLock, Calls, RUnlock, Unlock
  <2> QED
    BY <1>2, <2>1, <2>3, <2>4, RacedStays, MapStutter
<1>4. CASE Unlock(t)
  <2>1. pc[t] = "unlock" /\ pc'[t] = "idle"
        /\ op' = [op EXCEPT ![t] = "Next"] /\ name' = [name EXCEPT ![t] = None]
    BY <1>1, <1>4 DEF Unlock, Forget
  <2>2. Phase(t) = "done" /\ Phase(t)' = "idle" /\ Answer(t)' = None
    BY <2>1 DEF Phase, Answer
  <2>3. Moves(t, "idle", None)
    BY <2>2, Moved
  <2> QED
    BY <1>2, <2>1, <2>2, <2>3, MapReturn DEF Abstract!Step
<1> QED
  BY <1>3, <1>4

-----------------------------------------------------------------------------
(* The refinement.                                                         *)

LEMMA InitMaps == Init => Abstract!Init
<1> SUFFICES ASSUME Init PROVE Abstract!Init
  OBVIOUS
<1>1. IInv
  BY InitSound
<1>2. Registered \in [Names -> Nat]
  <2>1. Registered = [n \in Names |-> Occurrences(List, n)]
    BY DEF Init, Settled, Registered
  <2>2. \A n : Occurrences(List, n) \in Nat
    BY <1>1, ListCells, OccursAt DEF IInv
  <2> QED
    BY <2>1, <2>2
<1>3. \A t \in Threads : Phase(t) = "idle" /\ Answer(t) = None
  BY DEF Init, Phase, Answer
<1> QED
  BY <1>2, <1>3 DEF Abstract!Init, Init, Answer, Choosing

LEMMA StutterMaps == UNCHANGED vars => UNCHANGED Abstract!vars
BY DEF vars, call, mutex, Abstract!vars, Registered, Settled, List, Phase, Choosing

\* Every balancer implements the registry: each Add and Remove takes effect
\* once, in one step between its call and its return, and each Next answers a
\* target that is registered at that step, however the calls overlap; it fails
\* with targets registered only when another Next overlaps it, and the weighted
\* one never.  (proxy.go:39-82, 98-105, 124-165)
THEOREM BalancersAreRegistries == Spec => ImplementsRegistry
<1>1. IInv /\ IInv' /\ Turns /\ [Next]_vars =>
        [\E t \in Threads : (Abstract!Call(t) \/ Abstract!Step(t)) /\ Abstract!Meetings]_(Abstract!vars)
  <2>1. ASSUME IInv, IInv', Turns, NEW t \in Threads, Step(t)
        PROVE  \/ (Abstract!Call(t) \/ Abstract!Step(t)) /\ Abstract!Meetings
               \/ UNCHANGED Abstract!vars
    <3>1. Abstract!Call(t) \/ Abstract!Step(t) \/ UNCHANGED Abstract!vars
      BY <2>1, AddMaps, RemoveMaps, NextMaps, LockMaps DEF Step
    <3>2. Abstract!Meetings
      BY <2>1, RacedMeet
    <3> QED
      BY <3>1, <3>2
  <2>2. UNCHANGED vars => UNCHANGED Abstract!vars
    BY StutterMaps
  <2> QED
    BY <2>1, <2>2 DEF Next, Terminated
<1> QED
  BY <1>1, InitMaps, BalancerInvariant, TurnsInvariant, PTL DEF Spec, ImplementsRegistry, Abstract!Spec
=============================================================================
