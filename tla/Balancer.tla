------------------------------ MODULE Balancer ------------------------------
(***************************************************************************)
(* The load balancers of the proxy middleware: the list of targets that    *)
(* Add, Remove and Next share, guarded by an RWMutex, and the three ways   *)
(* Next chooses (random, round robin, weighted).  commonBalancer and       *)
(* staticRoundRobinBalancer keep the list the same way.                    *)
(*                                                                         *)
(* Add looks for the name before it takes the lock.  That scan is a data   *)
(* race, so the list is modelled as Go keeps it: a header (array, length)  *)
(* and a backing array whose cells an in-place append or shift changes     *)
(* under a scan that started earlier.  A range loop reads the header once, *)
(* here in one step: a torn header is left out.                            *)
(***************************************************************************)
EXTENDS Integers, FiniteSets, Sequences

CONSTANTS
  Threads,   \* the goroutines that call the balancer
  Names,     \* the names of targets
  Weight,    \* the weight of every name
  Kinds,     \* the kinds of balancer of the behaviours
  Initial,   \* the lists that the constructors are given
  MaxCalls,  \* bound: the calls of a behaviour
  Modulus,   \* 2^32 in the code: the width of the round-robin counter
  None       \* no goroutine, no target (a nil cell)

ASSUME ThreadsAssumption == IsFiniteSet(Threads) /\ Threads # {}
ASSUME NoneAssumption    == None \notin Threads /\ None \notin Names
ASSUME WeightAssumption  == Weight \in [Names -> Nat]
ASSUME KindsAssumption   == Kinds \subseteq {"random", "roundRobin", "static"}
ASSUME InitialAssumption == Initial \subseteq Seq(Names)
ASSUME BoundsAssumption  == MaxCalls \in Nat /\ Modulus \in Nat \ {0}
\* The code takes uint32 of the length of the list.
ASSUME LengthAssumption  == \A s \in Initial : Len(s) + MaxCalls <= Modulus

VARIABLES
  kind,     \* which balancer this is
  arrays,   \* the backing arrays allocated so far; a length is a capacity
  target,   \* b.target (b.choices): the header of the list
  i,        \* roundRobinBalancer.i
  readers,  \* mu: the goroutines that hold the read lock
  waiting,  \* mu: the goroutines blocked in RLock by a writer
  writer,   \* mu: the goroutine that holds the lock or drains the readers
  pc,       \* where a goroutine is
  op,       \* the call it makes: Add, Remove or Next
  name,     \* the argument of its Add or Remove
  hdr,      \* the header its Add loops over
  at,       \* the place its scan or its choice is at, from 1; 0 is a panic
  calls,    \* the calls the behaviour may still make
  quiet,    \* history: no other call got in the way of this one
  last      \* history: the place the latest Next chose, 0 if that says
            \* nothing of the next one

mutex == <<readers, waiting, writer>>
call  == <<op, name, hdr, at>>
vars  == <<kind, arrays, target, i, mutex, pc, call, calls, quiet, last>>

-----------------------------------------------------------------------------
Header == [arr: Nat \ {0}, len: Nat]

List == SubSeq(arrays[target.arr], 1, target.len)

Occurrences(s, n) == Cardinality({k \in DOMAIN s : s[k] = n})

\*   idle    not in the balancer      scan    Add looks for the name
\*   lock    calls Lock               drain   waits for the readers
\*   write   Add has grown the list   unlock  the change is done
\*   rwait   blocked in RLock         load    Next reads the list
\*   wrap    Next has read i          index   Next has stored i
\*   advance Next has its target      pick    inside rand.Intn
\*   picked  the choice is made       refused Add found the name
\*   panic   Add read a nil cell
PCs == { "idle", "scan", "lock", "drain", "write", "unlock", "rwait", "load",
         "wrap", "index", "advance", "pick", "picked", "refused", "panic" }

\* Every variable has its type, and the header lies within its array.
\* (proxy.go:34-37, 84-113)
TypeOK ==
  /\ kind \in Kinds
  /\ arrays \in Seq(Seq(Names \cup {None}))
  /\ target \in Header
  /\ target.arr \in DOMAIN arrays /\ target.len <= Len(arrays[target.arr])
  /\ i \in 0..Modulus - 1
  /\ readers \subseteq Threads /\ waiting \subseteq Threads
  /\ writer \in Threads \cup {None}
  /\ pc \in [Threads -> PCs]
  /\ op \in [Threads -> {"Add", "Remove", "Next"}]
  /\ name \in [Threads -> Names \cup {None}]
  /\ hdr \in [Threads -> Header]
  /\ at \in [Threads -> Nat]
  /\ calls \in 0..MaxCalls
  /\ quiet \in [Threads -> BOOLEAN]
  /\ last \in Nat

NoHeader == [arr |-> 1, len |-> 0]

\* A constructor keeps the slice it is given.
Init ==
  /\ kind \in Kinds
  /\ arrays \in {<<s>> : s \in Initial}
  /\ target = [arr |-> 1, len |-> Len(arrays[1])]
  /\ i = 0
  /\ readers = {} /\ waiting = {} /\ writer = None
  /\ pc = [t \in Threads |-> "idle"]
  /\ op = [t \in Threads |-> "Next"]
  /\ name = [t \in Threads |-> None]
  /\ hdr = [t \in Threads |-> NoHeader]
  /\ at = [t \in Threads |-> 0]
  /\ calls = MaxCalls
  /\ quiet = [t \in Threads |-> TRUE]
  /\ last = 0

-----------------------------------------------------------------------------
(* Calls and returns.                                                      *)

Goto(t, l) == pc' = [pc EXCEPT ![t] = l]

Calls(t, o) ==
  /\ pc[t] = "idle"
  /\ calls > 0
  /\ calls' = calls - 1
  /\ op' = [op EXCEPT ![t] = o]

\* What a goroutine keeps of a call is gone when the call returns.
Forget(t) ==
  /\ op' = [op EXCEPT ![t] = "Next"]
  /\ name' = [name EXCEPT ![t] = None]
  /\ hdr' = [hdr EXCEPT ![t] = NoHeader]
  /\ at' = [at EXCEPT ![t] = 0]

\* The list changes: no Add under way, and no earlier Next, is a reference.
Disturb(t) ==
  /\ quiet' = [u \in Threads |-> quiet[u] /\ u = t]
  /\ last' = 0

-----------------------------------------------------------------------------
(* Add.                                                                    *)

\* An argument of another type is refused before anything is read.
AddOther(t) ==
  /\ pc[t] = "idle"
  /\ calls > 0
  /\ calls' = calls - 1
  /\ UNCHANGED <<kind, arrays, target, i, mutex, pc, call, quiet, last>>

CallAdd(t) ==
  \E n \in Names :
    /\ Calls(t, "Add")
    /\ name' = [name EXCEPT ![t] = n]
    /\ hdr' = [hdr EXCEPT ![t] = target]
    /\ at' = [at EXCEPT ![t] = 1]
    /\ quiet' = [quiet EXCEPT ![t] = \A u \in Threads : pc[u] # "write"]
    /\ Goto(t, "scan")
    /\ UNCHANGED <<kind, arrays, target, i, mutex, last>>

Cell(t) == arrays[hdr[t].arr][at[t]]

\* A slip: the range ends one target early.
ScanningShort(t) == pc[t] = "scan" /\ at[t] < hdr[t].len

Scanning(t) == pc[t] = "scan" /\ at[t] <= hdr[t].len

Scan(t) ==
  /\ Scanning(t)
  /\ Cell(t) \notin {name[t], None}
  /\ at' = [at EXCEPT ![t] = @ + 1]
  /\ UNCHANGED <<kind, arrays, target, i, mutex, pc, op, name, hdr, calls,
                 quiet, last>>

Refuse(t) ==
  /\ Scanning(t)
  /\ Cell(t) = name[t]
  /\ Goto(t, "refused")
  /\ UNCHANGED <<kind, arrays, target, i, mutex, call, calls, quiet, last>>

\* gc stores the new length before the new cell: the scan may meet nil.
ScanPanics(t) ==
  /\ Scanning(t)
  /\ Cell(t) = None
  /\ Goto(t, "panic")
  /\ UNCHANGED <<kind, arrays, target, i, mutex, call, calls, quiet, last>>

ScanEnds(t) ==
  /\ pc[t] = "scan"
  /\ ~Scanning(t)
  /\ Goto(t, "lock")
  /\ UNCHANGED <<kind, arrays, target, i, mutex, call, calls, quiet, last>>

AddReturns(t) ==
  /\ pc[t] \in {"refused", "panic"}
  /\ Goto(t, "idle")
  /\ Forget(t)
  /\ quiet' = [quiet EXCEPT ![t] = TRUE]
  /\ UNCHANGED <<kind, arrays, target, i, mutex, calls, last>>

\* RWMutex.Lock: one writer at a time, first keeping new readers out.
Lock(t) ==
  /\ pc[t] = "lock"
  /\ writer = None
  /\ writer' = t
  /\ Goto(t, "drain")
  /\ UNCHANGED <<kind, arrays, target, i, readers, waiting, call, calls,
                 quiet, last>>

Entered(t, o) == pc[t] = "drain" /\ readers = {} /\ op[t] = o

\* growslice: the cells of h's array in one of twice the capacity
Grown(h) ==
  LET full == arrays[h.arr]
      room == IF full = << >> THEN 1 ELSE Len(full)
  IN  full \o [k \in 1..room |-> None]

\* append(h, x) up to the store of the length, the place of x still as it was
AppendTo(h) ==
  IF h.len < Len(arrays[h.arr])
  THEN /\ target' = [h EXCEPT !.len = @ + 1]
       /\ UNCHANGED arrays
  ELSE /\ arrays' = Append(arrays, Grown(h))
       /\ target' = [arr |-> Len(arrays) + 1, len |-> h.len + 1]

\* A slip: append to the list that was scanned before Lock.
GrowScanned(t) ==
  /\ Entered(t, "Add")
  /\ AppendTo(hdr[t])
  /\ Disturb(t)
  /\ Goto(t, "write")
  /\ UNCHANGED <<kind, i, mutex, call, calls>>

Grow(t) ==
  /\ Entered(t, "Add")
  /\ AppendTo(target)
  /\ Disturb(t)
  /\ Goto(t, "write")
  /\ UNCHANGED <<kind, i, mutex, call, calls>>

Write(t) ==
  /\ pc[t] = "write"
  /\ arrays' = [arrays EXCEPT ![target.arr][target.len] = name[t]]
  /\ Disturb(t)
  /\ Goto(t, "unlock")
  /\ UNCHANGED <<kind, target, i, mutex, call, calls>>

-----------------------------------------------------------------------------
(* Remove.                                                                 *)

CallRemove(t) ==
  \E n \in Names :
    /\ Calls(t, "Remove")
    /\ name' = [name EXCEPT ![t] = n]
    /\ Goto(t, "lock")
    /\ UNCHANGED <<kind, arrays, target, i, mutex, hdr, at, quiet, last>>

Matches(t) == {k \in 1..target.len : List[k] = name[t]}

First(S) == CHOOSE k \in S : \A m \in S : k <= m

\* append(target[:k], target[k+1:]...) shifts in place; the last cell stays.
RemoveFound(t) ==
  /\ Entered(t, "Remove")
  /\ Matches(t) # {}
  /\ LET k == First(Matches(t))
     IN arrays' = [arrays EXCEPT ![target.arr] =
                     [m \in DOMAIN @ |-> IF k <= m /\ m < target.len THEN @[m + 1] ELSE @[m]]]
  /\ target' = [target EXCEPT !.len = @ - 1]
  /\ Disturb(t)
  /\ Goto(t, "unlock")
  /\ UNCHANGED <<kind, i, mutex, call, calls>>

\* A slip: no unlock on this path.
RemoveStuck(t) ==
  /\ Entered(t, "Remove")
  /\ Matches(t) = {}
  /\ Goto(t, "idle")
  /\ UNCHANGED <<kind, arrays, target, i, mutex, call, calls, quiet, last>>

\* A slip: the list shrinks all the same.
RemoveLast(t) ==
  /\ Entered(t, "Remove")
  /\ Matches(t) = {}
  /\ target' = [target EXCEPT !.len = @ - 1]
  /\ Goto(t, "unlock")
  /\ UNCHANGED <<kind, arrays, i, mutex, call, calls, quiet, last>>

RemoveMissing(t) ==
  /\ Entered(t, "Remove")
  /\ Matches(t) = {}
  /\ Goto(t, "unlock")
  /\ UNCHANGED <<kind, arrays, target, i, mutex, call, calls, quiet, last>>

\* RWMutex.Unlock lets in the readers that wait before any other writer.
Unlock(t) ==
  /\ pc[t] = "unlock"
  /\ writer' = None
  /\ readers' = waiting
  /\ waiting' = {}
  /\ pc' = [u \in Threads |-> IF u = t THEN "idle"
                              ELSE IF u \in waiting THEN "load" ELSE pc[u]]
  /\ Forget(t)
  /\ quiet' = [u \in Threads |-> IF u \in waiting THEN waiting = {u}
                                 ELSE u = t \/ quiet[u]]
  /\ UNCHANGED <<kind, arrays, target, i, calls, last>>

-----------------------------------------------------------------------------
(* Next.                                                                   *)

RLock(t) ==
  /\ Calls(t, "Next")
  /\ writer = None
  /\ readers' = readers \cup {t}
  /\ quiet' = [u \in Threads |-> IF u = t THEN readers = {}
                                 ELSE quiet[u] /\ u \notin readers]
  /\ Goto(t, "load")
  /\ UNCHANGED <<kind, arrays, target, i, waiting, writer, name, hdr, at, last>>

RLockWaits(t) ==
  /\ Calls(t, "Next")
  /\ writer # None
  /\ waiting' = waiting \cup {t}
  /\ Goto(t, "rwait")
  /\ UNCHANGED <<kind, arrays, target, i, readers, writer, name, hdr, at,
                 quiet, last>>

Loads(t, k) == pc[t] = "load" /\ kind = k /\ target.len > 0

Chooses(t, k) ==
  /\ at' = [at EXCEPT ![t] = k]
  /\ Goto(t, "picked")
  /\ UNCHANGED <<kind, arrays, target, i, mutex, op, name, hdr, calls, quiet, last>>

\* % 0, rand.Intn(0) and c[0] of an empty list panic; RUnlock is deferred.
NextPanics(t) ==
  /\ pc[t] = "load"
  /\ target.len = 0
  /\ Chooses(t, 0)

\* roundRobinBalancer.Next: i is read, stored, read again as the index and
\* advanced in four steps, as other readers do the same.
LoadI(t) ==
  /\ Loads(t, "roundRobin")
  /\ at' = [at EXCEPT ![t] = i]
  /\ Goto(t, "wrap")
  /\ UNCHANGED <<kind, arrays, target, i, mutex, op, name, hdr, calls, quiet, last>>

\* A slip: the remainder is not stored.
IndexOnly(t) ==
  /\ pc[t] = "wrap"
  /\ at' = [at EXCEPT ![t] = (@ % target.len) + 1]
  /\ Goto(t, "advance")
  /\ UNCHANGED <<kind, arrays, target, i, mutex, op, name, hdr, calls, quiet, last>>

StoreI(t) ==
  /\ pc[t] = "wrap"
  /\ i' = at[t] % target.len
  /\ at' = [at EXCEPT ![t] = @ % target.len]
  /\ Goto(t, "index")
  /\ UNCHANGED <<kind, arrays, target, mutex, op, name, hdr, calls, quiet, last>>

\* Another may have advanced or stored i by now; a compiler is free to take the
\* value that was just stored.
ReadI(t) ==
  /\ pc[t] = "index"
  /\ \E k \in {i, at[t]} : k < target.len /\ at' = [at EXCEPT ![t] = k + 1]
  /\ Goto(t, "advance")
  /\ UNCHANGED <<kind, arrays, target, i, mutex, op, name, hdr, calls, quiet, last>>

\* ... beyond the list.
IndexPanics(t) ==
  /\ pc[t] = "index"
  /\ i >= target.len
  /\ Chooses(t, 0)

\* A slip: the counter steps back.
StepBack(t) ==
  /\ pc[t] = "advance"
  /\ i' = (i + target.len - 1) % Modulus
  /\ last' = IF quiet[t] THEN at[t] ELSE 0
  /\ Goto(t, "picked")
  /\ UNCHANGED <<kind, arrays, target, mutex, call, calls, quiet>>

AdvanceI(t) ==
  /\ pc[t] = "advance"
  /\ i' = (i + 1) % Modulus
  /\ last' = IF quiet[t] THEN at[t] ELSE 0
  /\ Goto(t, "picked")
  /\ UNCHANGED <<kind, arrays, target, mutex, call, calls, quiet>>

\* randomBalancer.Next: a rand.Rand is not for several goroutines; two that
\* are in Intn together may index its state out of range.
EnterIntn(t) ==
  /\ Loads(t, "random")
  /\ Goto(t, "pick")
  /\ UNCHANGED <<kind, arrays, target, i, mutex, call, calls, quiet, last>>

Intn(t) ==
  /\ pc[t] = "pick"
  /\ \E k \in 1..target.len : Chooses(t, k)

IntnRaced(t) ==
  /\ pc[t] = "pick"
  /\ \E u \in Threads \ {t} : pc[u] = "pick"
  /\ Chooses(t, 0)

\* The sum of the first j weights.
SumTo(w, j) ==
  LET sum[k \in 0..Len(w)] == IF k = 0 THEN 0 ELSE sum[k - 1] + w[k]
  IN  sum[j]

\* A slip: r <= 0 ends the loop.
weightedChoiceOneAtZero(w, r) ==
  LET reached == {j \in DOMAIN w : r - SumTo(w, j) <= 0}
  IN  IF reached = {} THEN 1 ELSE First(reached)

\* utils.go: take the weights from r one by one until it is negative.
weightedChoiceOne(w, r) ==
  LET reached == {j \in DOMAIN w : r - SumTo(w, j) < 0}
  IN  IF reached = {} THEN 1 ELSE First(reached)

Weights(s) == [k \in DOMAIN s |-> Weight[s[k]]]

\* rand.Float64() * sum, by whole numbers
Draws(w) == {r \in 0..SumTo(w, Len(w)) : r = 0 \/ r < SumTo(w, Len(w))}

GetOne(t) ==
  /\ Loads(t, "static")
  /\ \E r \in Draws(Weights(List)) : Chooses(t, weightedChoiceOne(Weights(List), r))

RUnlock(t) ==
  /\ pc[t] = "picked"
  /\ readers' = readers \ {t}
  /\ Goto(t, "idle")
  /\ Forget(t)
  /\ quiet' = [quiet EXCEPT ![t] = TRUE]
  /\ UNCHANGED <<kind, arrays, target, i, waiting, writer, calls, last>>

-----------------------------------------------------------------------------
CallsOfAdd(t) ==
  \/ AddOther(t) \/ CallAdd(t) \/ Scan(t) \/ Refuse(t) \/ ScanPanics(t)
  \/ ScanEnds(t) \/ AddReturns(t) \/ Grow(t) \/ Write(t)

CallsOfRemove(t) == CallRemove(t) \/ RemoveFound(t) \/ RemoveMissing(t)

CallsOfNext(t) ==
  \/ RLock(t) \/ RLockWaits(t) \/ NextPanics(t)
  \/ LoadI(t) \/ StoreI(t) \/ ReadI(t) \/ IndexPanics(t) \/ AdvanceI(t)
  \/ EnterIntn(t) \/ Intn(t) \/ IntnRaced(t) \/ GetOne(t) \/ RUnlock(t)

Step(t) == CallsOfAdd(t) \/ CallsOfRemove(t) \/ CallsOfNext(t) \/ Lock(t) \/ Unlock(t)

\* The bound MaxCalls is used up.
Terminated ==
  /\ calls = 0 /\ \A t \in Threads : pc[t] = "idle"
  /\ UNCHANGED vars

Next == (\E t \in Threads : Step(t)) \/ Terminated

Spec == Init /\ [][Next]_vars

\* The Go scheduler runs every goroutine that is in a call and can run; none
\* has to make a call.
FairSpec == Spec /\ \A t \in Threads : WF_vars(pc[t] # "idle" /\ Step(t))

-----------------------------------------------------------------------------
(* Properties.                                                             *)

Settled == \A t \in Threads : pc[t] # "write"

\* The list as the registry's bag: an Add that has grown it and not written
\* its target yet has still to take effect.
Registered ==
  LET settled == IF Settled THEN List ELSE SubSeq(List, 1, target.len - 1)
  IN  [n \in Names |-> Occurrences(settled, n)]

Phase(t) == CASE pc[t] = "idle" -> "idle"
              [] pc[t] \in {"unlock", "picked", "refused", "panic"} -> "done"
              [] OTHER -> "called"

Choosing == {"load", "wrap", "index", "advance", "pick", "picked"}

Abstract == INSTANCE Registry WITH
  reliable <- kind = "static",
  raced    <- {t \in Threads : pc[t] \in Choosing /\ ~quiet[t]},
  targets  <- Registered,
  phase    <- [t \in Threads |-> Phase(t)],
  answer   <- [t \in Threads |-> IF pc[t] = "picked" /\ at[t] > 0 THEN List[at[t]] ELSE None]

\* The balancers implement the registry: every Add and Remove that succeeds
\* takes effect once and on its own name, none is lost to a concurrent one or
\* done twice, Next answers a target that is registered at that moment, though
\* the list is scanned, grown and shifted in steps.  The weighted balancer's
\* Next panics only when there is no target; the other two's also when another
\* Next overlaps it, and then only: what they share beside the list is not
\* guarded.  (proxy.go:39-82, 98-105, 124-165)
ImplementsRegistry == Abstract!Spec

\* An Add that no change of the list overlaps refuses a name exactly when the
\* list holds it, whatever earlier Removes left behind in the array, and
\* never panics.  (proxy.go:46-50, 57-68)
Decides ==
  \A t \in Threads :
    /\ quiet[t] /\ pc[t] = "refused" => Occurrences(List, name[t]) > 0
    /\ quiet[t] /\ pc[t] = "lock" /\ op[t] = "Add" => Occurrences(List, name[t]) = 0
    /\ quiet[t] => pc[t] # "panic"

\* The round-robin counter never nears the width of its type, however many
\* calls race on it: it is brought below the length of the list before every
\* increment, so that it never wraps at 2^32 and skips.  (proxy.go:101-103)
CounterBounded == i < Len(arrays[target.arr]) + Cardinality(Threads)

\* Nexts that do not overlap, with no change of the list between them, take
\* the targets in turn.  (proxy.go:98-105, proxy_test.go:98-107)
Rotation ==
  \A t \in Threads :
    kind = "roundRobin" /\ pc[t] = "advance" /\ quiet[t] /\ last # 0 =>
      at[t] = (last % target.len) + 1

\* The weighted balancer gives every target of the list its share: as many
\* draws as its weight out of the sum, so none to a weight of zero.
\* (utils.go:50-98)
WeightShare ==
  Settled /\ kind = "static" =>
    LET w == Weights(List)
    IN  SumTo(w, Len(w)) > 0 =>
          \A k \in DOMAIN w :
            Cardinality({r \in Draws(w) : weightedChoiceOne(w, r) = k}) = w[k]

\* Every call returns: no path keeps the lock.  (proxy.go:51-52, 58-59, 99-100)
EveryCallEnds == \A t \in Threads : pc[t] # "idle" ~> pc[t] = "idle"

\* What proxy_test.go:66 says of Add: a name that is there is not added again.
NoDuplicates == Settled => \A n \in Names : Occurrences(List, n) <= 1
=============================================================================
