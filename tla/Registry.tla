------------------------------ MODULE Registry ------------------------------
(***************************************************************************)
(* What a load balancer promises to the goroutines that share it: a bag of *)
(* targets that every Add, Remove and Next sees and changes in one step    *)
(* between its call and its return.  proxy.go implements it with a list    *)
(* under a lock; the balancer it is checked against is module Balancer.    *)
(*                                                                         *)
(* An Add may be refused, whatever the bag holds: the code looks for the   *)
(* name outside the lock.  When it must be refused is Balancer's Decides.  *)
(* A Next may fail on a bag that is not empty only when another overlaps   *)
(* it, and a reliable one not even then.                                   *)
(***************************************************************************)
EXTENDS Naturals

CONSTANTS Threads, Names, None

VARIABLES
  reliable,  \* Next only fails on an empty bag
  raced,     \* the Nexts that have met another
  targets,   \* how often a name is registered
  phase,     \* of a call: idle, called, done
  op,        \* the call
  name,      \* its argument
  answer     \* the target Next answers; None when it panics

vars == <<reliable, raced, targets, phase, op, name, answer>>

Init ==
  /\ reliable \in BOOLEAN
  /\ raced = {}
  /\ targets \in [Names -> Nat]
  /\ phase = [t \in Threads |-> "idle"]
  /\ op = [t \in Threads |-> "Next"]
  /\ name = [t \in Threads |-> None]
  /\ answer = [t \in Threads |-> None]

Call(t) ==
  /\ phase[t] = "idle"
  /\ phase' = [phase EXCEPT ![t] = "called"]
  /\ \/ /\ \E o \in {"Add", "Remove"} : op' = [op EXCEPT ![t] = o]
        /\ \E n \in Names : name' = [name EXCEPT ![t] = n]
     \/ op' = [op EXCEPT ![t] = "Next"] /\ UNCHANGED name
  /\ UNCHANGED <<reliable, targets, answer>>

Does(t, o) ==
  /\ phase[t] = "called" /\ op[t] = o
  /\ phase' = [phase EXCEPT ![t] = "done"]
  /\ UNCHANGED <<reliable, op, name>>

Add(t) ==
  /\ Does(t, "Add")
  /\ targets' = [targets EXCEPT ![name[t]] = @ + 1]
  /\ UNCHANGED answer

Refuse(t) == Does(t, "Add") /\ UNCHANGED <<targets, answer>>

\* One target of the name goes, if there is one.
Remove(t) ==
  /\ Does(t, "Remove")
  /\ targets' = [targets EXCEPT ![name[t]] = IF @ > 0 THEN @ - 1 ELSE 0]
  /\ UNCHANGED answer

Next1(t) ==
  /\ Does(t, "Next")
  /\ \/ \E n \in Names : targets[n] > 0 /\ answer' = [answer EXCEPT ![t] = n]
     \/ /\ reliable \/ t \notin raced => \A n \in Names : targets[n] = 0
        /\ UNCHANGED answer
  /\ UNCHANGED targets

Return(t) ==
  /\ phase[t] = "done"
  /\ phase' = [phase EXCEPT ![t] = "idle"]
  /\ op' = [op EXCEPT ![t] = "Next"]
  /\ name' = [name EXCEPT ![t] = None]
  /\ answer' = [answer EXCEPT ![t] = None]
  /\ UNCHANGED <<reliable, targets>>

Step(t) == Add(t) \/ Refuse(t) \/ Remove(t) \/ Next1(t) \/ Return(t)

\* A Next meets another when both are under way.
Nexts == {t \in Threads : phase[t] # "idle" /\ op[t] = "Next"}

Meetings ==
  \A t \in raced' : t \in Nexts' /\ (t \in raced \/ \E u \in Nexts' : u # t)

Spec == Init /\ [][\E t \in Threads : (Call(t) \/ Step(t)) /\ Meetings]_vars
=============================================================================
