------------------------------- MODULE Chain --------------------------------
(***************************************************************************)
(* What the chain of handlers promises to a request, whatever its handlers *)
(* do and however often they call Next: its handlers start one after the   *)
(* other, each at most once and the last to start the first to return; one *)
(* that is told to stop starts no further handler, one that is not ends    *)
(* only after its last; a panic takes the handlers under way with it until *)
(* one of them recovers, and a chain that recovered is stopped.            *)
(*                                                                         *)
(* context.go implements it with an index that Next and its loop step      *)
(* together; the implementation it is checked against is module Serving.   *)
(***************************************************************************)
EXTENDS Naturals, Sequences

CONSTANT Requests

VARIABLES
  phase,    \* of a request: waiting, running, panicking, ended, lost
  length,   \* how many handlers its chain has
  started,  \* the places of those that were started
  under,    \* the places of those under way, outermost first
  stopped   \* the requests whose chain was told to stop

vars == <<phase, length, started, under, stopped>>

Init ==
  /\ phase = [r \in Requests |-> "waiting"]
  /\ length = [r \in Requests |-> 0]
  /\ started = [r \in Requests |-> << >>]
  /\ under = [r \in Requests |-> << >>]
  /\ stopped = {}

\* Nothing is left to start.
Over(r) == r \in stopped \/ Len(started[r]) = length[r]

Moves(r, from, to) ==
  /\ phase[r] = from
  /\ phase' = [phase EXCEPT ![r] = to]

Leaves(r) ==
  /\ under[r] # << >>
  /\ under' = [under EXCEPT ![r] = SubSeq(@, 1, Len(@) - 1)]

Begin(r) ==
  /\ Moves(r, "waiting", "running")
  /\ length' \in [Requests -> Nat]
  /\ \A q \in Requests \ {r} : length'[q] = length[q]
  /\ UNCHANGED <<started, under, stopped>>

Start(r) ==
  /\ phase[r] = "running" /\ ~Over(r)
  /\ started' = [started EXCEPT ![r] = Append(@, Len(@))]
  /\ under' = [under EXCEPT ![r] = Append(@, Len(started[r]))]
  /\ UNCHANGED <<phase, length, stopped>>

\* A handler returns, or a panic leaves it.
Return(r) ==
  /\ phase[r] \in {"running", "panicking"}
  /\ Leaves(r)
  /\ UNCHANGED <<phase, length, started, stopped>>

\* A handler stops the chain, and may panic as it answers.
Stop(r) ==
  /\ under[r] # << >>
  /\ stopped' = stopped \cup {r}
  /\ Moves(r, "running", "running") \/ Moves(r, "running", "panicking")
  /\ UNCHANGED <<length, started, under>>

\* A handler panics, or the page of an error does after the last of them.
Panic(r) ==
  /\ under[r] # << >> \/ Over(r)
  /\ Moves(r, "running", "panicking")
  /\ UNCHANGED <<length, started, under, stopped>>

Recover(r) ==
  /\ Leaves(r)
  /\ stopped' = stopped \cup {r}
  /\ Moves(r, "panicking", "running") \/ Moves(r, "panicking", "panicking")
  /\ UNCHANGED <<length, started>>

\* The chain goes with the context of the request.
Finish(r) ==
  /\ under[r] = << >> /\ Over(r)
  /\ Moves(r, "running", "ended")
  /\ length' = [length EXCEPT ![r] = 0]
  /\ UNCHANGED <<started, under, stopped>>

Lose(r) ==
  /\ under[r] = << >>
  /\ Moves(r, "panicking", "lost")
  /\ UNCHANGED <<length, started, under, stopped>>

Step(r) ==
  \/ Begin(r) \/ Start(r) \/ Return(r) \/ Stop(r) \/ Panic(r) \/ Recover(r)
  \/ Finish(r) \/ Lose(r)

Spec == Init /\ [][\E r \in Requests : Step(r)]_vars
=============================================================================
