----------------------------- MODULE Lifecycle -----------------------------
(***************************************************************************)
(* Starting and stopping a server: Run, RunTLS and RunUnix of the router,  *)
(* the port finder, the signal that ends a run, and Shutdown with its      *)
(* minute.  Several processes use the same addresses, one after the other  *)
(* or, in a rolling restart, at once; each may die at any step.            *)
(*                                                                         *)
(* net/http's Server and the kernel's addresses are modelled from how      *)
(* router.go uses them.                                                    *)
(***************************************************************************)
EXTENDS Naturals

CONSTANTS
  Processes,  \* the processes, each of which runs a router once
  Ports,      \* the ports that "port 0" may find
  Fixed,      \* the port the program names
  Sock,       \* the file of the unix socket
  Starts,     \* how main calls the router
  Conns,      \* the connections of one process
  None

ASSUME AddressAssumption == Fixed \notin Ports /\ Sock \notin Ports \cup {Fixed}
ASSUME NoneAssumption    == None \notin Processes \cup Ports \cup {Fixed, Sock}

VARIABLES
  start,    \* how a process was started
  pc,       \* where its main goroutine is
  address,  \* what it listens on
  holder,   \* of every port the process that has it, of the socket file the
            \* process that made it
  serve,    \* the goroutine of Serve
  conn,     \* the connections
  result,   \* what Run returned
  relieved  \* history: the processes that began to listen on the socket while
            \* another was still on it

vars == <<start, pc, address, holder, serve, conn, result, relieved>>

-----------------------------------------------------------------------------
Addresses == Ports \cup {Fixed, Sock}

\* Run with a port or with 0, RunTLS with a pair of files, with files that do
\* not load and without any, RunUnix.
AllStarts == {"port", "zero", "tls", "tlsBad", "tlsEmpty", "unix"}

\*   off      not started             find   port 0 asks for a port
\*   listen   calls net.Listen        open   has the listener
\*   wait     waits for a signal      stop   the signal came
\*   drain    Shutdown waits          defer  RunUnix removes the file
\*   close    ... closes the listener over   Run returned
\*   dead     the process is gone
PCs == {"off", "find", "listen", "open", "wait", "stop", "drain", "defer", "close", "over", "dead"}

\* Every variable has its type. (router.go:268-343)
TypeOK ==
  /\ start \in [Processes -> Starts]
  /\ pc \in [Processes -> PCs]
  /\ address \in [Processes -> Addresses]
  /\ holder \in [Addresses -> Processes \cup {None}]
  /\ serve \in [Processes -> {"no", "yes", "failed", "ended"}]
  /\ conn \in [Processes -> [Conns -> {"none", "request", "tunnel", "done", "cut", "torn"}]]
  /\ result \in [Processes -> {"none", "nil", "refused", "timeout"}]
  /\ relieved \subseteq Processes

Init ==
  /\ start \in [Processes -> Starts]
  /\ pc = [p \in Processes |-> "off"]
  /\ address = [p \in Processes |-> IF start[p] = "unix" THEN Sock ELSE Fixed]
  /\ holder = [a \in Addresses |-> None]
  /\ serve = [p \in Processes |-> "no"]
  /\ conn = [p \in Processes |-> [k \in Conns |-> "none"]]
  /\ result = [p \in Processes |-> "none"]
  /\ relieved = {}

-----------------------------------------------------------------------------
Goto(p, l) == pc' = [pc EXCEPT ![p] = l]

Return(p, res) ==
  /\ result' = [result EXCEPT ![p] = res]
  /\ Goto(p, "over")

\* The address, by whichever process it is held, is free again.
Free(a) == holder' = [holder EXCEPT ![a] = None]

\* main calls Run, RunTLS or RunUnix.
Begin(p) ==
  /\ pc[p] = "off"
  /\ Goto(p, IF start[p] = "zero" THEN "find" ELSE "listen")
  /\ UNCHANGED <<start, address, holder, serve, conn, result, relieved>>

\* A slip: the error of findPort is not looked at.
findPortUnchecked(p) ==
  /\ pc[p] = "find"
  /\ address' = [address EXCEPT ![p] = None]
  /\ Goto(p, "listen")
  /\ UNCHANGED <<start, holder, serve, conn, result, relieved>>

\* findPort listens on any free port and closes again: from here to Listen
\* the port is anybody's.
findPort(p) ==
  /\ pc[p] = "find"
  /\ \E a \in Ports : holder[a] = None /\ address' = [address EXCEPT ![p] = a]
  /\ Goto(p, "listen")
  /\ UNCHANGED <<start, holder, serve, conn, result, relieved>>

\* findPort, or Listen itself, finds nothing free; a socket file is in the way
\* also when its process died.
Refused(p) ==
  /\ \/ pc[p] = "find" /\ \A a \in Ports : holder[a] # None
     \/ pc[p] = "listen" /\ holder[address[p]] # None
  /\ Return(p, "refused")
  /\ UNCHANGED <<start, address, holder, serve, conn, relieved>>

\* Between net.Listen and the end of its deferred calls.
OnSocket(q) ==
  start[q] = "unix" /\ pc[q] \in {"open", "wait", "stop", "drain", "defer", "close"}

\* RunTLS without certFile returns and leaves the listener as it is.
Opens(p) ==
  /\ holder' = [holder EXCEPT ![address[p]] = p]
  /\ relieved' = IF start[p] = "unix" /\ \E q \in Processes : OnSocket(q)
                 THEN relieved \cup {p} ELSE relieved
  /\ IF start[p] = "tlsEmpty" THEN Return(p, "refused")
     ELSE Goto(p, "open") /\ UNCHANGED result
  /\ UNCHANGED <<start, address, serve, conn>>

\* A slip: RunUnix removes the file that is there, whoever listens on it.
ListenAnyway(p) ==
  /\ pc[p] = "listen" /\ (holder[address[p]] = None \/ start[p] = "unix")
  /\ Opens(p)

Listen(p) ==
  /\ pc[p] = "listen" /\ holder[address[p]] = None
  /\ Opens(p)

\* The goroutine of Serve.  ServeTLS fails before it takes the listener; after
\* Shutdown, Serve closes the listener and ends.  The error is only logged.  A
\* unix listener removes its file with the first Close only.
Serve(p) ==
  /\ serve[p] = "no"
  /\ pc[p] \in {"open", "wait", "stop", "drain", "defer", "close", "over"} /\ start[p] # "tlsEmpty"
  /\ result[p] # "refused"
  /\ IF start[p] = "tlsBad" THEN serve' = [serve EXCEPT ![p] = "failed"] /\ UNCHANGED holder
     ELSE IF pc[p] \in {"open", "wait", "stop"}
     THEN serve' = [serve EXCEPT ![p] = "yes"] /\ UNCHANGED holder
     ELSE /\ serve' = [serve EXCEPT ![p] = "ended"]
          /\ IF start[p] = "unix" /\ pc[p] = "over" THEN UNCHANGED holder ELSE Free(address[p])
  /\ UNCHANGED <<start, pc, address, conn, result, relieved>>

Notify(p) ==
  /\ pc[p] = "open"
  /\ Goto(p, "wait")
  /\ UNCHANGED <<start, address, holder, serve, conn, result, relieved>>

\* The first signal wakes run; later ones stay in the channel or are dropped.
Signal(p) ==
  /\ pc[p] = "wait"
  /\ Goto(p, "stop")
  /\ UNCHANGED <<start, address, holder, serve, conn, result, relieved>>

\* Shutdown closes the listener that Serve took; closing a unix listener
\* removes its file.
Shutdown(p) ==
  /\ pc[p] = "stop"
  /\ Goto(p, "drain")
  /\ IF serve[p] = "yes"
     THEN serve' = [serve EXCEPT ![p] = "ended"] /\ Free(address[p])
     ELSE UNCHANGED <<serve, holder>>
  /\ UNCHANGED <<start, address, conn, result, relieved>>

InFlight(p) == \E k \in Conns : conn[p][k] = "request"

\* run returns to Run or RunTLS, or to the deferred calls of RunUnix.
Leave(p, res) ==
  /\ result' = [result EXCEPT ![p] = res]
  /\ Goto(p, IF start[p] = "unix" THEN "defer" ELSE "over")
  /\ UNCHANGED <<start, address, holder, serve, conn, relieved>>

\* A slip: Close in the place of Shutdown.
Closed(p) == pc[p] = "drain" /\ Leave(p, "nil")

\* Shutdown waits for requests, not for connections that were hijacked.
Drained(p) == pc[p] = "drain" /\ ~InFlight(p) /\ Leave(p, "nil")

\* A slip: Shutdown(context.Background()).
NoTimeout(p) == FALSE

\* The minute is over.
Timeout(p) == pc[p] = "drain" /\ InFlight(p) /\ Leave(p, "timeout")

\* os.Remove(file), whoever made it.
Remove(p) ==
  /\ pc[p] = "defer"
  /\ Free(Sock)
  /\ Goto(p, "close")
  /\ UNCHANGED <<start, address, serve, conn, result, relieved>>

\* l.Close removes it once more, unless Serve or Shutdown closed l.
Close(p) ==
  /\ pc[p] = "close"
  /\ IF serve[p] = "ended" THEN UNCHANGED holder ELSE Free(Sock)
  /\ Goto(p, "over")
  /\ UNCHANGED <<start, address, serve, conn, result, relieved>>

\* The process ends: main returns after Run, or it dies, by SIGKILL, which
\* Notify does not catch, by any signal before Notify, or by a crash.  Its
\* ports are free, its socket file stays, its connections are lost.
Exit(p) ==
  /\ pc[p] \notin {"off", "dead"}
  /\ Goto(p, "dead")
  /\ holder' = [a \in Addresses |-> IF a # Sock /\ holder[a] = p THEN None ELSE holder[a]]
  /\ conn' = [conn EXCEPT ![p] = [k \in Conns |-> CASE @[k] = "request" -> "cut"
                                                    [] @[k] = "tunnel" -> "torn"
                                                    [] OTHER -> @[k]]]
  /\ UNCHANGED <<start, address, serve, result, relieved>>

\* A client reaches the server by its address.
Accept(p, k) ==
  /\ serve[p] = "yes" /\ pc[p] # "dead" /\ holder[address[p]] = p
  /\ conn[p][k] = "none"
  /\ conn' = [conn EXCEPT ![p][k] = "request"]
  /\ UNCHANGED <<start, pc, address, holder, serve, result, relieved>>

\* Its handler hijacks the connection, or answers.
Hijack(p, k) ==
  /\ conn[p][k] = "request"
  /\ conn' = [conn EXCEPT ![p][k] = "tunnel"]
  /\ UNCHANGED <<start, pc, address, holder, serve, result, relieved>>

End(p, k) ==
  /\ conn[p][k] \in {"request", "tunnel"}
  /\ conn' = [conn EXCEPT ![p][k] = "done"]
  /\ UNCHANGED <<start, pc, address, holder, serve, result, relieved>>

-----------------------------------------------------------------------------
Running(p) ==
  \/ findPort(p) \/ Refused(p) \/ Listen(p) \/ Serve(p) \/ Notify(p)
  \/ Shutdown(p) \/ Drained(p) \/ Timeout(p) \/ Remove(p) \/ Close(p)

World(p) ==
  \/ Begin(p) \/ Signal(p) \/ Exit(p)
  \/ \E k \in Conns : Accept(p, k) \/ Hijack(p, k) \/ End(p, k)

Terminated == (\A p \in Processes : pc[p] = "dead") /\ UNCHANGED vars

Next == (\E p \in Processes : Running(p) \/ World(p)) \/ Terminated

Spec == Init /\ [][Next]_vars

\* The goroutines of a process that lives go on, and the minute passes.  No
\* signal has to come and no request has to end.
FairSpec == Spec /\ \A p \in Processes : WF_vars(Running(p))

-----------------------------------------------------------------------------
(* Properties.                                                             *)

\* When Run returns nil no request was cut short and none is left for the end
\* of the process to cut: all that were under way when the signal came have
\* been answered.  Hijacked connections are not counted. (router.go:338-342)
Graceful ==
  \A p \in Processes : result[p] = "nil" =>
    \A k \in Conns : conn[p][k] \notin {"request", "cut"}

\* A server that serves can be reached at its address, however other processes
\* start, stop and die: none takes the port or removes the socket file.  The
\* exception is a socket opened while another process had still to run its
\* deferred os.Remove and l.Close. (router.go:310-315, port.go:20-29)
Reachable ==
  \A p \in Processes :
    pc[p] \in {"open", "wait", "stop"} /\ p \notin relieved => holder[address[p]] = p

\* After the signal Run returns or the process ends, though a request never
\* ends, Serve failed, or the socket is another's by now. (router.go:338-342)
RunEnds == \A p \in Processes : pc[p] = "stop" ~> pc[p] \in {"over", "dead"}
=============================================================================
