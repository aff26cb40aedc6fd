-------------------------- MODULE LifecycleProofs --------------------------
(***************************************************************************)
(* TypeOK, Graceful and Reachable of Lifecycle, for any number of          *)
(* processes, ports and connections.                                       *)
(***************************************************************************)
EXTENDS Lifecycle, TLAPS

-----------------------------------------------------------------------------
(* The inductive invariant.                                                *)

Listening == {"open", "wait", "stop"}

\* What the place of a process in its code says of it.
Placed(p) ==
  /\ start[p] = "unix" <=> address[p] = Sock
  /\ pc[p] = "find" => start[p] = "zero"
  /\ pc[p] \in {"defer", "close"} => start[p] = "unix"
  /\ serve[p] = "yes" => pc[p] \in Listening \cup {"dead"}
  /\ result[p] = "refused" => pc[p] \in {"over", "dead"}

\* A connection is cut by the end of its process only, and Run returns nil
\* when no request is left.
Answered(p) ==
  /\ \A k \in Conns : conn[p][k] = "cut" => pc[p] = "dead"
  /\ result[p] = "nil" => /\ pc[p] \in {"defer", "close", "over", "dead"}
                          /\ \A k \in Conns : conn[p][k] \notin {"request", "cut"}

\* A process that Serve or Shutdown may yet make close its port.
OnPort(p) ==
  /\ start[p] # "unix"
  /\ \/ pc[p] \in Listening
     \/ pc[p] \in {"drain", "over"} /\ serve[p] = "no" /\ result[p] # "refused"

\* ... has the port, so that it closes no other's.
HasPort(p) == OnPort(p) /\ start[p] # "tlsEmpty" => holder[address[p]] = p

\* A process whose socket nobody shares has it for itself.
HasSocket(p) ==
  start[p] = "unix" /\ pc[p] \in Listening /\ p \notin relieved =>
    /\ holder[Sock] = p
    /\ \A q \in Processes : q # p => ~OnSocket(q)

\* RunTLS without certFile never gets past the listener.
NoCertificate(p) == start[p] = "tlsEmpty" => pc[p] \in {"off", "listen", "over", "dead"}

Good(p) ==
  Placed(p) /\ Answered(p) /\ HasPort(p) /\ HasSocket(p) /\ NoCertificate(p)

Inv == TypeOK /\ \A p \in Processes : Good(p)

-----------------------------------------------------------------------------
LEMMA Addressed ==
  /\ Sock \in Addresses /\ Fixed \in Addresses /\ Fixed # Sock /\ Ports \subseteq Addresses
  /\ Sock \notin Ports /\ None \notin Processes
BY AddressAssumption, NoneAssumption DEF Addresses

\* The initial states satisfy the invariant.
LEMMA InitInv == Init => Inv
<1> SUFFICES ASSUME Init PROVE Inv
  OBVIOUS
<1>1. TypeOK
  BY Addressed DEF Init, TypeOK, PCs
<1>2. ASSUME NEW p \in Processes PROVE Good(p)
  BY Addressed
  DEF Init, Good, Placed, Answered, HasPort, OnPort, HasSocket, NoCertificate, Listening
<1> QED
  BY <1>1, <1>2 DEF Inv

\* Every step keeps the types.
LEMMA StepType == TypeOK /\ [Next]_vars => TypeOK'
<1> SUFFICES ASSUME TypeOK, [Next]_vars PROVE TypeOK'
  OBVIOUS
<1> USE Addressed DEF TypeOK, PCs
<1>1. ASSUME NEW p \in Processes, Begin(p) PROVE TypeOK'
  BY <1>1 DEF Begin, Goto
<1>2. ASSUME NEW p \in Processes, findPort(p) PROVE TypeOK'
  BY <1>2 DEF findPort, Goto
<1>3. ASSUME NEW p \in Processes, Refused(p) PROVE TypeOK'
  BY <1>3 DEF Refused, Return, Goto
<1>4. ASSUME NEW p \in Processes, Listen(p) PROVE TypeOK'
  BY <1>4 DEF Listen, Opens, Goto, Return, OnSocket
<1>5. ASSUME NEW p \in Processes, Serve(p) PROVE TypeOK'
  BY <1>5 DEF Serve, Free
<1>6. ASSUME NEW p \in Processes, Notify(p) PROVE TypeOK'
  BY <1>6 DEF Notify, Goto
<1>7. ASSUME NEW p \in Processes, Signal(p) PROVE TypeOK'
  BY <1>7 DEF Signal, Goto
<1>8. ASSUME NEW p \in Processes, Shutdown(p) PROVE TypeOK'
  BY <1>8 DEF Shutdown, Free, Goto
<1>9. ASSUME NEW p \in Processes, Drained(p) PROVE TypeOK'
  BY <1>9 DEF Drained, Leave, Goto
<1>10. ASSUME NEW p \in Processes, Timeout(p) PROVE TypeOK'
  BY <1>10 DEF Timeout, Leave, Goto
<1>11. ASSUME NEW p \in Processes, Remove(p) PROVE TypeOK'
  BY <1>11 DEF Remove, Free, Goto
<1>12. ASSUME NEW p \in Processes, Close(p) PROVE TypeOK'
  BY <1>12 DEF Close, Free, Goto
<1>13. ASSUME NEW p \in Processes, Exit(p) PROVE TypeOK'
  BY <1>13 DEF Exit, Goto
<1>14. ASSUME NEW p \in Processes, NEW k \in Conns, Accept(p, k) PROVE TypeOK'
  BY <1>14 DEF Accept
<1>15. ASSUME NEW p \in Processes, NEW k \in Conns, Hijack(p, k) PROVE TypeOK'
  BY <1>15 DEF Hijack
<1>16. ASSUME NEW p \in Processes, NEW k \in Conns, End(p, k) PROVE TypeOK'
  BY <1>16 DEF End
<1>17. CASE UNCHANGED vars
  BY <1>17 DEF vars
<1> QED
  BY <1>1, <1>2, <1>3, <1>4, <1>5, <1>6, <1>7, <1>8, <1>9, <1>10, <1>11, <1>12, <1>13,
     <1>14, <1>15, <1>16, <1>17
     DEF Next, Running, World, Terminated

\* Every step keeps the invariant.  What a step of p says of the others is said
\* of an arbitrary q, which may be p.
LEMMA StepInv == Inv /\ [Next]_vars => Inv'
<1> SUFFICES ASSUME Inv, [Next]_vars PROVE Inv'
  OBVIOUS
<1>0. TypeOK /\ \A q \in Processes : Good(q)
  BY DEF Inv
<1>typed. TypeOK'
  BY <1>0, StepType
<1>1. ASSUME NEW p \in Processes, Begin(p) PROVE \A q \in Processes : Good(q)'
  <2> SUFFICES ASSUME NEW q \in Processes PROVE Good(q)'
    OBVIOUS
  <2>1. Placed(q)'
    BY <1>0, <1>1, Addressed DEF Good, TypeOK, Listening, Begin, Goto, Placed
  <2>2. Answered(q)'
    BY <1>0, <1>1, Addressed DEF Good, TypeOK, Listening, Begin, Goto, Answered, Placed
  <2>3. HasPort(q)'
    BY <1>0, <1>1, Addressed
    DEF Good, TypeOK, Listening, Begin, Goto, HasPort, OnPort, Placed, NoCertificate
  <2>4. HasSocket(q)'
    BY <1>0, <1>1, Addressed
    DEF Good, TypeOK, Listening, Begin, Goto, HasSocket, OnSocket, Placed
  <2>5. NoCertificate(q)'
    BY <1>0, <1>1, Addressed DEF Good, TypeOK, Listening, Begin, Goto, NoCertificate
  <2> QED
    BY <2>1, <2>2, <2>3, <2>4, <2>5 DEF Good
<1>2. ASSUME NEW p \in Processes, findPort(p) PROVE \A q \in Processes : Good(q)'
  <2> SUFFICES ASSUME NEW q \in Processes PROVE Good(q)'
    OBVIOUS
  <2>1. Placed(q)'
    BY <1>0, <1>2, Addressed DEF Good, TypeOK, Listening, findPort, Goto, Placed
  <2>2. Answered(q)'
    BY <1>0, <1>2, Addressed
    DEF Good, TypeOK, Listening, findPort, Goto, Answered, Placed
  <2>3. HasPort(q)'
    BY <1>0, <1>2, Addressed
    DEF Good, TypeOK, Listening, findPort, Goto, HasPort, OnPort, Placed, NoCertificate
  <2>4. HasSocket(q)'
    BY <1>0, <1>2, Addressed
    DEF Good, TypeOK, Listening, findPort, Goto, HasSocket, OnSocket, Placed
  <2>5. NoCertificate(q)'
    BY <1>0, <1>2, Addressed DEF Good, TypeOK, Listening, findPort, Goto, NoCertificate
  <2> QED
    BY <2>1, <2>2, <2>3, <2>4, <2>5 DEF Good
<1>3. ASSUME NEW p \in Processes, Refused(p) PROVE \A q \in Processes : Good(q)'
  <2> SUFFICES ASSUME NEW q \in Processes PROVE Good(q)'
    OBVIOUS
  <2>1. Placed(q)'
    BY <1>0, <1>3, Addressed DEF Good, TypeOK, Listening, Refused, Return, Goto, Placed
  <2>2. Answered(q)'
    BY <1>0, <1>3, Addressed
    DEF Good, TypeOK, Listening, Refused, Return, Goto, Answered, Placed
  <2>3. HasPort(q)'
    BY <1>0, <1>3, Addressed
   
    DEF Good, TypeOK, Listening, Refused, Return, Goto, HasPort, OnPort, Placed,
       NoCertificate
  <2>4. HasSocket(q)'
    BY <1>0, <1>3, Addressed
    DEF Good, TypeOK, Listening, Refused, Return, Goto, HasSocket, OnSocket, Placed
  <2>5. NoCertificate(q)'
    BY <1>0, <1>3, Addressed
    DEF Good, TypeOK, Listening, Refused, Return, Goto, NoCertificate
  <2> QED
    BY <2>1, <2>2, <2>3, <2>4, <2>5 DEF Good
<1>4. ASSUME NEW p \in Processes, Listen(p) PROVE \A q \in Processes : Good(q)'
  <2> SUFFICES ASSUME NEW q \in Processes PROVE Good(q)'
    OBVIOUS
  <2>1. Placed(q)'
    BY <1>0, <1>4, Addressed
    DEF Good, TypeOK, Listening, Listen, Opens, Goto, Return, Placed
  <2>2. Answered(q)'
    BY <1>0, <1>4, Addressed
    DEF Good, TypeOK, Listening, Listen, Opens, Goto, Return, Answered, Placed
  <2>3. HasPort(q)'
    BY <1>0, <1>4, Addressed
   
    DEF Good, TypeOK, Listening, Listen, Opens, Goto, Return, HasPort, OnPort, Placed,
       NoCertificate
  <2>4. HasSocket(q)'
    BY <1>0, <1>4, Addressed
    DEF Good, TypeOK, Listening, Listen, Opens, Goto, Return, HasSocket, OnSocket, Placed
  <2>5. NoCertificate(q)'
    BY <1>0, <1>4, Addressed
    DEF Good, TypeOK, Listening, Listen, Opens, Goto, Return, NoCertificate
  <2> QED
    BY <2>1, <2>2, <2>3, <2>4, <2>5 DEF Good
<1>5. ASSUME NEW p \in Processes, Serve(p) PROVE \A q \in Processes : Good(q)'
  <2> SUFFICES ASSUME NEW q \in Processes PROVE Good(q)'
    OBVIOUS
  <2>1. Placed(q)'
    BY <1>0, <1>5, Addressed DEF Good, TypeOK, Listening, Serve, Free, Placed
  <2>2. Answered(q)'
    BY <1>0, <1>5, Addressed DEF Good, TypeOK, Listening, Serve, Free, Answered, Placed
  <2>3. HasPort(q)'
    BY <1>0, <1>5, Addressed
    DEF Good, TypeOK, Listening, Serve, Free, HasPort, OnPort, Placed, NoCertificate
  <2>4. HasSocket(q)'
    BY <1>0, <1>5, Addressed
    DEF Good, TypeOK, Listening, Serve, Free, HasSocket, OnSocket, Placed
  <2>5. NoCertificate(q)'
    BY <1>0, <1>5, Addressed DEF Good, TypeOK, Listening, Serve, Free, NoCertificate
  <2> QED
    BY <2>1, <2>2, <2>3, <2>4, <2>5 DEF Good
<1>6. ASSUME NEW p \in Processes, Notify(p) PROVE \A q \in Processes : Good(q)'
  <2> SUFFICES ASSUME NEW q \in Processes PROVE Good(q)'
    OBVIOUS
  <2>1. Placed(q)'
    BY <1>0, <1>6, Addressed DEF Good, TypeOK, Listening, Notify, Goto, Placed
  <2>2. Answered(q)'
    BY <1>0, <1>6, Addressed DEF Good, TypeOK, Listening, Notify, Goto, Answered, Placed
  <2>3. HasPort(q)'
    BY <1>0, <1>6, Addressed
    DEF Good, TypeOK, Listening, Notify, Goto, HasPort, OnPort, Placed, NoCertificate
  <2>4. HasSocket(q)'
    BY <1>0, <1>6, Addressed
    DEF Good, TypeOK, Listening, Notify, Goto, HasSocket, OnSocket, Placed
  <2>5. NoCertificate(q)'
    BY <1>0, <1>6, Addressed DEF Good, TypeOK, Listening, Notify, Goto, NoCertificate
  <2> QED
    BY <2>1, <2>2, <2>3, <2>4, <2>5 DEF Good
<1>7. ASSUME NEW p \in Processes, Signal(p) PROVE \A q \in Processes : Good(q)'
  <2> SUFFICES ASSUME NEW q \in Processes PROVE Good(q)'
    OBVIOUS
  <2>1. Placed(q)'
    BY <1>0, <1>7, Addressed DEF Good, TypeOK, Listening, Signal, Goto, Placed
  <2>2. Answered(q)'
    BY <1>0, <1>7, Addressed DEF Good, TypeOK, Listening, Signal, Goto, Answered, Placed
  <2>3. HasPort(q)'
    BY <1>0, <1>7, Addressed
    DEF Good, TypeOK, Listening, Signal, Goto, HasPort, OnPort, Placed, NoCertificate
  <2>4. HasSocket(q)'
    BY <1>0, <1>7, Addressed
    DEF Good, TypeOK, Listening, Signal, Goto, HasSocket, OnSocket, Placed
  <2>5. NoCertificate(q)'
    BY <1>0, <1>7, Addressed DEF Good, TypeOK, Listening, Signal, Goto, NoCertificate
  <2> QED
    BY <2>1, <2>2, <2>3, <2>4, <2>5 DEF Good
<1>8. ASSUME NEW p \in Processes, Shutdown(p) PROVE \A q \in Processes : Good(q)'
  <2> SUFFICES ASSUME NEW q \in Processes PROVE Good(q)'
    OBVIOUS
  <2>1. Placed(q)'
    BY <1>0, <1>8, Addressed DEF Good, TypeOK, Listening, Shutdown, Free, Goto, Placed
  <2>2. Answered(q)'
    BY <1>0, <1>8, Addressed
    DEF Good, TypeOK, Listening, Shutdown, Free, Goto, Answered, Placed
  <2>3. HasPort(q)'
    <3>1. Good(p) /\ Good(q)
      BY <1>0, <1>8
    <3>2. CASE q = p
      BY <1>0, <1>8, <3>1, <3>2
      DEF TypeOK, Listening, Good, Shutdown, Free, Goto, HasPort, OnPort
    <3>3. CASE q # p
      <4>1. OnPort(q)' => OnPort(q)
        BY <1>0, <1>8, <3>3 DEF TypeOK, Shutdown, Goto, Free, OnPort
      <4>2. start' = start /\ address' = address
        BY <1>8 DEF Shutdown
      <4>3. OnPort(q) /\ start[q] # "tlsEmpty" => holder'[address[q]] = q
        <5>1. CASE serve[p] = "yes"
          <6>1. holder' = [holder EXCEPT ![address[p]] = None]
            BY <1>8, <5>1 DEF Shutdown, Free
          <6>2. OnPort(q) /\ start[q] # "tlsEmpty" => address[q] # address[p]
            BY <1>8, <3>1, <3>3
            DEF Good, HasPort, OnPort, Placed, NoCertificate, Listening, Shutdown
          <6> QED
            BY <1>0, <3>1, <6>1, <6>2 DEF TypeOK, Good, HasPort
        <5>2. CASE serve[p] # "yes"
          BY <1>8, <3>1, <5>2 DEF Good, HasPort, Shutdown
        <5> QED
          BY <5>1, <5>2
      <4> QED
        BY <4>1, <4>2, <4>3 DEF HasPort
    <3> QED
      BY <3>2, <3>3
  <2>4. HasSocket(q)'
    BY <1>0, <1>8, Addressed
    DEF Good, TypeOK, Listening, Shutdown, Free, Goto, HasSocket, OnSocket, Placed
  <2>5. NoCertificate(q)'
    BY <1>0, <1>8, Addressed
    DEF Good, TypeOK, Listening, Shutdown, Free, Goto, NoCertificate
  <2> QED
    BY <2>1, <2>2, <2>3, <2>4, <2>5 DEF Good
<1>9. ASSUME NEW p \in Processes, Drained(p) PROVE \A q \in Processes : Good(q)'
  <2> SUFFICES ASSUME NEW q \in Processes PROVE Good(q)'
    OBVIOUS
  <2>1. Placed(q)'
    BY <1>0, <1>9, Addressed
    DEF Good, TypeOK, Listening, Drained, Leave, Goto, InFlight, Placed
  <2>2. Answered(q)'
    BY <1>0, <1>9, Addressed
    DEF Good, TypeOK, Listening, Drained, Leave, Goto, InFlight, Answered, Placed
  <2>3. HasPort(q)'
    BY <1>0, <1>9, Addressed
   
    DEF Good, TypeOK, Listening, Drained, Leave, Goto, InFlight, HasPort, OnPort, Placed,
       NoCertificate
  <2>4. HasSocket(q)'
    BY <1>0, <1>9, Addressed
   
    DEF Good, TypeOK, Listening, Drained, Leave, Goto, InFlight, HasSocket, OnSocket, Placed
  <2>5. NoCertificate(q)'
    BY <1>0, <1>9, Addressed
    DEF Good, TypeOK, Listening, Drained, Leave, Goto, InFlight, NoCertificate
  <2> QED
    BY <2>1, <2>2, <2>3, <2>4, <2>5 DEF Good
<1>10. ASSUME NEW p \in Processes, Timeout(p) PROVE \A q \in Processes : Good(q)'
  <2> SUFFICES ASSUME NEW q \in Processes PROVE Good(q)'
    OBVIOUS
  <2>1. Placed(q)'
    BY <1>0, <1>10, Addressed DEF Good, TypeOK, Listening, Timeout, Leave, Goto, Placed
  <2>2. Answered(q)'
    BY <1>0, <1>10, Addressed
    DEF Good, TypeOK, Listening, Timeout, Leave, Goto, Answered, Placed
  <2>3. HasPort(q)'
    BY <1>0, <1>10, Addressed
   
    DEF Good, TypeOK, Listening, Timeout, Leave, Goto, HasPort, OnPort, Placed,
       NoCertificate
  <2>4. HasSocket(q)'
    BY <1>0, <1>10, Addressed
    DEF Good, TypeOK, Listening, Timeout, Leave, Goto, HasSocket, OnSocket, Placed
  <2>5. NoCertificate(q)'
    BY <1>0, <1>10, Addressed
    DEF Good, TypeOK, Listening, Timeout, Leave, Goto, NoCertificate
  <2> QED
    BY <2>1, <2>2, <2>3, <2>4, <2>5 DEF Good
<1>11. ASSUME NEW p \in Processes, Remove(p) PROVE \A q \in Processes : Good(q)'
  <2> SUFFICES ASSUME NEW q \in Processes PROVE Good(q)'
    OBVIOUS
  <2>1. Placed(q)'
    BY <1>0, <1>11, Addressed DEF Good, TypeOK, Listening, Remove, Free, Goto, Placed
  <2>2. Answered(q)'
    BY <1>0, <1>11, Addressed
    DEF Good, TypeOK, Listening, Remove, Free, Goto, Answered, Placed
  <2>3. HasPort(q)'
    BY <1>0, <1>11, Addressed
   
    DEF Good, TypeOK, Listening, Remove, Free, Goto, HasPort, OnPort, Placed, NoCertificate
  <2>4. HasSocket(q)'
    BY <1>0, <1>11, Addressed
    DEF Good, TypeOK, Listening, Remove, Free, Goto, HasSocket, OnSocket, Placed
  <2>5. NoCertificate(q)'
    BY <1>0, <1>11, Addressed
    DEF Good, TypeOK, Listening, Remove, Free, Goto, NoCertificate
  <2> QED
    BY <2>1, <2>2, <2>3, <2>4, <2>5 DEF Good
<1>12. ASSUME NEW p \in Processes, Close(p) PROVE \A q \in Processes : Good(q)'
  <2> SUFFICES ASSUME NEW q \in Processes PROVE Good(q)'
    OBVIOUS
  <2>1. Placed(q)'
    BY <1>0, <1>12, Addressed DEF Good, TypeOK, Listening, Close, Free, Goto, Placed
  <2>2. Answered(q)'
    BY <1>0, <1>12, Addressed
    DEF Good, TypeOK, Listening, Close, Free, Goto, Answered, Placed
  <2>3. HasPort(q)'
    BY <1>0, <1>12, Addressed
    DEF Good, TypeOK, Listening, Close, Free, Goto, HasPort, OnPort, Placed, NoCertificate
  <2>4. HasSocket(q)'
    BY <1>0, <1>12, Addressed
    DEF Good, TypeOK, Listening, Close, Free, Goto, HasSocket, OnSocket, Placed
  <2>5. NoCertificate(q)'
    BY <1>0, <1>12, Addressed
    DEF Good, TypeOK, Listening, Close, Free, Goto, NoCertificate
  <2> QED
    BY <2>1, <2>2, <2>3, <2>4, <2>5 DEF Good
<1>13. ASSUME NEW p \in Processes, Exit(p) PROVE \A q \in Processes : Good(q)'
  <2> SUFFICES ASSUME NEW q \in Processes PROVE Good(q)'
    OBVIOUS
  <2>1. Placed(q)'
    BY <1>0, <1>13, Addressed DEF Good, TypeOK, Listening, Exit, Goto, Placed
  <2>2. Answered(q)'
    BY <1>0, <1>13, Addressed DEF Good, TypeOK, Listening, Exit, Goto, Answered, Placed
  <2>3. HasPort(q)'
    BY <1>0, <1>13, Addressed
    DEF Good, TypeOK, Listening, Exit, Goto, HasPort, OnPort, Placed, NoCertificate
  <2>4. HasSocket(q)'
    BY <1>0, <1>13, Addressed
    DEF Good, TypeOK, Listening, Exit, Goto, HasSocket, OnSocket, Placed
  <2>5. NoCertificate(q)'
    BY <1>0, <1>13, Addressed DEF Good, TypeOK, Listening, Exit, Goto, NoCertificate
  <2> QED
    BY <2>1, <2>2, <2>3, <2>4, <2>5 DEF Good
<1>14. ASSUME NEW p \in Processes, NEW k \in Conns, Accept(p, k)
      PROVE  \A q \in Processes : Good(q)'
  <2> SUFFICES ASSUME NEW q \in Processes PROVE Good(q)'
    OBVIOUS
  <2>1. Placed(q)'
    BY <1>0, <1>14, Addressed DEF Good, TypeOK, Listening, Accept, Placed
  <2>2. Answered(q)'
    BY <1>0, <1>14, Addressed DEF Good, TypeOK, Listening, Accept, Answered, Placed
  <2>3. HasPort(q)'
    BY <1>0, <1>14, Addressed
    DEF Good, TypeOK, Listening, Accept, HasPort, OnPort, Placed, NoCertificate
  <2>4. HasSocket(q)'
    BY <1>0, <1>14, Addressed
    DEF Good, TypeOK, Listening, Accept, HasSocket, OnSocket, Placed
  <2>5. NoCertificate(q)'
    BY <1>0, <1>14, Addressed DEF Good, TypeOK, Listening, Accept, NoCertificate
  <2> QED
    BY <2>1, <2>2, <2>3, <2>4, <2>5 DEF Good
<1>15. ASSUME NEW p \in Processes, NEW k \in Conns, Hijack(p, k)
      PROVE  \A q \in Processes : Good(q)'
  <2> SUFFICES ASSUME NEW q \in Processes PROVE Good(q)'
    OBVIOUS
  <2>1. Placed(q)'
    BY <1>0, <1>15, Addressed DEF Good, TypeOK, Listening, Hijack, Placed
  <2>2. Answered(q)'
    BY <1>0, <1>15, Addressed DEF Good, TypeOK, Listening, Hijack, Answered, Placed
  <2>3. HasPort(q)'
    BY <1>0, <1>15, Addressed
    DEF Good, TypeOK, Listening, Hijack, HasPort, OnPort, Placed, NoCertificate
  <2>4. HasSocket(q)'
    BY <1>0, <1>15, Addressed
    DEF Good, TypeOK, Listening, Hijack, HasSocket, OnSocket, Placed
  <2>5. NoCertificate(q)'
    BY <1>0, <1>15, Addressed DEF Good, TypeOK, Listening, Hijack, NoCertificate
  <2> QED
    BY <2>1, <2>2, <2>3, <2>4, <2>5 DEF Good
<1>16. ASSUME NEW p \in Processes, NEW k \in Conns, End(p, k)
      PROVE  \A q \in Processes : Good(q)'
  <2> SUFFICES ASSUME NEW q \in Processes PROVE Good(q)'
    OBVIOUS
  <2>1. Placed(q)'
    BY <1>0, <1>16, Addressed DEF Good, TypeOK, Listening, End, Placed
  <2>2. Answered(q)'
    BY <1>0, <1>16, Addressed DEF Good, TypeOK, Listening, End, Answered, Placed
  <2>3. HasPort(q)'
    BY <1>0, <1>16, Addressed
    DEF Good, TypeOK, Listening, End, HasPort, OnPort, Placed, NoCertificate
  <2>4. HasSocket(q)'
    BY <1>0, <1>16, Addressed
    DEF Good, TypeOK, Listening, End, HasSocket, OnSocket, Placed
  <2>5. NoCertificate(q)'
    BY <1>0, <1>16, Addressed DEF Good, TypeOK, Listening, End, NoCertificate
  <2> QED
    BY <2>1, <2>2, <2>3, <2>4, <2>5 DEF Good
<1>17. ASSUME UNCHANGED vars PROVE \A q \in Processes : Good(q)'
  <2> SUFFICES ASSUME NEW q \in Processes PROVE Good(q)'
    OBVIOUS
  <2>1. Good(q)
    BY <1>0
  <2>2. Placed(q)' /\ Answered(q)' /\ NoCertificate(q)'
    BY <1>17, <2>1 DEF vars, Good, Placed, Answered, NoCertificate
  <2>3. HasPort(q)'
    BY <1>17, <2>1 DEF vars, Good, HasPort, OnPort
  <2>4. HasSocket(q)'
    BY <1>17, <2>1 DEF vars, Good, HasSocket, OnSocket
  <2> QED
    BY <2>2, <2>3, <2>4 DEF Good
<1>18. ASSUME NEW p \in Processes, Running(p) PROVE \A q \in Processes : Good(q)'
  BY <1>18, <1>2, <1>3, <1>4, <1>5, <1>6, <1>8, <1>9, <1>10, <1>11, <1>12 DEF Running
<1>19. ASSUME NEW p \in Processes, World(p) PROVE \A q \in Processes : Good(q)'
  BY <1>19, <1>1, <1>7, <1>13, <1>14, <1>15, <1>16 DEF World
<1>20. \A q \in Processes : Good(q)'
  BY <1>17, <1>18, <1>19 DEF Next, Terminated
<1> QED
  BY <1>typed, <1>20 DEF Inv

-----------------------------------------------------------------------------
(* The theorems.                                                           *)

\* The invariant holds of every behaviour of Run, RunTLS and RunUnix.
\* (router.go:268-343, port.go:8-30)
THEOREM LifecycleInvariant == Spec => []Inv
<1> QED
  BY InitInv, StepInv, PTL DEF Spec

\* Every variable keeps its type. (router.go:268-343)
THEOREM LifecycleTypes == Spec => []TypeOK
<1>1. Inv => TypeOK
  BY DEF Inv
<1> QED
  BY <1>1, LifecycleInvariant, PTL

\* When Run returns nil, every request that was under way has been answered,
\* for any number of processes and connections. (router.go:338-342)
THEOREM ShutdownGraceful == Spec => []Graceful
<1>1. Inv => Graceful
  BY DEF Inv, Good, Answered, Graceful
<1> QED
  BY <1>1, LifecycleInvariant, PTL

\* A server that serves can be reached at its address, however many processes
\* start, stop and die beside it. (router.go:310-315, port.go:20-29)
THEOREM ServersReachable == Spec => []Reachable
<1>1. ASSUME Inv, NEW p \in Processes, pc[p] \in {"open", "wait", "stop"}, p \notin relieved
      PROVE  holder[address[p]] = p
  <2>1. Good(p)
    BY <1>1 DEF Inv
  <2>2. CASE start[p] = "unix"
    BY <1>1, <2>1, <2>2 DEF Good, Placed, HasSocket, Listening
  <2>3. CASE start[p] # "unix"
    BY <1>1, <2>1, <2>3 DEF Good, HasPort, OnPort, NoCertificate, Listening
  <2> QED
    BY <2>2, <2>3
<1>2. Inv => Reachable
  BY <1>1 DEF Reachable
<1> QED
  BY <1>2, LifecycleInvariant, PTL
=============================================================================
