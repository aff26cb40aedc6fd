--------------------------- MODULE ServingProofs ---------------------------
(***************************************************************************)
(* Theorems about Serving, for every set of requests, contexts, chains,    *)
(* statuses and operations and every bound on them.                        *)
(***************************************************************************)
EXTENDS Serving, ResponseWriterProofs, TLAPS

USE DEF nextIndex

-----------------------------------------------------------------------------
(* The error page.                                                         *)

\* serveError keeps a response sound.
LEMMA ServeErrorSound ==
  ASSUME NEW w, Sound(w), NEW code \in Statuses
  PROVE  Sound(serveError(w, code))
<1> DEFINE v == IF w.status = StatusOK THEN WriteHeader(w, code) ELSE w
<1>1. Sound(v)
  BY WriteHeaderSound
<1>2. Sound(Render(v, code, "page")) /\ Sound(WriteHeaderNow(v))
  <2> HIDE DEF v
  <2> QED
    BY <1>1, RenderSound, WriteHeaderNowSound DEF Authors
<1> QED
  BY <1>1, <1>2 DEF serveError

-----------------------------------------------------------------------------
(* The inductive invariant.                                                *)

Lesser(m, n) == IF m < n THEN m ELSE n

\* The context of a request under way is its own, in every field.
Own(r) ==
  /\ held[r] \notin pool
  /\ \A s \in Requests : held[s] = held[r] => s = r
  /\ C(r).w = r
  /\ C(r).errs \cup C(r).mp \cup C(r).params \subseteq {r}
  /\ C(r).skip <=> r \in aborted
  /\ IF pc[r] = "dispatch" THEN C(r).index = -1 ELSE C(r).index \in Nat

\* How many handlers a chain nobody stopped has started: at the head of the
\* loop all those before the index, inside a handler also the one at it.
Started(r) ==
  LET n == Len(C(r).handler)
  IN  /\ pc[r] = "loop" => Len(ran[r]) = Lesser(C(r).index, n)
      /\ pc[r] \in {"enter", "resume", "panic"}
           => Len(ran[r]) = Lesser(C(r).index + 1, n)
      /\ pc[r] \in {"tail", "put"} => Len(ran[r]) = n /\ C(r).index >= n

\* What holds of one request.
Inv(r) ==
  /\ Sound(resp[r])
  /\ held[r] = None <=> pc[r] \in {"idle", "done"}
  /\ InFlight(r) => Own(r) /\ (~C(r).skip => Started(r))
  /\ pc[r] \in {"idle", "dispatch"} => ran[r] = << >>
  /\ pc[r] = "idle" => r \notin aborted
  /\ \A k \in 1..Len(ran[r]) : ran[r][k] = k - 1

IInv == TypeOK /\ \A r \in Requests : Inv(r)

-----------------------------------------------------------------------------
(* A step between Dispatch and Put changes only what belongs to its request *)
(* and leaves that in order.                                               *)

\* Nothing but the state of r changes.
Local(r) ==
  /\ UNCHANGED <<pool, held>>
  /\ ctx' = [ctx EXCEPT ![held[r]] = ctx'[held[r]]]
  /\ pc' = [pc EXCEPT ![r] = pc'[r]]
  /\ stack' = [stack EXCEPT ![r] = stack'[r]]
  /\ route' = [route EXCEPT ![r] = route'[r]]
  /\ resp' = [resp EXCEPT ![r] = resp'[r]]
  /\ fuel' = [fuel EXCEPT ![r] = fuel'[r]]
  /\ ran' = [ran EXCEPT ![r] = ran'[r]]
  /\ logged' = [logged EXCEPT ![r] = logged'[r]]
  /\ aborted' \in {aborted, aborted \cup {r}}

Inside == PCs \ {"idle", "done", "dispatch"}

\* The state of r after the step.
After(r) ==
  /\ ctx'[held[r]] \in Context
  /\ pc'[r] \in Inside
  /\ stack'[r] \in Seq(Nat)
  /\ route'[r] \in Routes
  /\ Sound(resp'[r])
  /\ fuel'[r] \in 0..MaxOps
  /\ ran'[r] \in Seq(Nat)
  /\ logged'[r] \in Seq(Nat)
  /\ C(r)'.w = r
  /\ C(r)'.errs \cup C(r)'.mp \cup C(r)'.params \subseteq {r}
  /\ C(r)'.skip <=> r \in aborted'
  /\ C(r)'.index \in Nat
  /\ ~C(r)'.skip => Started(r)'
  /\ \A k \in 1..Len(ran'[r]) : ran'[r][k] = k - 1

\* Such a step keeps the invariant, also of the other requests: their contexts
\* are others.
LEMMA LocalKeeps ==
  ASSUME IInv, NEW r \in Requests, held[r] \in Contexts, Local(r), After(r)
  PROVE  IInv'
<1> USE NoneAssumption
<1>1. TypeOK'
  <2> USE DEF IInv, TypeOK, Local, After
  <2>1. pool' \subseteq Contexts /\ held' \in [Requests -> Contexts \cup {None}]
    OBVIOUS
  <2>2. ctx' \in [Contexts -> Context]
    OBVIOUS
  <2>3. pc' \in [Requests -> PCs]
    BY DEF Inside
  <2>4. /\ stack' \in [Requests -> Seq(Nat)]
        /\ route' \in [Requests -> Routes]
        /\ fuel' \in [Requests -> 0..MaxOps]
    OBVIOUS
  <2>5. /\ ran' \in [Requests -> Seq(Nat)]
        /\ logged' \in [Requests -> Seq(Nat)]
    OBVIOUS
  <2>6. aborted' \subseteq Requests
    <3>1. aborted' \subseteq aborted \cup {r}
      OBVIOUS
    <3> QED
      BY <3>1
  <2>7. resp' \in [Requests -> Response]
    BY DEF Sound
  <2> QED
    BY <2>1, <2>2, <2>3, <2>4, <2>5, <2>6, <2>7
<1>2. ASSUME NEW s \in Requests
      PROVE  Inv(s)'
  <2>1. CASE s = r
    BY <2>1 DEF IInv, TypeOK, Inv, InFlight, Own, Local, After, Inside, C
  <2>2. CASE s # r
    <3>1. /\ pc'[s] = pc[s] /\ ran'[s] = ran[s] /\ resp'[s] = resp[s]
          /\ held' = held /\ pool' = pool /\ (s \in aborted' <=> s \in aborted)
      BY <2>2 DEF IInv, TypeOK, Local
    <3>2. held[s] # None => ctx'[held[s]] = ctx[held[s]]
      <4> SUFFICES ASSUME held[s] # None PROVE ctx'[held[s]] = ctx[held[s]]
        OBVIOUS
      <4>1. held[s] \in Contexts /\ held[s] # held[r]
        BY <2>2 DEF IInv, TypeOK, Inv, InFlight, Own
      <4> QED
        BY <4>1 DEF IInv, TypeOK, Local
    <3>3. Inv(s)
      BY DEF IInv
    <3>4. InFlight(s)' <=> InFlight(s)
      BY <3>1 DEF InFlight
    <3>5. InFlight(s) => C(s)' = C(s)
      BY <3>1, <3>2 DEF InFlight, C
    <3>6. InFlight(s) /\ Own(s) => Own(s)'
      BY <3>1, <3>5 DEF Own
    <3>7. InFlight(s) /\ Started(s) => Started(s)'
      BY <3>1, <3>5 DEF Started
    <3> QED
      BY <3>1, <3>3, <3>4, <3>5, <3>6, <3>7 DEF Inv
  <2> QED
    BY <2>1, <2>2
<1> QED
  BY <1>1, <1>2 DEF IInv

\* The request's context and response while it is being served.
LEMMA Holding ==
  ASSUME IInv, NEW r \in Requests, pc[r] \notin {"idle", "done"}
  PROVE  /\ held[r] \in Contexts
         /\ C(r) \in Context
         /\ C(r).w = r
         /\ W(r) = resp[r]
         /\ Sound(W(r))
<1>1. held[r] \in Contexts
  BY DEF IInv, TypeOK, Inv
<1>2. C(r) \in Context /\ C(r).w = r
  BY <1>1, NoneAssumption DEF IInv, TypeOK, Inv, InFlight, Own, C
<1> QED
  BY <1>1, <1>2 DEF W, IInv, Inv

\* A handler's call, other than Next, that keeps the place in the chain.
LEMMA CallKeeps ==
  ASSUME IInv, NEW r \in Requests, NEW op, Calls(r, op),
         NEW c \in Context, ctx' = [ctx EXCEPT ![held[r]] = c],
         NEW w, Sound(w), resp' = [resp EXCEPT ![r] = w],
         c.w = r, c.handler = C(r).handler, c.index = C(r).index,
         c.errs \cup c.mp \cup c.params \subseteq {r},
         C(r).skip => c.skip, c.skip <=> r \in aborted',
         aborted' \in {aborted, aborted \cup {r}},
         pc' = pc \/ Goto(r, "panic")
  PROVE  IInv'
<1>1. pc[r] \in {"enter", "resume"} /\ held[r] \in Contexts /\ InFlight(r)
  BY Holding, NoneAssumption DEF Calls, InFlight
<1>2. UNCHANGED <<pool, held, stack, route, ran, logged>>
  BY DEF Calls
<1>3. ctx'[held[r]] = c /\ C(r)' = c /\ resp'[r] = w
  BY <1>1, <1>2 DEF IInv, TypeOK, C
<1>4. pc'[r] \in {"enter", "resume", "panic"} /\ pc' = [pc EXCEPT ![r] = pc'[r]]
  BY <1>1 DEF IInv, TypeOK, Goto
<1>5. fuel'[r] \in 0..MaxOps /\ fuel' = [fuel EXCEPT ![r] = fuel'[r]]
  BY OpsAssumption DEF Calls, IInv, TypeOK
<1>6. ~c.skip => Started(r)'
  <2> SUFFICES ASSUME ~c.skip PROVE Started(r)'
    OBVIOUS
  <2>1. Started(r)
    BY <1>1 DEF IInv, Inv
  <2> QED
    BY <1>1, <1>2, <1>3, <1>4, <2>1 DEF Started
<1>7. Local(r)
  <2>1. /\ stack' = [stack EXCEPT ![r] = stack'[r]]
        /\ route' = [route EXCEPT ![r] = route'[r]]
        /\ ran' = [ran EXCEPT ![r] = ran'[r]]
        /\ logged' = [logged EXCEPT ![r] = logged'[r]]
    BY <1>2 DEF IInv, TypeOK
  <2> QED
    BY <1>2, <1>3, <1>4, <1>5, <2>1 DEF Local
<1>8. After(r)
  <2>1. Own(r)
    BY <1>1 DEF IInv, Inv
  <2>2. /\ stack'[r] \in Seq(Nat) /\ route'[r] \in Routes
        /\ ran'[r] \in Seq(Nat) /\ logged'[r] \in Seq(Nat)
        /\ \A k \in 1..Len(ran'[r]) : ran'[r][k] = k - 1
    BY <1>2 DEF IInv, TypeOK, Inv
  <2>3. pc'[r] \in Inside
    BY <1>4 DEF Inside, PCs
  <2>4. C(r)'.index \in Nat
    BY <1>1, <1>3, <2>1 DEF Own
  <2> QED
    BY <1>3, <1>5, <1>6, <2>2, <2>3, <2>4 DEF After
<1> QED
  BY <1>1, <1>7, <1>8, LocalKeeps

\* A handler's call that touches its response only.
LEMMA ResponseCallKeeps ==
  ASSUME IInv, NEW r \in Requests, NEW op, Calls(r, op),
         NEW w, Sound(w), Respond(r, w), UNCHANGED <<ctx, aborted>>,
         pc' = pc \/ Goto(r, "panic")
  PROVE  IInv'
<1>1. /\ pc[r] \notin {"idle", "done"}
      /\ held[r] \in Contexts /\ C(r) \in Context /\ InFlight(r)
  BY Holding, NoneAssumption DEF Calls, InFlight
<1>2. ctx' = [ctx EXCEPT ![held[r]] = C(r)]
  BY <1>1 DEF IInv, TypeOK, C
<1>3. resp' = [resp EXCEPT ![r] = w]
  BY <1>1, Holding DEF Respond
<1>4. Own(r) /\ pc[r] # "dispatch"
  BY <1>1 DEF IInv, Inv, Calls
<1> QED
  BY <1>1, <1>2, <1>3, <1>4, CallKeeps, ZenonT(30) DEF Own

-----------------------------------------------------------------------------
(* Every action keeps the invariant.                                       *)

\* Skip, the call and the part of the aborts.
LEMMA SkipKeeps ==
  ASSUME IInv, NEW r \in Requests, NEW op, Calls(r, op), Skip(r),
         NEW w, Sound(w), resp' = [resp EXCEPT ![r] = w],
         pc' = pc \/ Goto(r, "panic")
  PROVE  IInv'
<1> DEFINE c == [C(r) EXCEPT !.skip = TRUE]
<1>1. /\ pc[r] \in {"enter", "resume"}
      /\ held[r] \in Contexts /\ C(r) \in Context /\ InFlight(r)
  BY Holding, NoneAssumption DEF Calls, InFlight
<1>2. c \in Context
  BY <1>1 DEF Context
<1>3. ctx' = [ctx EXCEPT ![held[r]] = c]
  BY <1>1 DEF Skip, IInv, TypeOK, C
<1>4. Own(r)
  BY <1>1 DEF IInv, Inv
<1>5. /\ c.w = r /\ c.handler = C(r).handler /\ c.index = C(r).index
      /\ c.errs \cup c.mp \cup c.params \subseteq {r} /\ c.skip
  BY <1>1, <1>4 DEF Own, Context
<1>6. aborted' = aborted \cup {r} /\ r \in aborted'
  BY DEF Skip
<1> HIDE DEF c
<1> QED
  BY <1>2, <1>3, <1>5, <1>6, CallKeeps

\* Whatever a handler calls, the invariant is kept.
LEMMA CallsKeep ==
  ASSUME IInv, NEW r \in Requests, Call(r), ~CallNext(r)
  PROVE  IInv'
<1> USE CodesAssumption DEF Statuses
<1>0. ASSUME NEW op, Calls(r, op)
      PROVE  /\ W(r) = resp[r] /\ Sound(resp[r]) /\ Sound(W(r))
             /\ pc[r] \in {"enter", "resume"}
             /\ held[r] \in Contexts /\ C(r) \in Context /\ InFlight(r) /\ Own(r)
             /\ resp = [resp EXCEPT ![r] = resp[r]]
             /\ Respond(r, resp[r]) <=> resp' = resp
  <2>1. pc[r] \in {"enter", "resume"}
    BY <1>0 DEF Calls
  <2>2. held[r] \in Contexts /\ C(r) \in Context /\ W(r) = resp[r] /\ Sound(W(r))
        /\ C(r).w = r
    BY <2>1, Holding
  <2>3. InFlight(r) /\ Own(r)
    BY <2>2, NoneAssumption DEF IInv, Inv, InFlight
  <2>4. resp = [resp EXCEPT ![r] = resp[r]]
    BY DEF IInv, TypeOK
  <2> QED
    BY <2>1, <2>2, <2>3, <2>4 DEF Respond
<1>1. CASE CallSetStatus(r)
  <2>1. PICK code \in Codes : Respond(r, WriteHeader(W(r), code))
    BY <1>1 DEF CallSetStatus
  <2>2. Calls(r, "SetStatus") /\ UNCHANGED <<ctx, pc, aborted>>
    BY <1>1 DEF CallSetStatus
  <2>3. Sound(WriteHeader(W(r), code))
    BY <1>0, <2>2, WriteHeaderSound
  <2> QED
    BY <2>1, <2>2, <2>3, ResponseCallKeeps
<1>2. CASE CallRender(r)
  <2>1. PICK code \in Codes : /\ Respond(r, Render(W(r), code, "app"))
                              /\ ReturnsIf(r, RenderOK(W(r), code))
    BY <1>2 DEF CallRender
  <2>2. Calls(r, "Render") /\ UNCHANGED <<ctx, aborted>>
    BY <1>2 DEF CallRender
  <2>3. Sound(Render(W(r), code, "app"))
    BY <1>0, <2>2, RenderSound DEF Authors
  <2> QED
    BY <2>1, <2>2, <2>3, ResponseCallKeeps DEF ReturnsIf
<1>3. CASE CallRenderFails(r)
  <2>1. PICK code \in Codes : \/ Respond(r, WriteHeader(W(r), code))
                              \/ Respond(r, Render(W(r), code, "app"))
    BY <1>3 DEF CallRenderFails
  <2>2. Calls(r, "RenderFails") /\ UNCHANGED <<ctx, aborted>> /\ Goto(r, "panic")
    BY <1>3 DEF CallRenderFails
  <2>3. Sound(WriteHeader(W(r), code)) /\ Sound(Render(W(r), code, "app"))
    BY <1>0, <2>2, WriteHeaderSound, RenderSound DEF Authors
  <2> QED
    BY <2>1, <2>2, <2>3, ResponseCallKeeps
<1>4. CASE CallRedirect(r)
  <2>1. PICK code \in Codes :
          \/ Respond(r, WriteHeader(W(r), code)) /\ UNCHANGED pc
          \/ Respond(r, Write(WriteHeader(W(r), code), "app")) /\ UNCHANGED pc
          \/ UNCHANGED resp /\ Goto(r, "panic")
    BY <1>4 DEF CallRedirect
  <2>2. Calls(r, "Redirect") /\ UNCHANGED <<ctx, aborted>>
    BY <1>4 DEF CallRedirect
  <2>3. Sound(WriteHeader(W(r), code))
    BY <1>0, <2>2, WriteHeaderSound
  <2>4. Sound(Write(WriteHeader(W(r), code), "app"))
    BY <2>3, WriteSound DEF Authors
  <2>5. UNCHANGED resp => Respond(r, resp[r])
    BY <1>0, <2>2
  <2>6. Sound(resp[r])
    BY <1>0, <2>2
  <2> QED
    BY <2>1, <2>2, <2>3, <2>4, <2>5, <2>6, ResponseCallKeeps
<1>5. CASE CallSkip(r)
  <2>1. Calls(r, "Skip") /\ Skip(r) /\ UNCHANGED <<pc, resp>>
    BY <1>5 DEF CallSkip
  <2> QED
    BY <1>0, <2>1, SkipKeeps
<1>6. CASE CallAbortWithStatus(r)
  <2>1. Calls(r, "AbortWithStatus") /\ UNCHANGED pc
    BY <1>6 DEF CallAbortWithStatus
  <2>2. CASE C(r).skip
    <3>1. UNCHANGED <<ctx, resp, aborted>>
      BY <1>6, <2>2 DEF CallAbortWithStatus
    <3> QED
      BY <1>0, <2>1, <3>1, ResponseCallKeeps
  <2>3. CASE ~C(r).skip
    <3>1. PICK code \in Codes : Respond(r, WriteHeader(W(r), code)) /\ Skip(r)
      BY <1>6, <2>3 DEF CallAbortWithStatus
    <3>2. Sound(WriteHeader(W(r), code))
      BY <1>0, <2>1, WriteHeaderSound
    <3>3. resp' = [resp EXCEPT ![r] = WriteHeader(W(r), code)]
      BY <1>0, <2>1, <3>1, ZenonT(30) DEF Respond, Own
    <3> QED
      BY <2>1, <3>1, <3>2, <3>3, SkipKeeps, ZenonT(30)
  <2> QED
    BY <2>2, <2>3
<1>7. CASE CallAbortWithStatusAndMessage(r)
  <2>1. Calls(r, "AbortWithStatusAndMessage")
    BY <1>7 DEF CallAbortWithStatusAndMessage
  <2>2. CASE C(r).skip
    <3>1. UNCHANGED <<ctx, pc, resp, aborted>>
      BY <1>7, <2>2 DEF CallAbortWithStatusAndMessage
    <3> QED
      BY <1>0, <2>1, <3>1, ResponseCallKeeps
  <2>3. CASE ~C(r).skip
    <3>1. PICK code \in Codes : /\ Respond(r, Render(W(r), code, "app")) /\ Skip(r)
                                /\ ReturnsIf(r, RenderOK(W(r), code))
      BY <1>7, <2>3 DEF CallAbortWithStatusAndMessage
    <3>2. Sound(Render(W(r), code, "app"))
      BY <1>0, <2>1, RenderSound DEF Authors
    <3>3. resp' = [resp EXCEPT ![r] = Render(W(r), code, "app")]
      BY <1>0, <2>1, <3>1, ZenonT(30) DEF Respond, Own
    <3> QED
      BY <2>1, <3>1, <3>2, <3>3, SkipKeeps, ZenonT(30) DEF ReturnsIf
  <2> QED
    BY <2>2, <2>3
<1>8. CASE CallError(r) \/ CallSet(r)
  <2> DEFINE c == ctx'[held[r]]
  <2>1. PICK op : Calls(r, op)
    BY <1>8 DEF CallError, CallSet
  <2>2. UNCHANGED <<pc, resp, aborted>>
    BY <1>8 DEF CallError, CallSet
  <2>3. /\ c \in Context /\ ctx' = [ctx EXCEPT ![held[r]] = c]
        /\ c.w = C(r).w /\ c.handler = C(r).handler /\ c.index = C(r).index
        /\ c.skip = C(r).skip /\ c.params = C(r).params
        /\ c.errs \subseteq C(r).errs \cup {r} /\ c.mp \subseteq C(r).mp \cup {r}
    <3>1. CASE CallError(r)
      <4> DEFINE d == [C(r) EXCEPT !.errs = @ \cup {r}]
      <4>1. ctx' = [ctx EXCEPT ![held[r]] = d]
        BY <3>1 DEF CallError, C
      <4>2. c = d
        BY <1>0, <2>1, <4>1 DEF IInv, TypeOK
      <4>3. d \in Context
        BY <1>0, <2>1 DEF Context
      <4>4. /\ d.w = C(r).w /\ d.handler = C(r).handler /\ d.index = C(r).index
            /\ d.skip = C(r).skip /\ d.params = C(r).params
            /\ d.errs \subseteq C(r).errs \cup {r}
            /\ d.mp \subseteq C(r).mp \cup {r}
        BY <1>0, <2>1 DEF Context
      <4> HIDE DEF c, d
      <4> QED
        BY <4>1, <4>2, <4>3, <4>4
    <3>2. CASE CallSet(r)
      <4> DEFINE d == [C(r) EXCEPT !.mp = @ \cup {r}]
      <4>1. ctx' = [ctx EXCEPT ![held[r]] = d]
        BY <3>2 DEF CallSet, C
      <4>2. c = d
        BY <1>0, <2>1, <4>1 DEF IInv, TypeOK
      <4>3. d \in Context
        BY <1>0, <2>1 DEF Context
      <4>4. /\ d.w = C(r).w /\ d.handler = C(r).handler /\ d.index = C(r).index
            /\ d.skip = C(r).skip /\ d.params = C(r).params
            /\ d.errs \subseteq C(r).errs \cup {r}
            /\ d.mp \subseteq C(r).mp \cup {r}
        BY <1>0, <2>1 DEF Context
      <4> HIDE DEF c, d
      <4> QED
        BY <4>1, <4>2, <4>3, <4>4
    <3> QED
      BY <1>8, <3>1, <3>2
  <2>4. Own(r) /\ resp' = [resp EXCEPT ![r] = resp[r]] /\ Sound(resp[r])
    BY <1>0, <2>1, <2>2
  <2> HIDE DEF c
  <2>5. c.errs \cup c.mp \cup c.params \subseteq {r} /\ c.w = r
        /\ (c.skip <=> r \in aborted')
    BY <2>2, <2>3, <2>4 DEF Own
  <2> QED
    BY <2>1, <2>2, <2>3, <2>4, <2>5, CallKeeps, ZenonT(30)
<1>9. CASE CallWrite(r)
  <2>1. Calls(r, "Write") /\ Respond(r, Write(W(r), "app"))
        /\ UNCHANGED <<ctx, pc, aborted>>
    BY <1>9 DEF CallWrite
  <2> QED
    BY <1>0, <2>1, WriteSound, ResponseCallKeeps DEF Authors
<1>10. CASE CallFlush(r)
  <2>1. Calls(r, "Flush") /\ Respond(r, Flush(W(r))) /\ UNCHANGED <<ctx, pc, aborted>>
    BY <1>10 DEF CallFlush
  <2> QED
    BY <1>0, <2>1, FlushSound, ResponseCallKeeps
<1>11. CASE CallHijack(r)
  <2>1. /\ Calls(r, "Hijack") /\ Respond(r, Hijack(W(r)))
        /\ ReturnsIf(r, W(r).hijackable) /\ UNCHANGED <<ctx, aborted>>
    BY <1>11 DEF CallHijack
  <2> QED
    BY <1>0, <2>1, HijackSound, ResponseCallKeeps DEF ReturnsIf
<1>12. CASE CallPanic(r)
  <2>1. Calls(r, "Panic") /\ Goto(r, "panic") /\ UNCHANGED <<ctx, resp, aborted>>
    BY <1>12 DEF CallPanic
  <2> QED
    BY <1>0, <2>1, ResponseCallKeeps
<1> QED
  BY <1>1, <1>2, <1>3, <1>4, <1>5, <1>6, <1>7, <1>8, <1>9, <1>10, <1>11, <1>12
     DEF Call

\* Moving the index leaves the rest of a context alone.
LEMMA IndexMoved ==
  ASSUME NEW x \in Context, NEW i \in Int, NEW c, c = [x EXCEPT !.index = i]
  PROVE  /\ c \in Context /\ c.index = i /\ c.handler = x.handler /\ c.w = x.w
         /\ c.skip = x.skip /\ c.errs = x.errs /\ c.mp = x.mp
         /\ c.params = x.params
BY DEF Context

\* A handler calls Next or returns to the loop: the index moves past it.
LEMMA AdvanceKeeps ==
  ASSUME IInv, NEW r \in Requests, pc[r] \in {"enter", "resume", "panic"},
         Advance(r),
         NEW t \in Seq(Nat), stack' = [stack EXCEPT ![r] = t],
         NEW f \in 0..MaxOps, fuel' = [fuel EXCEPT ![r] = f],
         NEW l \in Seq(Nat), logged' = [logged EXCEPT ![r] = l],
         UNCHANGED <<pool, held, route, ran, resp, aborted>>
  PROVE  IInv'
<1> DEFINE c == [C(r) EXCEPT !.index = @ + 1]
<1>1. held[r] \in Contexts /\ C(r) \in Context /\ InFlight(r)
  BY Holding, NoneAssumption DEF InFlight
<1>2. ctx' = [ctx EXCEPT ![held[r]] = c] /\ pc' = [pc EXCEPT ![r] = "loop"]
  BY DEF Advance, Goto, C
<1>3. c = ctx'[held[r]] /\ C(r)' = c /\ pc'[r] = "loop"
  BY <1>1, <1>2 DEF IInv, TypeOK, C
<1>4. Own(r) /\ (~C(r).skip => Started(r))
  BY <1>1 DEF IInv, Inv
<1>5. C(r).index \in Nat
  BY <1>4 DEF Own
<1>6. /\ c \in Context /\ c.index = C(r).index + 1 /\ c.handler = C(r).handler
      /\ c.w = C(r).w /\ c.skip = C(r).skip /\ c.errs = C(r).errs
      /\ c.mp = C(r).mp /\ c.params = C(r).params
  BY <1>1, <1>5, IndexMoved, C(r).index + 1 \in Int
<1> HIDE DEF c
<1>7. Local(r)
  <2>1. stack'[r] = t /\ fuel'[r] = f /\ logged'[r] = l
    BY DEF IInv, TypeOK
  <2>2. /\ route' = [route EXCEPT ![r] = route'[r]]
        /\ resp' = [resp EXCEPT ![r] = resp'[r]]
        /\ ran' = [ran EXCEPT ![r] = ran'[r]]
    BY DEF IInv, TypeOK
  <2> QED
    BY <1>2, <1>3, <2>1, <2>2 DEF Local
<1>8. After(r)
  <2>1. /\ stack'[r] \in Seq(Nat) /\ fuel'[r] \in 0..MaxOps /\ logged'[r] \in Seq(Nat)
        /\ route'[r] \in Routes /\ ran'[r] \in Seq(Nat) /\ Sound(resp'[r])
        /\ \A k \in 1..Len(ran'[r]) : ran'[r][k] = k - 1
    BY DEF IInv, TypeOK, Inv
  <2>2. pc'[r] \in Inside
    BY <1>3 DEF Inside, PCs
  <2>3. ~c.skip => Started(r)'
    BY <1>3, <1>4, <1>6 DEF Started
  <2>4. /\ c.index \in Nat /\ c.w = r
        /\ c.errs \cup c.mp \cup c.params \subseteq {r} /\ (c.skip <=> r \in aborted')
    BY <1>4, <1>5, <1>6 DEF Own
  <2> QED
    BY <1>3, <1>6, <2>1, <2>2, <2>3, <2>4 DEF After
<1> QED
  BY <1>1, <1>7, <1>8, LocalKeeps

\* A frame less is a stack.
LEMMA PopType ==
  ASSUME NEW s \in Seq(Nat)
  PROVE  SubSeq(s, 1, Len(s) - 1) \in Seq(Nat)
OBVIOUS

\* The handler on top of the stack returns.
LEMMA ReturnsKeep ==
  ASSUME IInv, NEW r \in Requests, pc[r] \in {"enter", "resume"}, Returns(r),
         UNCHANGED resp,
         NEW l \in Seq(Nat), logged' = [logged EXCEPT ![r] = l]
  PROVE  IInv'
<1> DEFINE t == SubSeq(stack[r], 1, Len(stack[r]) - 1)
<1>1. t \in Seq(Nat)
  BY PopType DEF IInv, TypeOK
<1>2. stack' = [stack EXCEPT ![r] = t] /\ Advance(r)
      /\ UNCHANGED <<pool, held, route, fuel, ran, aborted>>
  BY DEF Returns
<1>3. fuel[r] \in 0..MaxOps /\ fuel' = [fuel EXCEPT ![r] = fuel[r]]
  BY <1>2 DEF IInv, TypeOK
<1> HIDE DEF t
<1> QED
  BY <1>1, <1>2, <1>3, AdvanceKeeps

\* A handler that returns, or that Logger and Recovery start or end, keeps it.
LEMMA MovesKeep ==
  ASSUME IInv, NEW r \in Requests,
         \/ CallNext(r) \/ UserReturns(r) \/ MiddlewareStart(r)
         \/ LoggerReturns(r) \/ RecoveryReturns(r)
  PROVE  IInv'
<1>1. /\ stack[r] \in Seq(Nat) /\ stack = [stack EXCEPT ![r] = stack[r]]
      /\ logged[r] \in Seq(Nat) /\ logged = [logged EXCEPT ![r] = logged[r]]
      /\ fuel[r] \in 0..MaxOps /\ fuel = [fuel EXCEPT ![r] = fuel[r]]
  BY DEF IInv, TypeOK
<1>2. CASE CallNext(r)
  <2> DEFINE f == fuel[r] - 1
  <2>1. /\ f \in 0..MaxOps /\ fuel' = [fuel EXCEPT ![r] = f] /\ Advance(r)
        /\ pc[r] \in {"enter", "resume"}
        /\ UNCHANGED <<pool, held, stack, route, ran, logged, resp, aborted>>
    BY <1>1, <1>2, OpsAssumption DEF CallNext, Calls
  <2> HIDE DEF f
  <2> QED
    BY <1>1, <2>1, AdvanceKeeps
<1>3. CASE UserReturns(r)
  BY <1>1, <1>3, ReturnsKeep DEF UserReturns
<1>4. CASE MiddlewareStart(r)
  BY <1>1, <1>4, AdvanceKeeps DEF MiddlewareStart
<1>5. CASE LoggerReturns(r)
  <2> DEFINE l == Append(logged[r], W(r).status)
  <2>1. W(r).status \in Nat
    BY <1>5, Holding DEF LoggerReturns, Sound, Response
  <2>2. l \in Seq(Nat)
    BY <1>1, <2>1
  <2>3. /\ pc[r] \in {"enter", "resume"} /\ Returns(r) /\ UNCHANGED resp
        /\ logged' = [logged EXCEPT ![r] = l]
    BY <1>5 DEF LoggerReturns
  <2> HIDE DEF l
  <2> QED
    BY <2>2, <2>3, ReturnsKeep
<1>6. CASE RecoveryReturns(r)
  BY <1>1, <1>6, ReturnsKeep DEF RecoveryReturns
<1> QED
  BY <1>2, <1>3, <1>4, <1>5, <1>6

\* Steps that leave the context as it is.
LEMMA SteadyKeeps ==
  ASSUME IInv, NEW r \in Requests, pc[r] \in Inside,
         NEW p \in Inside, pc' = [pc EXCEPT ![r] = p],
         NEW t \in Seq(Nat), stack' = [stack EXCEPT ![r] = t],
         NEW w, Sound(w), resp' = [resp EXCEPT ![r] = w],
         NEW n \in Seq(Nat), ran' = [ran EXCEPT ![r] = n],
         \A k \in 1..Len(n) : n[k] = k - 1,
         UNCHANGED <<pool, ctx, held, route, fuel, aborted, logged>>,
         ~C(r).skip => Started(r)'
  PROVE  IInv'
<1>1. held[r] \in Contexts /\ C(r) \in Context /\ InFlight(r) /\ pc[r] # "dispatch"
  BY Holding, NoneAssumption DEF InFlight, Inside, PCs
<1>2. Own(r)
  BY <1>1 DEF IInv, Inv
<1>3. pc'[r] = p /\ stack'[r] = t /\ resp'[r] = w /\ ran'[r] = n /\ C(r)' = C(r)
  BY DEF IInv, TypeOK, C
<1>4. Local(r)
  <2>1. /\ ctx' = [ctx EXCEPT ![held[r]] = ctx'[held[r]]]
        /\ route' = [route EXCEPT ![r] = route'[r]]
        /\ fuel' = [fuel EXCEPT ![r] = fuel'[r]]
        /\ logged' = [logged EXCEPT ![r] = logged'[r]]
    BY <1>1 DEF IInv, TypeOK
  <2> QED
    BY <1>3, <2>1 DEF Local
<1>5. After(r)
  <2>1. /\ ctx'[held[r]] \in Context /\ route'[r] \in Routes
        /\ fuel'[r] \in 0..MaxOps /\ logged'[r] \in Seq(Nat)
    BY <1>1 DEF IInv, TypeOK
  <2> QED
    BY <1>1, <1>2, <1>3, <2>1 DEF After, Own
<1> QED
  BY <1>1, <1>4, <1>5, LocalKeeps

\* The head of Next, starting a handler or leaving the loop, keeps it.
LEMMA LoopKeeps ==
  ASSUME IInv, NEW r \in Requests, LoopStart(r) \/ LoopExit(r)
  PROVE  IInv'
<1>1. /\ pc[r] = "loop" /\ pc[r] \in Inside /\ held[r] \in Contexts
      /\ C(r) \in Context /\ InFlight(r) /\ Sound(resp[r])
  BY Holding, NoneAssumption
     DEF LoopStart, LoopExit, Inside, PCs, InFlight, IInv, Inv
<1>2. /\ C(r).index \in Nat /\ Len(C(r).handler) \in Nat
      /\ ~C(r).skip => Len(ran[r]) = Lesser(C(r).index, Len(C(r).handler))
      /\ \A k \in 1..Len(ran[r]) : ran[r][k] = k - 1
  BY <1>1 DEF IInv, Inv, Own, Started, Context
<1>3. /\ stack[r] \in Seq(Nat) /\ stack = [stack EXCEPT ![r] = stack[r]]
      /\ ran[r] \in Seq(Nat) /\ ran = [ran EXCEPT ![r] = ran[r]]
      /\ resp = [resp EXCEPT ![r] = resp[r]]
  BY DEF IInv, TypeOK
<1>4. CASE LoopStart(r)
  <2> DEFINE t == Append(stack[r], C(r).index)
             n == Append(ran[r], C(r).index)
  <2>1. t \in Seq(Nat) /\ n \in Seq(Nat) /\ Len(n) = Len(ran[r]) + 1
    BY <1>2, <1>3
  <2>2. /\ C(r).index < Len(C(r).handler) /\ ~C(r).skip
        /\ stack' = [stack EXCEPT ![r] = t] /\ ran' = [ran EXCEPT ![r] = n]
        /\ pc' = [pc EXCEPT ![r] = "enter"]
        /\ UNCHANGED <<pool, ctx, held, route, resp, fuel, aborted, logged>>
    BY <1>4 DEF LoopStart, LoopGoesOn, Goto
  <2>3. Len(ran[r]) = C(r).index
    BY <1>2, <2>2 DEF Lesser
  <2>4. \A k \in 1..Len(n) : n[k] = k - 1
    BY <1>2, <1>3, <2>3
  <2>5. Started(r)'
    <3>1. pc'[r] = "enter" /\ ran'[r] = n /\ C(r)' = C(r)
      BY <2>2 DEF IInv, TypeOK, C
    <3> QED
      BY <1>2, <2>1, <2>2, <2>3, <3>1 DEF Started, Lesser
  <2> HIDE DEF t, n
  <2> QED
    BY <1>1, <1>3, <2>1, <2>2, <2>4, <2>5, SteadyKeeps DEF Inside, PCs
<1>5. CASE LoopExit(r)
  <2> DEFINE p == IF stack[r] = << >> THEN "tail" ELSE "resume"
  <2>1. /\ C(r).index >= Len(C(r).handler) \/ C(r).skip
        /\ pc' = [pc EXCEPT ![r] = p]
        /\ UNCHANGED <<pool, ctx, held, stack, route, resp, fuel, ran, aborted, logged>>
    BY <1>2, <1>5 DEF LoopExit, LoopGoesOn, Goto
  <2>2. ~C(r).skip => Started(r)'
    <3>1. pc'[r] = p /\ ran'[r] = ran[r] /\ C(r)' = C(r)
      BY <2>1 DEF IInv, TypeOK, C
    <3> QED
      BY <1>2, <2>1, <3>1 DEF Started, Lesser
  <2>3. p \in Inside
    BY DEF Inside, PCs
  <2> HIDE DEF p
  <2> QED
    BY <1>1, <1>2, <1>3, <2>1, <2>2, <2>3, SteadyKeeps
<1> QED
  BY <1>4, <1>5

\* Panics that unwind, and the tails of ServeHTTP, keep it.
LEMMA EndsKeep ==
  ASSUME IInv, NEW r \in Requests,
         Unwind(r) \/ Crash(r) \/ MatchedTail(r) \/ ErrorTail(r)
  PROVE  IInv'
<1>1. pc[r] \in {"panic", "tail"} /\ pc[r] \in Inside
  BY DEF Unwind, Crash, MatchedTail, ErrorTail, Inside, PCs
<1>2. /\ held[r] \in Contexts /\ C(r) \in Context /\ C(r).w = r
      /\ W(r) = resp[r] /\ Sound(W(r)) /\ Sound(resp[r]) /\ InFlight(r)
  BY <1>1, Holding, NoneAssumption DEF InFlight
<1>3. /\ stack[r] \in Seq(Nat) /\ stack = [stack EXCEPT ![r] = stack[r]]
      /\ ran[r] \in Seq(Nat) /\ ran = [ran EXCEPT ![r] = ran[r]]
      /\ resp = [resp EXCEPT ![r] = resp[r]] /\ pc = [pc EXCEPT ![r] = pc[r]]
      /\ \A k \in 1..Len(ran[r]) : ran[r][k] = k - 1
  BY DEF IInv, TypeOK, Inv
<1>4. /\ C(r).index \in Nat /\ Len(C(r).handler) \in Nat
      /\ ~C(r).skip => Started(r)
  BY <1>1, <1>2 DEF IInv, Inv, Own, Context
<1>5. ASSUME NEW p \in {"panic", "crashed", "put"}, pc' = [pc EXCEPT ![r] = p],
             p = "put" => pc[r] = "tail",
             UNCHANGED <<ctx, held, ran>>, ~C(r).skip
      PROVE  Started(r)'
  <2>1. pc'[r] = p /\ ran'[r] = ran[r] /\ C(r)' = C(r)
    BY <1>5 DEF IInv, TypeOK, C
  <2>2. pc[r] = "tail" => /\ Len(ran[r]) = Len(C(r).handler)
                          /\ C(r).index >= Len(C(r).handler)
    BY <1>4, <1>5 DEF Started
  <2>3. pc[r] = "panic"
          => Len(ran[r]) = Lesser(C(r).index + 1, Len(C(r).handler))
    BY <1>4, <1>5 DEF Started
  <2> QED
    BY <1>1, <1>4, <1>5, <2>1, <2>2, <2>3 DEF Started, Lesser
<1>6. CASE Unwind(r)
  <2> DEFINE t == SubSeq(stack[r], 1, Len(stack[r]) - 1)
  <2>1. /\ pc[r] = "panic" /\ pc' = [pc EXCEPT ![r] = "panic"]
        /\ t \in Seq(Nat) /\ stack' = [stack EXCEPT ![r] = t]
        /\ UNCHANGED <<pool, ctx, held, route, resp, fuel, ran, aborted, logged>>
    BY <1>3, <1>6, PopType DEF Unwind
  <2>2. ~C(r).skip => Started(r)'
    BY <1>5, <2>1
  <2> HIDE DEF t
  <2> QED
    BY <1>1, <1>2, <1>3, <2>1, <2>2, SteadyKeeps
<1>7. CASE Crash(r)
  <2>1. /\ pc' = [pc EXCEPT ![r] = "crashed"]
        /\ UNCHANGED <<pool, ctx, held, stack, route, resp, fuel, ran, aborted, logged>>
    BY <1>7 DEF Crash, Goto
  <2>2. "crashed" \in Inside
    BY DEF Inside, PCs
  <2>3. ~C(r).skip => Started(r)'
    BY <1>5, <2>1
  <2> QED
    BY <1>1, <1>2, <1>3, <2>1, <2>2, <2>3, SteadyKeeps
<1>8. ASSUME NEW w, Sound(w), Respond(r, w), NEW p \in {"panic", "put"},
             Goto(r, p), pc[r] = "tail",
             UNCHANGED <<pool, ctx, held, stack, route, fuel, ran, aborted, logged>>
      PROVE  IInv'
  <2>1. resp' = [resp EXCEPT ![r] = w] /\ pc' = [pc EXCEPT ![r] = p]
    BY <1>2, <1>8 DEF Respond, Goto
  <2>2. p \in Inside
    BY DEF Inside, PCs
  <2>3. ~C(r).skip => Started(r)'
    BY <1>5, <1>8, <2>1
  <2> QED
    BY <1>1, <1>3, <1>8, <2>1, <2>2, <2>3, SteadyKeeps
<1>9. CASE MatchedTail(r)
  <2>1. Sound(WriteHeaderNow(W(r)))
    BY <1>2, WriteHeaderNowSound
  <2> QED
    BY <1>8, <1>9, <2>1 DEF MatchedTail
<1>10. CASE ErrorTail(r)
  <2> DEFINE code == errorCode(route[r])
  <2>1. Sound(serveError(W(r), code))
    BY <1>2, ServeErrorSound
       DEF errorCode, StatusNotFound, StatusMethodNotAllowed, Statuses
  <2>2. /\ pc[r] = "tail" /\ Respond(r, serveError(W(r), code))
        /\ Goto(r, IF serveErrorPanics(W(r), code) THEN "panic" ELSE "put")
        /\ UNCHANGED <<pool, ctx, held, stack, route, fuel, ran, aborted, logged>>
    BY <1>10 DEF ErrorTail
  <2> HIDE DEF code
  <2> QED
    BY <1>8, <2>1, <2>2
<1> QED
  BY <1>6, <1>7, <1>9, <1>10

\* Dispatch gives a new context its chain.
LEMMA DispatchKeeps ==
  ASSUME IInv, NEW r \in Requests, Dispatch(r)
  PROVE  IInv'
<1>1. /\ pc[r] = "dispatch" /\ held[r] \in Contexts /\ C(r) \in Context
      /\ InFlight(r) /\ ran[r] = << >>
  BY Holding, NoneAssumption DEF Dispatch, InFlight, IInv, Inv
<1>2. Own(r) /\ C(r).index = -1
  BY <1>1 DEF IInv, Inv, Own
<1>3. PICK rt \in Routes \ {"none"}, h \in Chains :
        /\ route' = [route EXCEPT ![r] = rt]
        /\ ctx' = [ctx EXCEPT ![held[r]] =
                     [C(r) EXCEPT !.handler = h, !.index = nextIndex(C(r)),
                                  !.params = IF rt = "match" THEN {r} ELSE @]]
  BY DEF Dispatch
<1>4. /\ pc' = [pc EXCEPT ![r] = "loop"]
      /\ UNCHANGED <<pool, held, stack, resp, fuel, ran, aborted, logged>>
  BY DEF Dispatch, Goto
<1> DEFINE c == [C(r) EXCEPT !.handler = h, !.index = @ + 1,
                             !.params = IF rt = "match" THEN {r} ELSE @]
<1>5. ctx' = [ctx EXCEPT ![held[r]] = c]
  BY <1>3
<1>6. /\ c \in Context /\ c.index = 0 /\ c.handler = h /\ c.w = r
      /\ c.skip = C(r).skip /\ c.errs \cup c.mp \cup c.params \subseteq {r}
  <2> DEFINE q == IF rt = "match" THEN {r} ELSE C(r).params
  <2>1. h \in Seq(Kinds) /\ q \in SUBSET Requests /\ C(r).index + 1 \in Int
        /\ C(r).index + 1 = 0 /\ q \subseteq {r}
    BY <1>1, <1>2, ChainsAssumption DEF Own, Context
  <2>2. c = [C(r) EXCEPT !.handler = h, !.index = C(r).index + 1, !.params = q]
    OBVIOUS
  <2> HIDE DEF c, q
  <2>3. /\ c \in Context /\ c.index = C(r).index + 1 /\ c.handler = h
        /\ c.w = C(r).w /\ c.skip = C(r).skip
        /\ c.errs = C(r).errs /\ c.mp = C(r).mp /\ c.params = q
    BY <1>1, <2>1, <2>2 DEF Context
  <2> QED
    BY <1>2, <2>1, <2>3 DEF Own
<1> HIDE DEF c
<1>7. C(r)' = c /\ ctx'[held[r]] = c /\ pc'[r] = "loop" /\ route'[r] = rt
      /\ held[r]' = held[r]
  BY <1>1, <1>3, <1>4, <1>5 DEF C, IInv, TypeOK
<1>8. Local(r)
  <2>1. /\ stack' = [stack EXCEPT ![r] = stack'[r]]
        /\ resp' = [resp EXCEPT ![r] = resp'[r]]
        /\ fuel' = [fuel EXCEPT ![r] = fuel'[r]]
        /\ ran' = [ran EXCEPT ![r] = ran'[r]]
        /\ logged' = [logged EXCEPT ![r] = logged'[r]]
    BY <1>4 DEF IInv, TypeOK
  <2> QED
    BY <1>3, <1>4, <1>5, <1>7, <2>1 DEF Local
<1>9. After(r)
  <2>1. /\ stack'[r] \in Seq(Nat) /\ fuel'[r] \in 0..MaxOps /\ logged'[r] \in Seq(Nat)
        /\ ran'[r] = << >> /\ ran'[r] \in Seq(Nat) /\ Sound(resp'[r])
    BY <1>1, <1>4 DEF IInv, TypeOK, Inv
  <2>2. Started(r)'
    <3>1. Len(c.handler) \in Nat
      BY <1>6, ChainsAssumption DEF Context
    <3> QED
      BY <1>6, <1>7, <2>1, <3>1 DEF Started, Lesser
  <2>3. pc'[r] \in Inside
    BY <1>7 DEF Inside, PCs
  <2>4. c.skip <=> r \in aborted'
    BY <1>2, <1>4, <1>6 DEF Own
  <2> QED
    BY <1>6, <1>7, <2>1, <2>2, <2>3, <2>4 DEF After
<1> QED
  BY <1>1, <1>8, <1>9, LocalKeeps

\* Recovery stops the chain that panicked before it goes on.
LEMMA RecoverKeeps ==
  ASSUME IInv, NEW r \in Requests, Recover(r)
  PROVE  IInv'
<1> DEFINE t == SubSeq(stack[r], 1, Len(stack[r]) - 1)
           w == Render(W(r), StatusInternalServerError, "recovery")
           ok == RenderOK(W(r), StatusInternalServerError)
<1>1. /\ pc[r] = "panic" /\ held[r] \in Contexts /\ C(r) \in Context
      /\ C(r).w = r /\ W(r) = resp[r] /\ Sound(W(r)) /\ InFlight(r)
  BY Holding, NoneAssumption DEF Recover, InFlight
<1>2. Own(r) /\ C(r).index \in Nat
  BY <1>1 DEF IInv, Inv, Own
<1>3. t \in Seq(Nat) /\ stack' = [stack EXCEPT ![r] = t]
      /\ UNCHANGED <<pool, held, route, fuel, ran, logged>>
  BY PopType DEF Recover, IInv, TypeOK
<1>4. /\ fuel[r] \in 0..MaxOps /\ fuel' = [fuel EXCEPT ![r] = fuel[r]]
      /\ logged[r] \in Seq(Nat) /\ logged' = [logged EXCEPT ![r] = logged[r]]
  BY <1>3 DEF IInv, TypeOK
<1>5. Sound(w)
  BY <1>1, RenderSound DEF Statuses, StatusInternalServerError, Authors
<1>6. CASE C(r).skip
  <2>1. Advance(r) /\ UNCHANGED <<resp, aborted>>
    BY <1>6 DEF Recover
  <2> HIDE DEF t
  <2> QED
    BY <1>1, <1>3, <1>4, <2>1, AdvanceKeeps
<1>7. CASE ~C(r).skip
  <2> DEFINE i == IF ok THEN C(r).index + 1 ELSE C(r).index
             c == [C(r) EXCEPT !.skip = TRUE, !.index = IF ok THEN @ + 1 ELSE @]
             p == IF ok THEN "loop" ELSE "panic"
  <2>1. /\ Respond(r, w) /\ aborted' = aborted \cup {r} /\ Goto(r, p)
        /\ ctx' = [ctx EXCEPT ![held[r]] = c]
    BY <1>7 DEF Recover
  <2>2. i \in Nat /\ p \in Inside
    BY <1>2 DEF Inside, PCs
  <2>3. c = [C(r) EXCEPT !.skip = TRUE, !.index = i]
    OBVIOUS
  <2> HIDE DEF t, w, i, p, ok, c
  <2>4. /\ c \in Context /\ c.index = i /\ c.w = r /\ c.skip
        /\ c.errs \cup c.mp \cup c.params \subseteq {r}
    <3>1. /\ c \in Context /\ c.index = i /\ c.w = C(r).w /\ c.skip
          /\ c.errs = C(r).errs /\ c.mp = C(r).mp /\ c.params = C(r).params
      <4>1. C(r) \in Context /\ i \in Int
        BY <1>1, <2>2
      <4>2. c \in Context
        BY <4>1, <2>3 DEF Context
      <4>3. c.skip = TRUE
        BY <4>1, <2>3 DEF Context
      <4>4. /\ c.index = i /\ c.w = C(r).w
            /\ c.errs = C(r).errs /\ c.mp = C(r).mp /\ c.params = C(r).params
        BY <4>1, <2>3 DEF Context
      <4> QED
        BY <4>2, <4>3, <4>4
    <3> QED
      BY <1>2, <3>1 DEF Own
  <2>5. resp' = [resp EXCEPT ![r] = w] /\ pc' = [pc EXCEPT ![r] = p]
    BY <1>1, <2>1 DEF Respond, Goto
  <2>6. C(r)' = c /\ ctx'[held[r]] = c /\ resp'[r] = w /\ pc'[r] = p /\ stack'[r] = t
    BY <1>1, <1>3, <2>1, <2>5 DEF C, IInv, TypeOK
  <2>7. Local(r)
    <3>1. /\ route' = [route EXCEPT ![r] = route'[r]]
          /\ fuel' = [fuel EXCEPT ![r] = fuel'[r]]
          /\ ran' = [ran EXCEPT ![r] = ran'[r]]
          /\ logged' = [logged EXCEPT ![r] = logged'[r]]
      BY <1>3 DEF IInv, TypeOK
    <3> QED
      BY <1>3, <2>1, <2>5, <2>6, <3>1 DEF Local
  <2>8. After(r)
    <3>1. /\ route'[r] \in Routes /\ fuel'[r] \in 0..MaxOps
          /\ ran'[r] \in Seq(Nat) /\ logged'[r] \in Seq(Nat)
          /\ \A k \in 1..Len(ran'[r]) : ran'[r][k] = k - 1
      BY <1>3 DEF IInv, TypeOK, Inv
    <3>2. r \in aborted'
      BY <2>1
    <3> QED
      BY <1>3, <1>5, <2>2, <2>4, <2>6, <3>1, <3>2 DEF After
  <2> QED
    BY <1>1, <2>7, <2>8, LocalKeeps
<1> QED
  BY <1>6, <1>7

\* A request that a step leaves alone, and whose context it leaves alone.
LEMMA OthersKeep ==
  ASSUME NEW s \in Requests, Inv(s),
         held'[s] = held[s], pc'[s] = pc[s], ran'[s] = ran[s], resp'[s] = resp[s],
         aborted' = aborted,
         InFlight(s) => ctx'[held[s]] = ctx[held[s]],
         InFlight(s) => /\ held[s] \notin pool'
                        /\ \A u \in Requests : held'[u] = held[s] => u = s
  PROVE  Inv(s)'
<1>1. InFlight(s)' <=> InFlight(s)
  BY DEF InFlight
<1>2. InFlight(s) => C(s)' = C(s)
  BY DEF InFlight, C
<1>3. InFlight(s) /\ Own(s) => Own(s)'
  BY <1>2 DEF Own
<1>4. InFlight(s) /\ Started(s) => Started(s)'
  BY <1>2 DEF Started
<1> QED
  BY <1>1, <1>2, <1>3, <1>4 DEF Inv

\* A context that waits in the pool, or that is new, nobody works with.
LEMMA FreeContext ==
  ASSUME IInv, NEW c \in pool \cup (Contexts \ InUse), NEW s \in Requests
  PROVE  c \in Contexts /\ held[s] # c /\ c # None
BY NoneAssumption DEF IInv, TypeOK, Inv, InFlight, Own, InUse

\* A request that arrives takes a context that nobody works with.
LEMMA BeginKeeps ==
  ASSUME IInv, NEW r \in Requests, Begin(r)
  PROVE  IInv'
<1>1. PICK c \in pool \cup (Contexts \ InUse), h \in Hijackers :
        /\ pool' = pool \ {c}
        /\ ctx' = [ctx EXCEPT ![c] = reset(@, r)]
        /\ held' = [held EXCEPT ![r] = c]
        /\ resp' = [resp EXCEPT ![r] = wrapResponseWriter(h)]
  BY DEF Begin
<1>2. /\ pc[r] = "idle" /\ pc' = [pc EXCEPT ![r] = "dispatch"]
      /\ UNCHANGED <<stack, route, fuel, ran, aborted, logged>>
  BY DEF Begin, Goto
<1>3. c \in Contexts /\ c # None /\ \A s \in Requests : held[s] # c
  BY FreeContext
<1>4. ctx[c] \in Context
  BY <1>3 DEF IInv, TypeOK
<1> DEFINE d == reset(ctx[c], r)
<1>5. /\ d \in Context /\ d.w = r /\ d.skip = FALSE /\ d.index = -1
      /\ d.errs = {} /\ d.mp = {} /\ d.params = {}
  <2>1. /\ r \in Requests \cup {None} /\ << >> \in Seq(Kinds) /\ -1 \in Int
        /\ {} \in SUBSET Requests
    OBVIOUS
  <2>2. d \in Context
    BY <1>4, <2>1 DEF reset, Context
  <2>3. d.w = r /\ d.index = -1 /\ d.skip = FALSE
    BY <1>4 DEF reset, Context
  <2>4. d.errs = {} /\ d.mp = {} /\ d.params = {}
    BY <1>4 DEF reset, Context
  <2> QED
    BY <2>2, <2>3, <2>4
<1>6. Sound(wrapResponseWriter(h))
  BY WrapSound, HijackersAssumption
<1> HIDE DEF d
<1>7. TypeOK'
  <2>1. pool' \subseteq Contexts /\ held' \in [Requests -> Contexts \cup {None}]
    BY <1>1, <1>3 DEF IInv, TypeOK
  <2>2. ctx' \in [Contexts -> Context]
    BY <1>1, <1>3, <1>5 DEF IInv, TypeOK, d
  <2>3. pc' \in [Requests -> PCs]
    BY <1>2 DEF IInv, TypeOK, PCs
  <2>4. resp' \in [Requests -> Response]
    BY <1>1, <1>6 DEF IInv, TypeOK, Sound
  <2> QED
    BY <1>2, <2>1, <2>2, <2>3, <2>4 DEF IInv, TypeOK
<1>8. Inv(r)'
  <2>1. /\ held'[r] = c /\ C(r)' = d /\ pc'[r] = "dispatch" /\ ran'[r] = << >>
        /\ Sound(resp'[r])
    BY <1>1, <1>2, <1>3, <1>6 DEF IInv, TypeOK, Inv, C, d
  <2>2. \A s \in Requests : held'[s] = c => s = r
    BY <1>1, <1>3 DEF IInv, TypeOK
  <2>3. Own(r)' /\ Started(r)'
    <3>1. r \notin aborted'
      BY <1>2 DEF IInv, Inv
    <3>2. held'[r] \notin pool'
      BY <1>1, <2>1
    <3> QED
      BY <1>5, <2>1, <2>2, <3>1, <3>2 DEF Own, Started
  <2> QED
    BY <1>3, <2>1, <2>3 DEF Inv, InFlight
<1>9. ASSUME NEW s \in Requests, s # r
      PROVE  Inv(s)'
  <2>1. /\ held'[s] = held[s] /\ pc'[s] = pc[s] /\ ran'[s] = ran[s]
        /\ resp'[s] = resp[s] /\ aborted' = aborted
    BY <1>1, <1>2, <1>9 DEF IInv, TypeOK
  <2>2. held[s] # c /\ Inv(s)
    BY <1>3 DEF IInv
  <2>3. InFlight(s) => ctx'[held[s]] = ctx[held[s]]
    BY <1>1, <2>2 DEF IInv, TypeOK, InFlight
  <2>4. InFlight(s) => /\ held[s] \notin pool'
                       /\ \A u \in Requests : held'[u] = held[s] => u = s
    BY <1>1, <2>2 DEF IInv, TypeOK, Inv, Own
  <2> QED
    BY <2>1, <2>2, <2>3, <2>4, OthersKeep
<1> QED
  BY <1>7, <1>8, <1>9 DEF IInv

\* A request that ends gives its context back and keeps none.
LEMMA PutKeeps ==
  ASSUME IInv, NEW r \in Requests, Put(r)
  PROVE  IInv'
<1>1. /\ pc[r] = "put" /\ pool' = pool \cup {held[r]}
      /\ held' = [held EXCEPT ![r] = None] /\ pc' = [pc EXCEPT ![r] = "done"]
      /\ UNCHANGED <<ctx, stack, route, resp, fuel, ran, aborted, logged>>
  BY DEF Put, Goto
<1>2. held[r] \in Contexts /\ InFlight(r)
  BY <1>1, Holding, NoneAssumption DEF InFlight
<1>3. Own(r)
  BY <1>2 DEF IInv, Inv
<1>4. TypeOK'
  BY <1>1, <1>2 DEF IInv, TypeOK, PCs
<1>5. ASSUME NEW s \in Requests
      PROVE  Inv(s)'
  <2>1. Inv(s)
    BY DEF IInv
  <2>2. CASE s = r
    <3>1. held'[r] = None /\ pc'[r] = "done"
      BY <1>1 DEF IInv, TypeOK
    <3> QED
      BY <1>1, <2>1, <2>2, <3>1 DEF Inv, InFlight
  <2>3. CASE s # r
    <3>1. /\ held'[s] = held[s] /\ pc'[s] = pc[s]
          /\ ran'[s] = ran[s] /\ resp'[s] = resp[s]
          /\ aborted' = aborted /\ ctx' = ctx
      BY <1>1, <2>3 DEF IInv, TypeOK
    <3>2. held[s] # held[r]
      BY <1>3, <2>3 DEF Own
    <3>3. InFlight(s) => /\ held[s] \notin pool'
                         /\ \A u \in Requests : held'[u] = held[s] => u = s
      BY <1>1, <2>1, <3>2 DEF IInv, TypeOK, Inv, Own, InFlight
    <3> QED
      BY <2>1, <3>1, <3>3, OthersKeep
  <2> QED
    BY <2>2, <2>3
<1> QED
  BY <1>4, <1>5 DEF IInv

\* A context that the collector takes from the pool was nobody's.
LEMMA PoolDropKeeps ==
  ASSUME IInv, NEW c \in Contexts, PoolDrop(c)
  PROVE  IInv'
<1>1. /\ c \in pool /\ pool' = pool \ {c} /\ ctx' = [ctx EXCEPT ![c] = NewContext]
      /\ UNCHANGED <<pc, held, stack, route, resp, fuel, ran, aborted, logged>>
  BY DEF PoolDrop
<1>2. NewContext \in Context
  BY DEF NewContext, Context
<1>3. TypeOK'
  BY <1>1, <1>2 DEF IInv, TypeOK
<1>4. ASSUME NEW s \in Requests
      PROVE  Inv(s)'
  <2>1. Inv(s) /\ held[s] # c
    BY <1>1, FreeContext DEF IInv
  <2>2. InFlight(s) => ctx'[held[s]] = ctx[held[s]]
    BY <1>1, <2>1 DEF IInv, TypeOK, InFlight
  <2>3. InFlight(s) => /\ held[s] \notin pool'
                       /\ \A u \in Requests : held'[u] = held[s] => u = s
    BY <1>1, <2>1 DEF Inv, Own
  <2> QED
    BY <1>1, <2>1, <2>2, <2>3, OthersKeep
<1> QED
  BY <1>3, <1>4 DEF IInv

\* A response that breaks off is as sound as before.
LEMMA BreaksKeeps ==
  ASSUME IInv, NEW r \in Requests, Breaks(r)
  PROVE  IInv'
<1>1. /\ resp' = [resp EXCEPT ![r] = Break(@)]
      /\ UNCHANGED <<pool, ctx, pc, held, stack, route, fuel, ran, aborted, logged>>
  BY DEF Breaks
<1>2. Sound(Break(resp[r]))
  BY BreakSound DEF IInv, Inv
<1>3. TypeOK'
  <2>1. Break(resp[r]) \in Response
    BY <1>2 DEF Sound
  <2> QED
    BY <1>1, <2>1 DEF IInv, TypeOK
<1>4. ASSUME NEW s \in Requests
      PROVE  Inv(s)'
  <2>1. Sound(resp'[s])
    BY <1>1, <1>2 DEF IInv, Inv, TypeOK
  <2>2. InFlight(s) => (Own(s) <=> Own(s)') /\ (Started(s) <=> Started(s)') /\ C(s)' = C(s)
    BY <1>1 DEF Own, Started, C
  <2>3. InFlight(s)' <=> InFlight(s)
    BY <1>1 DEF InFlight
  <2> QED
    BY <1>1, <2>1, <2>2, <2>3 DEF IInv, Inv
<1> QED
  BY <1>3, <1>4 DEF IInv

-----------------------------------------------------------------------------
(* The theorems.                                                           *)

\* The initial states satisfy the invariant.
LEMMA InitInv == Init => IInv
<1> SUFFICES ASSUME Init PROVE IInv
  OBVIOUS
<1>1. Sound(wrapResponseWriter(TRUE))
  BY WrapSound
<1>2. NewContext \in Context
  BY DEF NewContext, Context
<1>3. TypeOK
  <2>1. << >> \in Seq(Nat) /\ MaxOps \in 0..MaxOps
    BY OpsAssumption
  <2>2. pool \subseteq Contexts /\ ctx \in [Contexts -> Context] /\ aborted \subseteq Requests
    BY <1>2 DEF Init
  <2>3. pc \in [Requests -> PCs] /\ held \in [Requests -> Contexts \cup {None}]
        /\ route \in [Requests -> Routes]
    BY DEF Init, PCs, Routes
  <2>4. stack \in [Requests -> Seq(Nat)] /\ ran \in [Requests -> Seq(Nat)]
        /\ logged \in [Requests -> Seq(Nat)] /\ fuel \in [Requests -> 0..MaxOps]
    BY <2>1 DEF Init
  <2>5. resp \in [Requests -> Response]
    BY <1>1 DEF Init, Sound
  <2> QED
    BY <2>2, <2>3, <2>4, <2>5 DEF TypeOK
<1>4. ASSUME NEW r \in Requests
      PROVE  Inv(r)
  <2>1. resp[r] = wrapResponseWriter(TRUE) /\ held[r] = None /\ pc[r] = "idle"
        /\ ran[r] = << >> /\ r \notin aborted
    BY DEF Init
  <2>2. \A k \in 1..Len(ran[r]) : ran[r][k] = k - 1
    BY <2>1
  <2> QED
    BY <1>1, <2>1, <2>2 DEF Inv, InFlight
<1> QED
  BY <1>3, <1>4 DEF IInv

\* Every step keeps the invariant.
LEMMA NextInv == IInv /\ [Next]_vars => IInv'
<1> SUFFICES ASSUME IInv, [Next]_vars PROVE IInv'
  OBVIOUS
<1>1. CASE UNCHANGED vars
  BY <1>1 DEF vars, IInv, TypeOK, Inv, Own, Started, InFlight, C
<1>2. ASSUME NEW r \in Requests, Begin(r) PROVE IInv'
  BY <1>2, BeginKeeps
<1>3. ASSUME NEW r \in Requests, Step(r) PROVE IInv'
  BY <1>3, DispatchKeeps, PutKeeps, LoopKeeps, CallsKeep, MovesKeep, RecoverKeeps,
     EndsKeep DEF Step
<1>4. ASSUME NEW c \in Contexts, PoolDrop(c) PROVE IInv'
  BY <1>4, PoolDropKeeps
<1>5. ASSUME NEW r \in Requests, Breaks(r) PROVE IInv'
  BY <1>5, BreaksKeeps
<1> QED
  BY <1>1, <1>2, <1>3, <1>4, <1>5 DEF Next, Terminated

\* The inductive invariant holds throughout.
THEOREM Invariance == Spec => []IInv
BY InitInv, NextInv, PTL DEF Spec

\* Every variable keeps its type.
THEOREM TypeCorrect == Spec => []TypeOK
BY Invariance, PTL DEF IInv

\* No context of the pool serves two requests, whatever the number of requests
\* and contexts and whenever the collector empties the pool.
THEOREM ContextsExclusive == Spec => []ContextExclusive
<1>1. IInv => ContextExclusive
  BY DEF IInv, Inv, Own, ContextExclusive
<1> QED
  BY <1>1, Invariance, PTL

\* A recycled context shows nothing of the requests it served before.
THEOREM ContextsIsolated == Spec => []Isolation
<1>1. IInv => Isolation
  BY DEF IInv, Inv, Own, Isolation
<1> QED
  BY <1>1, Invariance, PTL

\* Handlers start in order and once, for chains of any length and handlers that
\* call Next any number of times.
THEOREM HandlersInOrder == Spec => []InOrder
<1>1. IInv => InOrder
  BY DEF IInv, Inv, InOrder
<1> QED
  BY <1>1, Invariance, PTL

\* Once a chain is told to stop, no step of any request starts another of its
\* handlers.
THEOREM NoStart == Spec => NoStartAfterAbort
<1>1. IInv /\ [Next]_vars => [\A r \in aborted : ran'[r] = ran[r]]_vars
  <2> SUFFICES ASSUME IInv, Next, NEW r \in aborted
               PROVE  ran'[r] = ran[r]
    BY DEF vars
  <2>1. r \in Requests /\ ran \in [Requests -> Seq(Nat)]
    BY DEF IInv, TypeOK
  <2>2. ASSUME NEW s \in Requests, LoopStart(s) PROVE s # r
    <3>1. InFlight(s) /\ pc[s] = "loop" /\ ~C(s).skip
      BY <2>2, Holding, NoneAssumption DEF LoopStart, LoopGoesOn, InFlight
    <3>2. s \notin aborted
      BY <3>1 DEF IInv, Inv, Own
    <3> QED
      BY <3>2
  <2>3. ASSUME NEW s \in Requests, LoopStart(s) PROVE ran'[r] = ran[r]
    BY <2>1, <2>2, <2>3 DEF LoopStart
  <2>4. ASSUME NEW s \in Requests, Call(s) PROVE ran' = ran
    BY <2>4 DEF Call, Calls, CallSetStatus, CallRender, CallRenderFails,
       CallRedirect, CallSkip, CallAbortWithStatus, CallAbortWithStatusAndMessage,
       CallError, CallSet, CallWrite, CallFlush, CallHijack, CallNext, CallPanic
  <2>5. ASSUME NEW s \in Requests,
               Begin(s) \/ (Step(s) /\ ~LoopStart(s) /\ ~Call(s))
        PROVE  ran' = ran
    BY <2>5 DEF Begin, Step, Dispatch, Put, LoopExit, UserReturns, Returns,
       MiddlewareStart, LoggerReturns, RecoveryReturns, Unwind, Recover, Crash,
       MatchedTail, ErrorTail
  <2>6. ASSUME NEW c \in Contexts, PoolDrop(c) PROVE ran' = ran
    BY <2>6 DEF PoolDrop
  <2>7. ASSUME NEW s \in Requests, Breaks(s) PROVE ran' = ran
    BY <2>7 DEF Breaks
  <2> QED
    BY <2>3, <2>4, <2>5, <2>6, <2>7 DEF Next, Terminated, vars
<1> QED
  BY <1>1, Invariance, PTL DEF Spec, NoStartAfterAbort

\* A chain that nobody stopped runs to its last handler.
THEOREM HandlersAllRun == Spec => []RunAll
<1>1. IInv => RunAll
  <2> SUFFICES ASSUME IInv, NEW r \in Requests,
                      pc[r] \in {"tail", "put"}, r \notin aborted
               PROVE  Len(ran[r]) = Len(C(r).handler)
    BY DEF RunAll
  <2>1. InFlight(r) /\ Inv(r)
    BY NoneAssumption, Holding DEF IInv, InFlight
  <2> QED
    BY <2>1 DEF Inv, Own, Started
<1> QED
  BY <1>1, Invariance, PTL

\* The status the wrapper reports is the client's unless a second header was
\* asked for.
THEOREM StatusOnWire == Spec => []StatusMatchesWire
<1>1. IInv => StatusMatchesWire
  BY DEF IInv, Inv, Sound, StatusMatchesWire, SentStatus, Response
<1> QED
  BY <1>1, Invariance, PTL

\* The size the wrapper reports is that of the body.
THEOREM SizeOfBody == Spec => []SizeIsBody
<1>1. IInv => SizeIsBody
  BY DEF IInv, Inv, Sound, SizeIsBody
<1> QED
  BY <1>1, Invariance, PTL


-----------------------------------------------------------------------------
(* What a request leaves behind: the error page, the access log and the     *)
(* panics.  All three need the shape of the Go stack beside the invariant.  *)

\* Handlers under way are handlers of the chain, and only the outermost can be
\* the first.  Whoever is back from its own Next left a loop that was over.
Frames(r) ==
  /\ \A j \in 1..Len(stack[r]) :
       stack[r][j] < Len(C(r).handler) /\ (j > 1 => stack[r][j] > 0)
  /\ pc[r] \in {"dispatch", "tail", "put", "crashed"} => stack[r] = << >>
  /\ pc[r] \in {"enter", "resume"} => stack[r] # << >>
  /\ pc[r] = "dispatch" => ~C(r).skip
  /\ pc[r] = "loop" /\ stack[r] # << >> => C(r).index > 0
  /\ pc[r] = "resume" => ~LoopGoesOn(C(r))

\* Middleware in front stays below every other handler: nothing starts after it.
Wrapped(r) == C(r).handler # << >> /\ C(r).handler[1] # "user"

Front(r) ==
  /\ stack[r] # << >> => stack[r][1] = 0
  /\ pc[r] = "loop" /\ stack[r] = << >> /\ LoopGoesOn(C(r)) => C(r).index = 0

\* A panic below which only Recovery was has left it because it could not answer.
Contained(r) ==
  pc[r] \in {"panic", "crashed"} /\ stack[r] = << >> => ~AcceptsBody(resp[r])

\* The record is written when the first handler returns, and nothing changes
\* the status after it on a matched route.
Recorded(r) == Len(logged[r]) = 1 /\ logged[r][1] = resp[r].status

Logs(r) ==
  /\ stack[r] # << >> => logged[r] = << >>
  /\ pc[r] = "loop" /\ stack[r] = << >> =>
       IF C(r).index = 0 THEN ~C(r).skip /\ logged[r] = << >> ELSE Recorded(r)
  /\ pc[r] = "tail" => Recorded(r)
  /\ pc[r] = "put" => Len(logged[r]) = 1 /\ (route[r] = "match" => Recorded(r))

\* The page comes last.
Pageless(w) == \A k \in 1..Len(w.body) : w.body[k] # "page"

PageOf(w, rt) ==
  /\ w.body = <<"page">>
  /\ rt # "match"
  /\ ~w.overridden => w.wire = errorCode(rt)

End(r) ==
  /\ Pageless(resp[r]) \/ (pc[r] \in {"put", "done"} /\ PageOf(resp[r], route[r]))
  /\ pc[r] \in {"idle", "dispatch"} => logged[r] = << >>
  /\ pc[r] = "idle" => stack[r] = << >>
  /\ InFlight(r) =>
       /\ Frames(r)
       /\ pc[r] # "dispatch" /\ Wrapped(r) => Front(r)
       /\ pc[r] # "dispatch" /\ Wrapped(r) /\ C(r).handler[1] = "recovery"
            => Contained(r)
       /\ pc[r] # "dispatch" /\ LoggerInFront(C(r).handler) => Logs(r)

EInv == IInv /\ \A r \in Requests : End(r)


\* Only Write adds to the body, and it adds what its author wrote.
LEMMA PagelessWrite ==
  ASSUME NEW w, Sound(w), Pageless(w), NEW who \in Authors \ {"page"}
  PROVE  Pageless(Write(w, who))
<1> DEFINE v == CommitOK(WriteHeaderNow(w))
<1>1. v \in Response /\ v.body = w.body /\ v.body \in Seq(Authors)
  <2>1. Sound(WriteHeaderNow(w)) /\ WriteHeaderNow(w).body = w.body
    BY WriteHeaderNowSound, StatusKeeps DEF Sound
  <2> QED
    BY <2>1, CommitOKSound DEF Sound, Response
<1>2. Write(w, who).body \in {v.body, Append(v.body, who)}
  <2>1. Write(w, who) = IF AcceptsBody(v) THEN [v EXCEPT !.body = Append(@, who), !.size = @ + 1] ELSE v
    BY DEF Write
  <2> HIDE DEF v
  <2> QED
    BY <1>1, <2>1 DEF Response
<1> HIDE DEF v
<1>3. \A k \in 1..Len(Append(v.body, who)) : Append(v.body, who)[k] # "page"
  BY <1>1 DEF Pageless
<1> QED
  BY <1>1, <1>2, <1>3 DEF Pageless

\* The other operations of the wrapper write no page.
LEMMA PagelessKept ==
  ASSUME NEW w, Sound(w), Pageless(w), NEW code \in Statuses,
         NEW who \in Authors \ {"page"}
  PROVE  /\ Pageless(WriteHeader(w, code)) /\ Pageless(WriteHeaderNow(w))
         /\ Pageless(Flush(w)) /\ Pageless(Hijack(w))
         /\ Pageless(Render(w, code, who))
<1>1. w \in Response
  BY DEF Sound
<1>2. Pageless(WriteHeader(w, code)) /\ Pageless(WriteHeaderNow(w))
  BY <1>1, StatusKeeps DEF Pageless
<1>3. Flush(w).body = w.body
  <2>1. Sound(WriteHeaderNow(w)) /\ WriteHeaderNow(w).body = w.body
    BY <1>1, WriteHeaderNowSound, StatusKeeps
  <2> QED
    BY <2>1, CommitOKSound DEF Flush
<1>4. Hijack(w).body = w.body
  BY <1>1 DEF Hijack, Response
<1>5. Pageless(Render(w, code, who))
  <2> DEFINE v == WriteHeader(w, code)
  <2>1. Sound(v) /\ Pageless(v)
    BY <1>2, WriteHeaderSound
  <2>2. Pageless(WriteHeaderNow(v))
    BY <2>1, StatusKeeps DEF Pageless, Sound
  <2> HIDE DEF v
  <2> QED
    BY <2>1, <2>2, PagelessWrite DEF Render, v
<1> QED
  BY <1>2, <1>3, <1>4, <1>5 DEF Pageless

\* serveError on a response without the page: it adds nothing, or the page as
\* the whole body and under the error's status.
LEMMA ServeErrorPage ==
  ASSUME NEW w, Sound(w), Pageless(w), NEW rt \in {"notFound", "noMethod"}
  PROVE  LET code == errorCode(rt)
             x == serveError(w, code)
         IN  IF serveErrorPanics(w, code)
             THEN Pageless(x) /\ ~AcceptsBody(x)
             ELSE Pageless(x) \/ PageOf(x, rt)
<1> DEFINE code == errorCode(rt)
           v == IF w.status = StatusOK THEN WriteHeader(w, code) ELSE w
           x == serveError(w, code)
<1>1. code \in Statuses /\ code \in {404, 405}
  BY DEF errorCode, StatusNotFound, StatusMethodNotAllowed, Statuses
<1>2. Sound(v) /\ Pageless(v)
  BY <1>1, WriteHeaderSound, PagelessKept DEF Authors
<1>3. x = IF Written(v) THEN v
          ELSE IF v.status = code THEN Render(v, code, "page")
          ELSE WriteHeaderNow(v)
  BY DEF serveError
<1>4. serveErrorPanics(w, code) <=> ~Written(v) /\ v.status = code /\ ~RenderOK(v, code)
  BY DEF serveErrorPanics
<1> HIDE DEF v, x, code
<1>5. CASE serveErrorPanics(w, code)
  BY <1>1, <1>2, <1>3, <1>4, <1>5, RenderRefused DEF x, code, Pageless
<1>6. CASE Written(v) \/ v.status # code
  <2>1. Pageless(WriteHeaderNow(v))
    BY <1>2, StatusKeeps DEF Pageless, Sound
  <2> QED
    BY <1>2, <1>3, <1>4, <1>6, <2>1 DEF x, code
<1>7. CASE ~Written(v) /\ v.status = code /\ RenderOK(v, code)
  <2> DEFINE n == WriteHeaderNow(v)
             u == CommitOK(n)
             y == [u EXCEPT !.body = Append(@, "page"), !.size = @ + 1]
  <2>1. bodyAllowedForStatus(code) /\ WriteHeader(v, code) = v
    BY <1>1, <1>7 DEF bodyAllowedForStatus, StatusNoContent, StatusNotModified, WriteHeader
  <2>2. v \in Response /\ v.body = << >> /\ v.wire # 0
        /\ (~v.overridden => v.wire = code)
    BY <1>1, <1>2, <1>7 DEF Sound, Response, StatusOK
  <2>3. n \in Response /\ n.body = << >> /\ n.wire = v.wire
        /\ n.overridden = v.overridden /\ n.hijacked = v.hijacked /\ n.broken = v.broken
    BY <2>2 DEF WriteHeaderNow, WriteHeader, Response
  <2>4. u = n
    <3> HIDE DEF n
    <3> QED
      BY <2>2, <2>3 DEF CommitOK
  <2>5. AcceptsBody(u)
    <3> HIDE DEF n
    <3> QED
      BY <1>7, <2>1, <2>3, <2>4 DEF RenderOK, AcceptsBody
  <2>6. x = y
    BY <1>3, <1>7, <2>1, <2>5 DEF Render, Write
  <2> HIDE DEF u, n
  <2>7. u \in Response /\ u.body = << >>
    BY <2>3, <2>4
  <2>8. y.body = Append(u.body, "page") /\ y.wire = u.wire /\ y.overridden = u.overridden
    BY <2>7 DEF Response
  <2>9. PageOf(x, rt)
    BY <2>2, <2>3, <2>4, <2>6, <2>7, <2>8 DEF PageOf, code
  <2> QED
    BY <1>4, <1>7, <2>9 DEF x, code
<1> QED
  BY <1>4, <1>5, <1>6, <1>7 DEF x, code


\* A request that a step leaves alone, and whose context it leaves alone.
LEMMA OthersEnd ==
  ASSUME NEW s \in Requests, End(s),
         held'[s] = held[s], pc'[s] = pc[s], stack'[s] = stack[s],
         route'[s] = route[s], resp'[s] = resp[s], logged'[s] = logged[s],
         InFlight(s) => ctx'[held[s]] = ctx[held[s]]
  PROVE  End(s)'
<1>1. InFlight(s)' <=> InFlight(s)
  BY DEF InFlight
<1>2. InFlight(s) => C(s)' = C(s)
  BY DEF InFlight, C
<1>3. InFlight(s) => /\ Frames(s)' <=> Frames(s)
                     /\ Wrapped(s)' <=> Wrapped(s)
                     /\ Front(s)' <=> Front(s)
                     /\ Logs(s)' <=> Logs(s)
  BY <1>2 DEF Frames, Wrapped, Front, Logs, Recorded
<1>4. Contained(s)' <=> Contained(s)
  BY DEF Contained
<1> QED
  BY <1>1, <1>2, <1>3, <1>4 DEF End

\* A step of a request leaves the others alone, and their contexts.
LEMMA StepAlone ==
  ASSUME IInv, NEW r \in Requests, NEW s \in Requests, s # r, Step(r)
  PROVE  /\ held'[s] = held[s] /\ pc'[s] = pc[s] /\ stack'[s] = stack[s]
         /\ route'[s] = route[s] /\ resp'[s] = resp[s] /\ logged'[s] = logged[s]
         /\ InFlight(s) => ctx'[held[s]] = ctx[held[s]]
<1>1. pc[r] \notin {"idle", "done"}
  BY DEF Step, Dispatch, Put, LoopStart, LoopExit, Call, CallSetStatus, CallRender,
     CallRenderFails, CallRedirect, CallSkip, CallAbortWithStatus,
     CallAbortWithStatusAndMessage, CallError, CallSet, CallWrite, CallFlush,
     CallHijack, CallNext, CallPanic, Calls, UserReturns, MiddlewareStart,
     LoggerReturns, RecoveryReturns, Unwind, Recover, Crash, MatchedTail, ErrorTail
<1>2. held[r] \in Contexts /\ C(r).w = r /\ InFlight(r)
  BY <1>1, Holding, NoneAssumption DEF InFlight
<1>3. InFlight(s) => held[s] \in Contexts /\ held[s] # held[r]
  BY <1>2 DEF IInv, TypeOK, Inv, InFlight, Own
<1> DEFINE Moved == /\ held' \in {held, [held EXCEPT ![r] = None]}
                    /\ \E p : pc' = [pc EXCEPT ![r] = p]
                    /\ \E t : stack' = [stack EXCEPT ![r] = t]
                    /\ \E x : route' = [route EXCEPT ![r] = x]
                    /\ \E w : resp' = [resp EXCEPT ![r] = w]
                    /\ \E l : logged' = [logged EXCEPT ![r] = l]
                    /\ \E c : ctx' = [ctx EXCEPT ![held[r]] = c]
<1>4. /\ \E p : pc = [pc EXCEPT ![r] = p]
      /\ \E t : stack = [stack EXCEPT ![r] = t]
      /\ \E x : route = [route EXCEPT ![r] = x]
      /\ \E w : resp = [resp EXCEPT ![r] = w]
      /\ \E l : logged = [logged EXCEPT ![r] = l]
      /\ \E c : ctx = [ctx EXCEPT ![held[r]] = c]
  <2>1. /\ pc = [pc EXCEPT ![r] = pc[r]] /\ stack = [stack EXCEPT ![r] = stack[r]]
        /\ route = [route EXCEPT ![r] = route[r]] /\ resp = [resp EXCEPT ![r] = resp[r]]
        /\ logged = [logged EXCEPT ![r] = logged[r]]
        /\ ctx = [ctx EXCEPT ![held[r]] = ctx[held[r]]]
    BY <1>2 DEF IInv, TypeOK
  <2> QED
    BY <2>1, Zenon
<1>5. Moved => /\ held'[s] = held[s] /\ pc'[s] = pc[s] /\ stack'[s] = stack[s]
               /\ route'[s] = route[s] /\ resp'[s] = resp[s] /\ logged'[s] = logged[s]
               /\ InFlight(s) => ctx'[held[s]] = ctx[held[s]]
  BY <1>3 DEF IInv, TypeOK
<1>6. CASE Dispatch(r) \/ Put(r) \/ LoopStart(r) \/ LoopExit(r)
  <2>1. Moved
    BY <1>4, <1>6, Zenon DEF Dispatch, Put, LoopStart, LoopExit, Goto
  <2> QED
    BY <1>5, <2>1
<1>7. CASE Call(r)
  <2> SUFFICES Moved
    BY <1>5
  <2>1. PICK op : Calls(r, op)
    BY <1>7 DEF Call, CallSetStatus, CallRender, CallRenderFails, CallRedirect,
       CallSkip, CallAbortWithStatus, CallAbortWithStatusAndMessage, CallError,
       CallSet, CallWrite, CallFlush, CallHijack, CallNext, CallPanic
  <2>2. UNCHANGED <<held, stack, route, logged>>
    BY <2>1 DEF Calls
  <2>3. \E p : pc' = [pc EXCEPT ![r] = p]
    BY <1>4, <1>7, Zenon DEF Call, CallSetStatus, CallRender, CallRenderFails,
       CallRedirect, CallSkip, CallAbortWithStatus, CallAbortWithStatusAndMessage,
       CallError, CallSet, CallWrite, CallFlush, CallHijack, CallNext, CallPanic,
       Advance, ReturnsIf, Goto
  <2>4. \E w : resp' = [resp EXCEPT ![r] = w]
    BY <1>2, <1>4, <1>7, Zenon DEF Call, CallSetStatus, CallRender, CallRenderFails,
       CallRedirect, CallSkip, CallAbortWithStatus, CallAbortWithStatusAndMessage,
       CallError, CallSet, CallWrite, CallFlush, CallHijack, CallNext, CallPanic,
       Respond
  <2>5. \E c : ctx' = [ctx EXCEPT ![held[r]] = c]
    BY <1>4, <1>7, Zenon DEF Call, CallSetStatus, CallRender, CallRenderFails,
       CallRedirect, CallSkip, CallAbortWithStatus, CallAbortWithStatusAndMessage,
       CallError, CallSet, CallWrite, CallFlush, CallHijack, CallNext, CallPanic,
       Advance, Skip
  <2> QED
    BY <1>4, <2>2, <2>3, <2>4, <2>5, Zenon
<1>8. CASE UserReturns(r) \/ MiddlewareStart(r) \/ LoggerReturns(r) \/ RecoveryReturns(r)
  <2>1. Moved
    BY <1>4, <1>8, Zenon DEF UserReturns, MiddlewareStart, LoggerReturns,
       RecoveryReturns, Returns, Advance, Goto
  <2> QED
    BY <1>5, <2>1
<1>9. CASE Unwind(r) \/ Recover(r) \/ Crash(r)
  <2>1. Moved
    BY <1>2, <1>4, <1>9, Zenon DEF Unwind, Recover, Crash, Advance, Goto, Respond
  <2> QED
    BY <1>5, <2>1
<1>10. CASE MatchedTail(r) \/ ErrorTail(r)
  <2>1. Moved
    BY <1>2, <1>4, <1>10, Zenon DEF MatchedTail, ErrorTail, Goto, Respond
  <2> QED
    BY <1>5, <2>1
<1> QED
  BY <1>6, <1>7, <1>8, <1>9, <1>10 DEF Step


\* A handler's call that keeps the place in the chain keeps the frames, and
\* writes no page.
LEMMA CallShapeEnds ==
  ASSUME IInv, NEW r \in Requests, End(r), pc[r] \in {"enter", "resume"},
         UNCHANGED <<held, stack, route, logged>>,
         C(r)'.handler = C(r).handler, C(r)'.index = C(r).index,
         C(r).skip => C(r)'.skip, pc'[r] \in {pc[r], "panic"},
         Pageless(resp'[r])
  PROVE  End(r)'
<1>1. InFlight(r) /\ InFlight(r)'
  BY Holding, NoneAssumption DEF InFlight
<1>2. Frames(r) /\ stack[r] # << >>
  BY <1>1 DEF End, Frames
<1>3. LoopGoesOn(C(r))' => LoopGoesOn(C(r))
  BY DEF LoopGoesOn
<1>4. Frames(r)'
  BY <1>2, <1>3 DEF Frames
<1>5. (Wrapped(r)' <=> Wrapped(r)) /\ (Front(r) => Front(r)')
  BY <1>2 DEF Wrapped, Front
<1>6. Contained(r)'
  BY <1>2 DEF Contained
<1>7. Logs(r) => Logs(r)'
  BY <1>2 DEF Logs
<1> QED
  BY <1>1, <1>4, <1>5, <1>6, <1>7 DEF End

\* Whatever a handler calls, short of Next.
LEMMA CallEnds ==
  ASSUME IInv, NEW r \in Requests, End(r), Call(r), ~CallNext(r)
  PROVE  End(r)'
<1> USE CodesAssumption DEF Statuses
<1>1. PICK op : Calls(r, op)
  BY DEF Call, CallSetStatus, CallRender, CallRenderFails, CallRedirect,
     CallSkip, CallAbortWithStatus, CallAbortWithStatusAndMessage, CallError,
     CallSet, CallWrite, CallFlush, CallHijack, CallPanic
<1>2. pc[r] \in {"enter", "resume"} /\ UNCHANGED <<held, stack, route, logged>>
  BY <1>1 DEF Calls
<1>3. /\ held[r] \in Contexts /\ C(r) \in Context /\ C(r).w = r
      /\ W(r) = resp[r] /\ Sound(resp[r]) /\ Pageless(resp[r])
  BY <1>2, Holding DEF End
<1>4. pc'[r] \in {pc[r], "panic"}
  BY <1>2 DEF IInv, TypeOK, Call, CallSetStatus, CallRender, CallRenderFails,
     CallRedirect, CallSkip, CallAbortWithStatus, CallAbortWithStatusAndMessage,
     CallError, CallSet, CallWrite, CallFlush, CallHijack, CallPanic, ReturnsIf, Goto
<1>5. /\ C(r)'.handler = C(r).handler /\ C(r)'.index = C(r).index
      /\ C(r).skip => C(r)'.skip
  <2>1. \/ ctx' = ctx
        \/ ctx' = [ctx EXCEPT ![held[r]].skip = TRUE]
        \/ ctx' = [ctx EXCEPT ![held[r]].errs = @ \cup {r}]
        \/ ctx' = [ctx EXCEPT ![held[r]].mp = @ \cup {r}]
    BY DEF Call, CallSetStatus, CallRender, CallRenderFails, CallRedirect,
       CallSkip, CallAbortWithStatus, CallAbortWithStatusAndMessage, CallError,
       CallSet, CallWrite, CallFlush, CallHijack, CallPanic, Skip
  <2>2. ctx \in [Contexts -> Context] /\ held' = held
    BY <1>2 DEF IInv, TypeOK
  <2>3. C(r)' \in { C(r), [C(r) EXCEPT !.skip = TRUE],
                    [C(r) EXCEPT !.errs = @ \cup {r}],
                    [C(r) EXCEPT !.mp = @ \cup {r}] }
    BY <1>3, <2>1, <2>2 DEF C
  <2>4. ASSUME NEW x \in Context, NEW c,
               c \in { x, [x EXCEPT !.skip = TRUE], [x EXCEPT !.errs = @ \cup {r}],
                       [x EXCEPT !.mp = @ \cup {r}] }
        PROVE  c.handler = x.handler /\ c.index = x.index /\ (x.skip => c.skip)
    BY <2>4 DEF Context
  <2> QED
    BY <1>3, <2>3, <2>4
<1>6. Pageless(resp'[r])
  <2>1. ASSUME NEW w, Pageless(w), Respond(r, w) PROVE Pageless(resp'[r])
    BY <1>3, <2>1 DEF Respond, IInv, TypeOK
  <2>2. ASSUME NEW code \in Codes
        PROVE  /\ Pageless(WriteHeader(W(r), code)) /\ Pageless(Render(W(r), code, "app"))
               /\ Pageless(Write(WriteHeader(W(r), code), "app"))
    BY <1>3, PagelessKept, PagelessWrite, WriteHeaderSound DEF Authors
  <2>3. /\ Pageless(Write(W(r), "app")) /\ Pageless(Flush(W(r)))
        /\ Pageless(Hijack(W(r)))
    BY <1>3, PagelessWrite, PagelessKept, 200 \in Statuses DEF Authors
  <2>4. CASE CallSetStatus(r) \/ CallRender(r) \/ CallRenderFails(r) \/ CallRedirect(r)
    BY <1>3, <2>1, <2>2, <2>4
       DEF CallSetStatus, CallRender, CallRenderFails, CallRedirect
  <2>5. CASE CallSkip(r) \/ CallAbortWithStatus(r) \/ CallAbortWithStatusAndMessage(r)
    BY <1>3, <2>1, <2>2, <2>5
       DEF CallSkip, CallAbortWithStatus, CallAbortWithStatusAndMessage
  <2>6. CASE \/ CallError(r) \/ CallSet(r) \/ CallWrite(r) \/ CallFlush(r)
             \/ CallHijack(r) \/ CallPanic(r)
    BY <1>3, <2>1, <2>3, <2>6
       DEF CallError, CallSet, CallWrite, CallFlush, CallHijack, CallPanic
  <2> QED
    BY <2>4, <2>5, <2>6 DEF Call
<1> QED
  BY <1>2, <1>4, <1>5, <1>6, CallShapeEnds

\* A sequence without its last element is shorter by one.
LEMMA PrefixLen ==
  ASSUME NEW s \in Seq(Nat), Len(s) > 0
  PROVE  Len(SubSeq(s, 1, Len(s) - 1)) = Len(s) - 1
OBVIOUS

\* What is left of a sequence is what it was.
LEMMA PrefixAt ==
  ASSUME NEW s \in Seq(Nat), NEW j \in 1..(Len(s) - 1)
  PROVE  SubSeq(s, 1, Len(s) - 1)[j] = s[j]
OBVIOUS

\* A frame that stays under another stays what it was.
LEMMA PopKeeps ==
  ASSUME NEW s \in Seq(Nat), s # << >>
  PROVE  LET t == SubSeq(s, 1, Len(s) - 1)
         IN  /\ t \in Seq(Nat) /\ Len(t) = Len(s) - 1
             /\ \A j \in 1..Len(t) : j \in 1..Len(s) /\ t[j] = s[j]
             /\ t # << >> => t[1] = s[1]
             /\ t = << >> => s[Len(s)] = s[1]
<1> DEFINE t == SubSeq(s, 1, Len(s) - 1)
<1>1. Len(s) \in Nat \ {0}
  OBVIOUS
<1>2. /\ t \in Seq(Nat) /\ Len(t) = Len(s) - 1
      /\ \A j \in 1..Len(t) : t[j] = s[j]
  <2>1. t \in Seq(Nat)
    OBVIOUS
  <2>2. Len(t) = Len(s) - 1
    BY <1>1, PrefixLen
  <2>3. \A j \in 1..(Len(s) - 1) : t[j] = s[j]
    BY PrefixAt
  <2> QED
    BY <2>1, <2>2, <2>3
<1> HIDE DEF t
<1>3. t # << >> => 1 \in 1..Len(t)
  BY <1>2
<1>4. t = << >> => Len(s) = 1
  BY <1>1, <1>2
<1> QED
  BY <1>1, <1>2, <1>3, <1>4 DEF t

\* The index moves on, from inside a handler that calls Next or that returns.
LEMMA AdvanceEnds ==
  ASSUME IInv, NEW r \in Requests, End(r), pc[r] \in {"enter", "resume", "panic"},
         stack[r] # << >>, Advance(r), UNCHANGED <<held, route, resp>>,
         Pageless(resp[r]),
         stack'[r] \in {stack[r], SubSeq(stack[r], 1, Len(stack[r]) - 1)},
         stack'[r] = << >> => C(r).skip \/ ~LoopGoesOn(C(r)) \/ Kind(r) = "user",
         LoggerInFront(C(r).handler) =>
           IF stack'[r] = << >> THEN Recorded(r)' ELSE logged'[r] = logged[r]
  PROVE  End(r)'
<1>1. InFlight(r) /\ InFlight(r)' /\ held[r] \in Contexts /\ C(r) \in Context
  BY Holding, NoneAssumption DEF InFlight
<1>2. Frames(r) /\ C(r).index \in Nat
  BY <1>1 DEF End, IInv, Inv, Own
<1>3. /\ C(r)'.handler = C(r).handler /\ C(r)'.index = C(r).index + 1
      /\ C(r)'.skip = C(r).skip /\ pc'[r] = "loop"
  BY <1>1 DEF Advance, Goto, C, IInv, TypeOK, Context
<1>4. /\ stack[r] \in Seq(Nat) /\ C(r).handler \in Seq(Kinds)
      /\ stack'[r] \in Seq(Nat)
      /\ \A j \in 1..Len(stack'[r]) : j \in 1..Len(stack[r]) /\ stack'[r][j] = stack[r][j]
      /\ stack'[r] # << >> => stack'[r][1] = stack[r][1]
      /\ stack'[r] = << >> => Top(r) = stack[r][1]
  <2>1. stack[r] \in Seq(Nat) /\ C(r).handler \in Seq(Kinds)
    BY <1>1 DEF IInv, TypeOK, Context
  <2> DEFINE t == SubSeq(stack[r], 1, Len(stack[r]) - 1)
  <2>2. /\ t \in Seq(Nat)
        /\ \A j \in 1..Len(t) : j \in 1..Len(stack[r]) /\ t[j] = stack[r][j]
        /\ t # << >> => t[1] = stack[r][1]
        /\ t = << >> => Top(r) = stack[r][1]
    BY <2>1, PopKeeps DEF Top
  <2>3. stack'[r] \in {stack[r], t}
    OBVIOUS
  <2> HIDE DEF t
  <2> QED
    BY <2>1, <2>2, <2>3
<1>5. Frames(r)'
  <2>1. \A j \in 1..Len(stack'[r]) :
          stack'[r][j] < Len(C(r)'.handler) /\ (j > 1 => stack'[r][j] > 0)
    BY <1>2, <1>3, <1>4 DEF Frames
  <2> QED
    BY <1>2, <1>3, <2>1 DEF Frames
<1>6. Wrapped(r) /\ Front(r) => Front(r)'
  <2> SUFFICES ASSUME Wrapped(r), Front(r) PROVE Front(r)'
    OBVIOUS
  <2>1. stack'[r] # << >> => stack'[r][1] = 0
    BY <1>4 DEF Front
  <2>2. ASSUME stack'[r] = << >> PROVE ~LoopGoesOn(C(r))'
    <3>1. Kind(r) = C(r).handler[1]
      BY <1>4, <2>2 DEF Front, Kind
    <3>2. Kind(r) # "user"
      BY <3>1 DEF Wrapped
    <3> QED
      BY <1>2, <1>3, <1>4, <2>2, <3>2 DEF LoopGoesOn
  <2> QED
    BY <2>1, <2>2 DEF Front
<1>7. Wrapped(r)' <=> Wrapped(r)
  BY <1>3 DEF Wrapped
<1>8. Contained(r)'
  BY <1>3 DEF Contained
<1>9. LoggerInFront(C(r).handler) /\ Logs(r) => Logs(r)'
  <2> SUFFICES ASSUME LoggerInFront(C(r).handler), Logs(r) PROVE Logs(r)'
    OBVIOUS
  <2>1. logged[r] = << >>
    BY DEF Logs
  <2> QED
    BY <1>2, <1>3, <2>1 DEF Logs
<1> QED
  BY <1>1, <1>3, <1>5, <1>6, <1>7, <1>8, <1>9 DEF End


\* A handler that calls Next or returns, and what Logger and Recovery do after
\* their Next.
LEMMA MovesEnd ==
  ASSUME IInv, NEW r \in Requests, End(r),
         \/ CallNext(r) \/ UserReturns(r) \/ MiddlewareStart(r)
         \/ LoggerReturns(r) \/ RecoveryReturns(r)
  PROVE  End(r)'
<1> DEFINE t == SubSeq(stack[r], 1, Len(stack[r]) - 1)
<1>1. pc[r] \in {"enter", "resume"} /\ Advance(r) /\ UNCHANGED <<held, route, resp>>
  BY DEF CallNext, Calls, UserReturns, MiddlewareStart, LoggerReturns,
     RecoveryReturns, Returns
<1>2. InFlight(r) /\ held[r] \in Contexts /\ C(r) \in Context /\ W(r) = resp[r]
  BY <1>1, Holding, NoneAssumption DEF InFlight
<1>3. /\ Frames(r) /\ stack[r] # << >> /\ Pageless(resp[r])
      /\ stack[r] \in Seq(Nat) /\ logged[r] \in Seq(Nat)
  BY <1>1, <1>2 DEF End, Frames, IInv, TypeOK
<1>4. /\ t \in Seq(Nat) /\ Len(t) = Len(stack[r]) - 1
      /\ t = << >> => Top(r) = stack[r][1]
  BY <1>3, PopKeeps DEF Top
<1>5. LoggerInFront(C(r).handler)
        => Logs(r) /\ Front(r) /\ stack[r][1] = 0 /\ logged[r] = << >>
  <2>1. LoggerInFront(C(r).handler) => Wrapped(r)
    BY DEF LoggerInFront, Wrapped
  <2> QED
    BY <1>1, <1>2, <1>3, <2>1 DEF End, Front, Logs
<1>6. Kind(r) = "logger" /\ LoggerInFront(C(r).handler) => t = << >>
  <2> SUFFICES ASSUME Kind(r) = "logger", LoggerInFront(C(r).handler), t # << >>
               PROVE  FALSE
    OBVIOUS
  <2>1. Len(stack[r]) > 1 /\ Len(stack[r]) \in Nat
    BY SMTT(30), <1>3, <1>4
  <2>2. /\ Top(r) \in Nat /\ Top(r) > 0 /\ Top(r) < Len(C(r).handler)
        /\ Len(C(r).handler) \in Nat
    <3> DEFINE j == Len(stack[r])
    <3>1. j \in 1..Len(stack[r]) /\ j > 1 /\ stack[r][j] \in Nat /\ Top(r) = stack[r][j]
      BY <1>3, <2>1 DEF Top
    <3>2. stack[r][j] < Len(C(r).handler) /\ stack[r][j] > 0
      <4> HIDE DEF j
      <4> QED
        BY <1>3, <3>1 DEF Frames
    <3>3. Len(C(r).handler) \in Nat
      BY <1>2 DEF Context
    <3> QED
      BY <3>1, <3>2, <3>3
  <2>3. Top(r) + 1 \in 2..Len(C(r).handler)
    BY <2>2
  <2> QED
    BY <2>3 DEF LoggerInFront, Kind
<1>7. t = << >> /\ LoggerInFront(C(r).handler) => Kind(r) = "logger"
  BY <1>4, <1>5 DEF Kind, LoggerInFront
<1>8. CASE CallNext(r) \/ MiddlewareStart(r)
  <2>1. stack' = stack /\ logged' = logged
    BY <1>8 DEF CallNext, Calls, MiddlewareStart
  <2> QED
    BY <1>1, <1>3, <2>1, AdvanceEnds
<1>9. CASE UserReturns(r)
  <2>1. stack'[r] = t /\ logged' = logged /\ Kind(r) = "user"
    BY <1>9 DEF UserReturns, Returns, IInv, TypeOK
  <2>2. LoggerInFront(C(r).handler) => stack'[r] # << >>
    BY <1>7, <2>1
  <2> HIDE DEF t
  <2> QED
    BY <1>1, <1>3, <2>1, <2>2, AdvanceEnds DEF t
<1>10. CASE RecoveryReturns(r)
  <2>1. /\ stack'[r] = t /\ logged' = logged /\ Kind(r) = "recovery"
        /\ ~LoopGoesOn(C(r))
    BY <1>3, <1>10 DEF RecoveryReturns, Returns, Frames, IInv, TypeOK
  <2>2. LoggerInFront(C(r).handler) => stack'[r] # << >>
    BY <1>7, <2>1
  <2> HIDE DEF t
  <2> QED
    BY <1>1, <1>3, <2>1, <2>2, AdvanceEnds DEF t
<1>11. CASE LoggerReturns(r)
  <2>1. /\ stack'[r] = t /\ logged'[r] = Append(logged[r], resp[r].status)
        /\ Kind(r) = "logger" /\ ~LoopGoesOn(C(r))
    BY <1>2, <1>3, <1>11 DEF LoggerReturns, Returns, Frames, IInv, TypeOK
  <2>2. LoggerInFront(C(r).handler) => stack'[r] = << >> /\ Recorded(r)'
    <3>1. resp'[r] = resp[r]
      BY <1>1
    <3> QED
      BY <1>5, <1>6, <2>1, <3>1 DEF Recorded
  <2> HIDE DEF t
  <2> QED
    BY <1>1, <1>3, <2>1, <2>2, AdvanceEnds DEF t
<1> QED
  BY <1>8, <1>9, <1>10, <1>11

\* The head of Next.  The handler it starts is the first one or comes later than
\* those under way; leaving an outermost loop ends the chain.
LEMMA LoopEnds ==
  ASSUME IInv, NEW r \in Requests, End(r), LoopStart(r) \/ LoopExit(r)
  PROVE  End(r)'
<1>1. /\ pc[r] = "loop" /\ UNCHANGED <<ctx, held, route, resp, logged>>
      /\ InFlight(r) /\ InFlight(r)' /\ C(r) \in Context /\ C(r)' = C(r)
  BY Holding, NoneAssumption DEF LoopStart, LoopExit, InFlight, C
<1>2. /\ Frames(r) /\ C(r).index \in Nat /\ stack[r] \in Seq(Nat)
      /\ Pageless(resp[r]) /\ Len(C(r).handler) \in Nat
  BY <1>1 DEF End, IInv, TypeOK, Inv, Own, Context
<1>3. (Wrapped(r)' <=> Wrapped(r)) /\ (LoggerInFront(C(r).handler) => Wrapped(r))
  BY <1>1 DEF Wrapped, LoggerInFront
<1>4. CASE LoopStart(r)
  <2> DEFINE t == Append(stack[r], C(r).index)
  <2>1. /\ stack'[r] = t /\ pc'[r] = "enter" /\ LoopGoesOn(C(r))
    BY <1>4 DEF LoopStart, Goto, IInv, TypeOK
  <2>2. /\ t \in Seq(Nat) /\ Len(t) = Len(stack[r]) + 1 /\ Len(t) \in Nat
        /\ \A j \in 1..Len(stack[r]) : t[j] = stack[r][j]
        /\ t[Len(t)] = C(r).index /\ t # << >>
    BY <1>2
  <2>3. C(r).index < Len(C(r).handler) /\ ~C(r).skip
    BY <2>1 DEF LoopGoesOn
  <2>4. stack[r] # << >> => C(r).index > 0 /\ Len(stack[r]) \in Nat \ {0}
    BY <1>1, <1>2 DEF Frames
  <2>5. stack[r] = << >> => t[1] = C(r).index /\ Len(t) = 1
    BY <2>2
  <2> HIDE DEF t
  <2>6. Frames(r)'
    <3>1. ASSUME NEW j \in 1..Len(t)
          PROVE  t[j] < Len(C(r).handler) /\ (j > 1 => t[j] > 0)
      <4>1. CASE j = Len(t)
        BY <2>2, <2>3, <2>4, <2>5, <4>1
      <4>2. CASE j # Len(t)
        <5>1. j \in 1..Len(stack[r])
          BY <1>2, <2>2, <4>2
        <5> QED
          BY <1>2, <2>2, <5>1 DEF Frames
      <4> QED
        BY <4>1, <4>2
    <3> QED
      BY <1>1, <2>1, <2>2, <3>1 DEF Frames
  <2>7. Wrapped(r) /\ Front(r) => Front(r)'
    <3>1. stack[r] # << >> => t[1] = stack[r][1]
      BY <2>2, <2>4
    <3> QED
      BY <1>1, <2>1, <2>2, <2>5, <3>1 DEF Front
  <2>8. LoggerInFront(C(r).handler) /\ Front(r) /\ Logs(r) => Logs(r)'
    BY <1>1, <2>1, <2>2 DEF Front, Logs
  <2>9. Contained(r)'
    BY <2>1 DEF Contained
  <2> QED
    BY <1>1, <1>2, <1>3, <2>1, <2>6, <2>7, <2>8, <2>9 DEF End
<1>5. CASE LoopExit(r)
  <2>1. /\ stack' = stack /\ ~LoopGoesOn(C(r))
        /\ pc'[r] = IF stack[r] = << >> THEN "tail" ELSE "resume"
    BY <1>5 DEF LoopExit, Goto, IInv, TypeOK
  <2>2. Frames(r)'
    BY <1>1, <1>2, <2>1 DEF Frames, LoopGoesOn
  <2>3. Front(r) => Front(r)'
    BY <1>1, <2>1 DEF Front
  <2>4. LoggerInFront(C(r).handler) /\ Logs(r) => Logs(r)'
    <3> SUFFICES ASSUME LoggerInFront(C(r).handler), Logs(r) PROVE Logs(r)'
      OBVIOUS
    <3>1. Len(C(r).handler) > 0
      BY <1>1, <1>2 DEF LoggerInFront, Context
    <3>2. stack[r] = << >> => C(r).index # 0 /\ Recorded(r)
      BY <1>1, <1>2, <2>1, <3>1 DEF Logs, LoopGoesOn
    <3>3. Recorded(r)' <=> Recorded(r)
      BY <1>1 DEF Recorded
    <3> QED
      BY <1>1, <2>1, <3>2, <3>3 DEF Logs
  <2>5. Contained(r)'
    BY <2>1 DEF Contained
  <2> QED
    BY <1>1, <1>2, <1>3, <2>1, <2>2, <2>3, <2>4, <2>5 DEF End
<1> QED
  BY <1>4, <1>5


\* A panic that unwinds, that Recovery stops or that leaves ServeHTTP.
LEMMA PanicsEnd ==
  ASSUME IInv, NEW r \in Requests, End(r), Unwind(r) \/ Recover(r) \/ Crash(r)
  PROVE  End(r)'
<1> DEFINE t == SubSeq(stack[r], 1, Len(stack[r]) - 1)
<1>1. pc[r] = "panic" /\ UNCHANGED <<held, route, logged>>
  BY DEF Unwind, Recover, Crash
<1>2. /\ InFlight(r) /\ InFlight(r)' /\ held[r] \in Contexts /\ C(r) \in Context
      /\ C(r).w = r /\ W(r) = resp[r] /\ Sound(resp[r])
  BY <1>1, Holding, NoneAssumption DEF InFlight
<1>3. /\ Frames(r) /\ stack[r] \in Seq(Nat) /\ Pageless(resp[r])
      /\ C(r).index \in Nat
  BY <1>1, <1>2 DEF End, IInv, TypeOK, Inv, Own
<1>4. stack[r] # << >> =>
        /\ t \in Seq(Nat) /\ Len(t) = Len(stack[r]) - 1
        /\ \A j \in 1..Len(t) : j \in 1..Len(stack[r]) /\ t[j] = stack[r][j]
        /\ t # << >> => t[1] = stack[r][1]
        /\ t = << >> => Top(r) = stack[r][1]
  BY <1>3, PopKeeps DEF Top
<1> HIDE DEF t
<1>5. LoggerInFront(C(r).handler) => Wrapped(r)
  BY DEF LoggerInFront, Wrapped
<1>6. CASE Unwind(r)
  <2>1. /\ stack[r] # << >> /\ stack'[r] = t /\ C(r)' = C(r)
        /\ pc'[r] = "panic" /\ resp' = resp /\ Kind(r) # "recovery"
    BY <1>2, <1>6 DEF Unwind, t, C, IInv, TypeOK
  <2>2. Frames(r)'
    BY <1>3, <1>4, <2>1 DEF Frames
  <2>3. (Wrapped(r)' <=> Wrapped(r)) /\ (Front(r) => Front(r)')
    BY <1>4, <2>1 DEF Wrapped, Front
  <2>4. LoggerInFront(C(r).handler) /\ Logs(r) => Logs(r)'
    BY <1>1, <2>1 DEF Logs
  <2>5. Wrapped(r) /\ C(r).handler[1] = "recovery" /\ Front(r) => Contained(r)'
    BY <1>4, <2>1 DEF Front, Kind, Contained
  <2> QED
    BY <1>1, <1>2, <1>3, <1>5, <2>1, <2>2, <2>3, <2>4, <2>5 DEF End
<1>7. CASE Recover(r) /\ C(r).skip
  <2>1. /\ stack[r] # << >> /\ stack'[r] = t /\ Advance(r) /\ resp' = resp
        /\ Kind(r) = "recovery"
    BY <1>7 DEF Recover, t, IInv, TypeOK
  <2>2. LoggerInFront(C(r).handler) => stack'[r] # << >>
    BY <1>1, <1>2, <1>4, <1>5, <2>1 DEF End, Front, Kind, LoggerInFront
  <2> QED
    BY <1>1, <1>3, <1>7, <2>1, <2>2, AdvanceEnds DEF t
<1>8. CASE Recover(r) /\ ~C(r).skip
  <2> DEFINE code == StatusInternalServerError
             ok == RenderOK(W(r), code)
             w == Render(W(r), code, "recovery")
  <2>1. /\ stack[r] # << >> /\ stack'[r] = t /\ Kind(r) = "recovery"
        /\ ctx' = [ctx EXCEPT ![held[r]] =
                     [C(r) EXCEPT !.skip = TRUE,
                                  !.index = IF ok THEN nextIndex(C(r)) ELSE @]]
        /\ Respond(r, w) /\ pc'[r] = IF ok THEN "loop" ELSE "panic"
    BY <1>8 DEF Recover, t, IInv, TypeOK, Goto
  <2>2. resp'[r] = w /\ code \in Statuses
    BY <1>2, <2>1 DEF Respond, IInv, TypeOK, Statuses, StatusInternalServerError
  <2>3. Pageless(w) /\ (~ok => ~AcceptsBody(w))
    BY <1>2, <1>3, <2>2, PagelessKept, RenderRefused DEF Authors
  <2>4. /\ C(r)'.handler = C(r).handler /\ C(r)'.skip
        /\ ok => C(r)'.index > 0
    BY <1>1, <1>2, <1>3, <2>1 DEF C, IInv, TypeOK, Context
  <2> HIDE DEF ok, w, code
  <2>5. Frames(r)'
    BY <1>3, <1>4, <2>1, <2>4 DEF Frames
  <2>6. (Wrapped(r)' <=> Wrapped(r)) /\ (Front(r) => Front(r)')
    BY <1>4, <2>1, <2>4 DEF Wrapped, Front, LoopGoesOn
  <2>7. LoggerInFront(C(r).handler) => t # << >>
    BY <1>1, <1>2, <1>4, <1>5, <2>1 DEF End, Front, Kind, LoggerInFront
  <2>8. LoggerInFront(C(r).handler) /\ Logs(r) => Logs(r)'
    BY <1>1, <2>1, <2>7 DEF Logs
  <2>9. Contained(r)'
    BY <2>1, <2>2, <2>3 DEF Contained
  <2> QED
    BY <1>1, <1>2, <1>3, <1>5, <2>1, <2>2, <2>3, <2>4, <2>5, <2>6, <2>8, <2>9 DEF End
<1>9. CASE Crash(r)
  <2>1. /\ stack[r] = << >> /\ stack' = stack /\ C(r)' = C(r)
        /\ pc'[r] = "crashed" /\ resp' = resp
    BY <1>2, <1>9 DEF Crash, Goto, C, IInv, TypeOK
  <2>2. Frames(r)'
    BY <1>3, <2>1 DEF Frames
  <2>3. (Wrapped(r)' <=> Wrapped(r)) /\ (Front(r) => Front(r)')
    BY <2>1 DEF Wrapped, Front
  <2>4. Logs(r)'
    BY <2>1 DEF Logs
  <2>5. Contained(r) => Contained(r)'
    BY <1>1, <2>1 DEF Contained
  <2> QED
    BY <1>1, <1>2, <1>3, <1>5, <2>1, <2>2, <2>3, <2>4, <2>5 DEF End
<1> QED
  BY <1>6, <1>7, <1>8, <1>9

\* The tails of ServeHTTP: the record of a matched route stays right, and the
\* page of an unmatched one comes last.
LEMMA TailsEnd ==
  ASSUME IInv, NEW r \in Requests, End(r), MatchedTail(r) \/ ErrorTail(r)
  PROVE  End(r)'
<1>1. pc[r] = "tail" /\ UNCHANGED <<ctx, held, stack, route, logged>>
  BY DEF MatchedTail, ErrorTail
<1>2. /\ InFlight(r) /\ InFlight(r)' /\ C(r)' = C(r)
      /\ C(r).w = r /\ W(r) = resp[r] /\ Sound(resp[r])
  BY <1>1, Holding, NoneAssumption DEF InFlight, C
<1>3. Frames(r) /\ stack[r] = << >> /\ Pageless(resp[r])
  BY <1>1, <1>2 DEF End, Frames
<1>4. pc'[r] \in {"put", "panic"} => Frames(r)'
  BY <1>1, <1>2, <1>3 DEF Frames
<1>5. pc'[r] \in {"put", "panic"} =>
        (Wrapped(r)' <=> Wrapped(r)) /\ (Front(r) => Front(r)')
  BY <1>1, <1>2, <1>3 DEF Wrapped, Front
<1>6. CASE MatchedTail(r)
  <2>1. /\ pc'[r] = "put" /\ resp'[r] = WriteHeaderNow(resp[r])
        /\ route[r] = "match"
    BY <1>2, <1>6 DEF MatchedTail, Goto, Respond, IInv, TypeOK
  <2>2. Pageless(resp'[r])
    BY <1>2, <1>3, <2>1, StatusKeeps DEF Pageless, Sound
  <2>3. resp'[r].status = resp[r].status
    BY <1>2, <2>1 DEF WriteHeaderNow, WriteHeader, Sound, Response
  <2>4. Logs(r) => Logs(r)'
    BY <1>1, <1>2, <1>3, <2>1, <2>3 DEF Logs, Recorded
  <2>5. Contained(r)'
    BY <2>1 DEF Contained
  <2> QED
    BY <1>1, <1>2, <1>4, <1>5, <2>1, <2>2, <2>4, <2>5 DEF End
<1>7. CASE ErrorTail(r)
  <2> DEFINE code == errorCode(route[r])
             x == serveError(resp[r], code)
             bad == serveErrorPanics(resp[r], code)
  <2>1. /\ route[r] \in {"notFound", "noMethod"} /\ resp'[r] = x
        /\ pc'[r] = IF bad THEN "panic" ELSE "put"
    BY <1>2, <1>7 DEF ErrorTail, Goto, Respond, IInv, TypeOK
  <2>2. IF bad THEN Pageless(x) /\ ~AcceptsBody(x)
        ELSE Pageless(x) \/ PageOf(x, route[r])
    BY <1>2, <1>3, <2>1, ServeErrorPage
  <2> HIDE DEF code, x, bad
  <2>3. Logs(r) => Logs(r)'
    BY <1>1, <1>2, <1>3, <2>1 DEF Logs, Recorded
  <2>4. Contained(r)'
    BY <2>1, <2>2 DEF Contained
  <2> QED
    BY <1>1, <1>2, <1>4, <1>5, <2>1, <2>2, <2>3, <2>4 DEF End
<1> QED
  BY <1>6, <1>7


\* A chain starts with an empty stack and an empty log.
LEMMA DispatchEnds ==
  ASSUME IInv, NEW r \in Requests, End(r), Dispatch(r)
  PROVE  End(r)'
<1>1. pc[r] = "dispatch" /\ UNCHANGED <<held, stack, resp, logged>>
  BY DEF Dispatch
<1>2. /\ InFlight(r) /\ InFlight(r)' /\ held[r] \in Contexts /\ C(r) \in Context
  BY <1>1, Holding, NoneAssumption DEF InFlight
<1>3. /\ Frames(r) /\ stack[r] = << >> /\ logged[r] = << >> /\ ~C(r).skip
      /\ Pageless(resp[r]) /\ C(r).index = -1
  BY <1>1, <1>2 DEF End, Frames, IInv, Inv, Own
<1>4. pc'[r] = "loop" /\ C(r)'.index = 0 /\ ~C(r)'.skip
  <2>1. PICK rt \in Routes \ {"none"}, h \in Chains :
          ctx' = [ctx EXCEPT ![held[r]] =
                    [C(r) EXCEPT !.handler = h, !.index = nextIndex(C(r)),
                                 !.params = IF rt = "match" THEN {r} ELSE @]]
    BY DEF Dispatch
  <2> DEFINE c == [C(r) EXCEPT !.handler = h, !.index = @ + 1,
                               !.params = IF rt = "match" THEN {r} ELSE @]
  <2>2. c.index = C(r).index + 1 /\ c.skip = C(r).skip
    BY <1>2 DEF Context
  <2>3. C(r)' = c
    BY <1>1, <1>2, <2>1 DEF C, IInv, TypeOK
  <2>4. pc'[r] = "loop"
    BY DEF Dispatch, Goto, IInv, TypeOK
  <2> HIDE DEF c
  <2> QED
    BY <1>3, <2>2, <2>3, <2>4
<1>5. Frames(r)' /\ Front(r)' /\ Contained(r)' /\ Logs(r)'
  BY <1>1, <1>3, <1>4 DEF Frames, Front, Contained, Logs
<1> QED
  BY <1>1, <1>3, <1>4, <1>5 DEF End

\* A request that ends keeps its response and its log.
LEMMA PutEnds ==
  ASSUME IInv, NEW r \in Requests, End(r), Put(r)
  PROVE  End(r)'
<1>1. /\ pc[r] = "put" /\ pc'[r] = "done" /\ held'[r] = None
      /\ UNCHANGED <<route, resp>>
  BY DEF Put, Goto, IInv, TypeOK
<1> QED
  BY <1>1 DEF End, InFlight

\* A request that arrives has a fresh response and a context without a chain.
LEMMA BeginEnds ==
  ASSUME IInv, NEW r \in Requests, \A s \in Requests : End(s), Begin(r)
  PROVE  \A s \in Requests : End(s)'
<1>1. PICK c \in pool \cup (Contexts \ InUse), h \in Hijackers :
        /\ ctx' = [ctx EXCEPT ![c] = reset(@, r)]
        /\ held' = [held EXCEPT ![r] = c]
        /\ resp' = [resp EXCEPT ![r] = wrapResponseWriter(h)]
  BY DEF Begin
<1>2. /\ pc[r] = "idle" /\ pc' = [pc EXCEPT ![r] = "dispatch"]
      /\ UNCHANGED <<stack, route, logged>>
  BY DEF Begin, Goto
<1>3. c \in Contexts /\ c # None /\ \A s \in Requests : held[s] # c
  BY FreeContext
<1>4. End(r)'
  <2>1. stack[r] = << >> /\ logged[r] = << >>
    BY <1>2 DEF End
  <2>2. held'[r] = c /\ pc'[r] = "dispatch" /\ resp'[r] = wrapResponseWriter(h)
    BY <1>1, <1>2 DEF IInv, TypeOK
  <2>3. C(r)' = reset(ctx[c], r) /\ ctx[c] \in Context
    BY <1>1, <1>3, <2>2 DEF C, IInv, TypeOK
  <2>4. ~C(r)'.skip
    BY <2>3 DEF reset, Context
  <2>5. Pageless(resp'[r])
    BY <2>2 DEF Pageless, wrapResponseWriter
  <2>6. Frames(r)'
    BY <1>2, <2>1, <2>2, <2>4 DEF Frames
  <2> QED
    BY <1>2, <2>1, <2>2, <2>5, <2>6 DEF End
<1>5. ASSUME NEW s \in Requests, s # r PROVE End(s)'
  <2>1. /\ held'[s] = held[s] /\ pc'[s] = pc[s] /\ stack'[s] = stack[s]
        /\ route'[s] = route[s] /\ resp'[s] = resp[s] /\ logged'[s] = logged[s]
    BY <1>1, <1>2, <1>5 DEF IInv, TypeOK
  <2>2. InFlight(s) => ctx'[held[s]] = ctx[held[s]]
    BY <1>1, <1>3 DEF IInv, TypeOK, InFlight
  <2> QED
    BY <2>1, <2>2, OthersEnd
<1> QED
  BY <1>4, <1>5

\* A response that breaks off has the page and the record it had, and takes no
\* body any more.
LEMMA BreaksEnds ==
  ASSUME IInv, NEW r \in Requests, \A s \in Requests : End(s), Breaks(r)
  PROVE  \A s \in Requests : End(s)'
<1>1. /\ resp' = [resp EXCEPT ![r] = Break(@)]
      /\ UNCHANGED <<pool, ctx, pc, held, stack, route, fuel, ran, aborted, logged>>
  BY DEF Breaks
<1>2. End(r)'
  <2> DEFINE v == resp[r]
  <2>1. resp'[r] = Break(v) /\ Sound(v)
    BY <1>1 DEF IInv, TypeOK, Inv
  <2>2. /\ Break(v).body = v.body /\ Break(v).status = v.status /\ Break(v).wire = v.wire
        /\ Break(v).overridden = v.overridden /\ ~AcceptsBody(Break(v))
    BY <2>1, BreakSound DEF AcceptsBody, Break, Sound, Response
  <2>3. /\ Pageless(v) => Pageless(resp'[r])
        /\ PageOf(v, route[r]) => PageOf(resp'[r], route[r])
    BY <2>1, <2>2 DEF Pageless, PageOf
  <2>4. InFlight(r)' <=> InFlight(r)
    BY <1>1 DEF InFlight
  <2>5. InFlight(r) => C(r)' = C(r)
    BY <1>1 DEF C
  <2>6. Recorded(r) => Recorded(r)'
    BY <1>1, <2>1, <2>2 DEF Recorded
  <2>7. InFlight(r) => /\ Frames(r) => Frames(r)'
                       /\ Wrapped(r)' <=> Wrapped(r)
                       /\ Front(r) => Front(r)'
                       /\ Logs(r) => Logs(r)'
    BY <1>1, <2>5, <2>6 DEF Frames, Wrapped, Front, Logs
  <2>8. Contained(r)'
    BY <2>1, <2>2 DEF Contained
  <2>9. End(r)
    OBVIOUS
  <2> HIDE DEF v
  <2> QED
    BY <1>1, <2>3, <2>4, <2>5, <2>7, <2>8, <2>9 DEF End, v
<1>3. ASSUME NEW s \in Requests, s # r PROVE End(s)'
  <2>1. resp'[s] = resp[s]
    BY <1>1, <1>3 DEF IInv, TypeOK
  <2> QED
    BY <1>1, <2>1, OthersEnd
<1> QED
  BY <1>2, <1>3

\* Every step keeps what a request leaves behind in order.
LEMMA NextEnds == EInv /\ [Next]_vars => EInv'
<1> SUFFICES ASSUME EInv, [Next]_vars PROVE EInv'
  OBVIOUS
<1>1. IInv /\ IInv' /\ \A s \in Requests : End(s)
  BY NextInv DEF EInv
<1>2. CASE UNCHANGED vars
  <2>1. ASSUME NEW s \in Requests PROVE End(s)'
    BY <1>1, <1>2, OthersEnd DEF vars
  <2> QED
    BY <1>1, <2>1 DEF EInv
<1>3. ASSUME NEW r \in Requests, Begin(r) PROVE EInv'
  BY <1>1, <1>3, BeginEnds DEF EInv
<1>4. ASSUME NEW r \in Requests, Step(r) PROVE EInv'
  <2>1. End(r)'
    BY <1>1, <1>4, DispatchEnds, PutEnds, LoopEnds, CallEnds, MovesEnd, PanicsEnd,
       TailsEnd DEF Step
  <2>2. ASSUME NEW s \in Requests, s # r PROVE End(s)'
    <3>1. /\ held'[s] = held[s] /\ pc'[s] = pc[s] /\ stack'[s] = stack[s]
          /\ route'[s] = route[s] /\ resp'[s] = resp[s] /\ logged'[s] = logged[s]
          /\ InFlight(s) => ctx'[held[s]] = ctx[held[s]]
      BY <1>1, <1>4, <2>2, StepAlone
    <3> QED
      BY <1>1, <3>1, OthersEnd
  <2> QED
    BY <1>1, <2>1, <2>2 DEF EInv
<1>5. ASSUME NEW c \in Contexts, PoolDrop(c) PROVE EInv'
  <2>1. ASSUME NEW s \in Requests PROVE End(s)'
    <3>1. /\ c \in pool /\ ctx' = [ctx EXCEPT ![c] = NewContext]
          /\ UNCHANGED <<pc, held, stack, route, resp, logged>>
      BY <1>5 DEF PoolDrop
    <3>2. InFlight(s) => ctx'[held[s]] = ctx[held[s]]
      BY <1>1, <3>1, FreeContext DEF IInv, TypeOK, InFlight
    <3> QED
      BY <1>1, <3>1, <3>2, OthersEnd
  <2> QED
    BY <1>1, <2>1 DEF EInv
<1>6. ASSUME NEW r \in Requests, Breaks(r) PROVE EInv'
  BY <1>1, <1>6, BreaksEnds DEF EInv
<1> QED
  BY <1>2, <1>3, <1>4, <1>5, <1>6 DEF Next, Terminated

\* The initial states have nothing to leave behind.
LEMMA InitEnds == Init => EInv
<1> SUFFICES ASSUME Init, NEW r \in Requests PROVE End(r)
  BY InitInv DEF EInv
<1>1. /\ pc[r] = "idle" /\ held[r] = None /\ stack[r] = << >> /\ logged[r] = << >>
      /\ resp[r] = wrapResponseWriter(TRUE)
  BY DEF Init
<1>2. Pageless(resp[r])
  BY <1>1 DEF Pageless, wrapResponseWriter
<1> QED
  BY <1>1, <1>2 DEF End, InFlight

\* The frames, the log, the panics and the page stay in order throughout.
THEOREM EndInvariant == Spec => []EInv
BY InitEnds, NextEnds, PTL DEF Spec

\* The built-in error page is the whole body of an unmatched request or no part
\* of a response, whatever the chain of 404 or 405 wrote before it.
THEOREM PageAlone == Spec => []ErrorPageAlone
<1>1. EInv => ErrorPageAlone
  BY DEF EInv, End, Pageless, PageOf, ErrorPageAlone
<1> QED
  BY <1>1, EndInvariant, PTL

\* A Logger in front of a chain of any length records every request once, and
\* the final status of those that match, however handlers nest their calls of
\* Next, stop the chain or panic.
THEOREM RecordedOnce == Spec => []LoggedOnce
<1>1. EInv => LoggedOnce
  <2> SUFFICES ASSUME EInv, NEW r \in Requests, pc[r] = "put",
                      LoggerInFront(C(r).handler)
               PROVE  Len(logged[r]) = 1 /\ (route[r] = "match" => Recorded(r))
    BY DEF LoggedOnce, Recorded
  <2>1. InFlight(r)
    BY Holding, NoneAssumption DEF EInv, InFlight
  <2> QED
    BY <2>1 DEF EInv, End, Logs
<1> QED
  BY <1>1, EndInvariant, PTL

\* With Recovery in front no panic of any handler leaves ServeHTTP unless net/http
\* takes no body: after a hijack, under a status without one, past the declared
\* Content-Length or with the client gone.
THEOREM PanicsContained == Spec => []RecoveryContains
<1>1. EInv => RecoveryContains
  <2> SUFFICES ASSUME EInv, NEW r \in Requests, pc[r] = "crashed",
                      C(r).handler # << >>, C(r).handler[1] = "recovery"
               PROVE  ~AcceptsBody(resp[r])
    BY DEF RecoveryContains
  <2>1. InFlight(r) /\ Wrapped(r)
    BY Holding, NoneAssumption DEF EInv, InFlight, Wrapped
  <2> QED
    BY <2>1 DEF EInv, End, Frames, Contained
<1> QED
  BY <1>1, EndInvariant, PTL


-----------------------------------------------------------------------------
(* Refinement.  A step of one request is a step of its chain or none of it. *)

\* A step of r leaves the chains of the others alone.
Alike(r) ==
  \A s \in Requests \ {r} :
    /\ pc'[s] = pc[s] /\ held'[s] = held[s]
    /\ InFlight(s) => ctx'[held[s]] = ctx[held[s]]

Shifts(r, p, n) ==
  /\ Phases' = [Phases EXCEPT ![r] = p]
  /\ Lengths' = [Lengths EXCEPT ![r] = n]

\* What the chains of all requests become when only that of r moves.
LEMMA Shifted ==
  ASSUME NEW r \in Requests, Alike(r), NEW p, Phase(r)' = p, NEW n, Length(r)' = n
  PROVE  Shifts(r, p, n)
<1>1. ASSUME NEW s \in Requests, s # r
      PROVE  Phase(s)' = Phase(s) /\ Length(s)' = Length(s)
  <2>1. pc'[s] = pc[s] /\ held'[s] = held[s] /\ (InFlight(s) => C(s)' = C(s))
    BY <1>1 DEF Alike, C
  <2> QED
    BY <2>1 DEF Phase, Length, InFlight
<1>2. Phases' = [Phases EXCEPT ![r] = p]
  BY <1>1 DEF Phases
<1>3. Lengths' = [Lengths EXCEPT ![r] = n]
  BY <1>1 DEF Lengths
<1> QED
  BY <1>2, <1>3 DEF Shifts

\* A chain that does not move.
LEMMA NotShifted ==
  ASSUME NEW r \in Requests, Shifts(r, Phase(r), Length(r))
  PROVE  UNCHANGED <<Phases, Lengths>>
BY DEF Shifts, Phases, Lengths

LEMMA MapBegin ==
  ASSUME NEW r \in Requests, NEW n \in Nat, Shifts(r, "running", n), Phase(r) = "waiting",
         \A s \in Requests : Length(s) \in Nat, UNCHANGED <<ran, stack, aborted>>
  PROVE  Abstract!Begin(r)
BY DEF Shifts, Phases, Lengths, Abstract!Begin, Abstract!Moves

LEMMA MapStart ==
  ASSUME NEW r \in Requests, Shifts(r, "running", Length(r)), Phase(r) = "running",
         r \notin aborted, Len(ran[r]) # Length(r),
         ran' = [ran EXCEPT ![r] = Append(@, Len(@))],
         stack' = [stack EXCEPT ![r] = Append(@, Len(ran[r]))], UNCHANGED aborted
  PROVE  Abstract!Start(r)
<1>1. UNCHANGED <<Phases, Lengths>>
  BY NotShifted
<1> QED
  BY <1>1 DEF Phases, Lengths, Abstract!Start, Abstract!Over

LEMMA MapReturn ==
  ASSUME NEW r \in Requests, Shifts(r, Phase(r), Length(r)),
         Phase(r) \in {"running", "panicking"}, stack[r] # << >>,
         stack' = [stack EXCEPT ![r] = SubSeq(@, 1, Len(@) - 1)],
         UNCHANGED <<ran, aborted>>
  PROVE  Abstract!Return(r)
<1>1. UNCHANGED <<Phases, Lengths>>
  BY NotShifted
<1> QED
  BY <1>1 DEF Phases, Abstract!Return, Abstract!Leaves

LEMMA MapStop ==
  ASSUME NEW r \in Requests, NEW p \in {"running", "panicking"},
         Shifts(r, p, Length(r)), Phase(r) = "running", stack[r] # << >>,
         aborted' = aborted \cup {r}, UNCHANGED <<ran, stack>>
  PROVE  Abstract!Stop(r)
BY DEF Shifts, Phases, Lengths, Abstract!Stop, Abstract!Moves

LEMMA MapPanic ==
  ASSUME NEW r \in Requests, Shifts(r, "panicking", Length(r)), Phase(r) = "running",
         stack[r] # << >> \/ r \in aborted \/ Len(ran[r]) = Length(r),
         UNCHANGED <<ran, stack, aborted>>
  PROVE  Abstract!Panic(r)
BY DEF Shifts, Phases, Lengths, Abstract!Panic, Abstract!Over, Abstract!Moves

LEMMA MapRecover ==
  ASSUME NEW r \in Requests, NEW p \in {"running", "panicking"},
         Shifts(r, p, Length(r)), Phase(r) = "panicking", stack[r] # << >>,
         stack' = [stack EXCEPT ![r] = SubSeq(@, 1, Len(@) - 1)],
         aborted' = aborted \cup {r}, UNCHANGED ran
  PROVE  Abstract!Recover(r)
BY DEF Shifts, Phases, Lengths, Abstract!Recover, Abstract!Leaves, Abstract!Moves

LEMMA MapFinish ==
  ASSUME NEW r \in Requests, Shifts(r, "ended", 0), Phase(r) = "running",
         stack[r] = << >>, r \in aborted \/ Len(ran[r]) = Length(r),
         UNCHANGED <<ran, stack, aborted>>
  PROVE  Abstract!Finish(r)
BY DEF Shifts, Phases, Lengths, Abstract!Finish, Abstract!Over, Abstract!Moves

LEMMA MapLose ==
  ASSUME NEW r \in Requests, Shifts(r, "lost", Length(r)), Phase(r) = "panicking",
         stack[r] = << >>, UNCHANGED <<ran, stack, aborted>>
  PROVE  Abstract!Lose(r)
BY DEF Shifts, Phases, Lengths, Abstract!Lose, Abstract!Moves

LEMMA MapStutter ==
  ASSUME NEW r \in Requests, Shifts(r, Phase(r), Length(r)), UNCHANGED <<ran, stack, aborted>>
  PROVE  UNCHANGED Abstract!vars
BY NotShifted DEF Abstract!vars


\* What a step of r may be to its chain.
Maps(r) == Abstract!Step(r) \/ UNCHANGED Abstract!vars

LEMMA LengthType ==
  ASSUME IInv, NEW r \in Requests
  PROVE  Length(r) \in Nat
<1>1. InFlight(r) => C(r) \in Context
  BY NoneAssumption DEF IInv, TypeOK, InFlight, C
<1> QED
  BY <1>1 DEF Length, Context

\* A request under way, its stack and its place in the chain.
LEMMA Underway ==
  ASSUME EInv, NEW r \in Requests, pc[r] \notin {"idle", "done"}
  PROVE  /\ held[r] \in Contexts /\ C(r) \in Context
         /\ InFlight(r) /\ Own(r) /\ Frames(r) /\ (r \notin aborted => Started(r))
         /\ Length(r) = Len(C(r).handler)
         /\ ran \in [Requests -> Seq(Nat)] /\ stack \in [Requests -> Seq(Nat)]
         /\ pc \in [Requests -> PCs] /\ ctx \in [Contexts -> Context]
<1>1. held[r] \in Contexts /\ C(r) \in Context /\ InFlight(r)
  BY Holding, NoneAssumption DEF EInv, InFlight
<1>2. Own(r) /\ (~C(r).skip => Started(r)) /\ Frames(r)
  BY <1>1 DEF EInv, IInv, Inv, End
<1> QED
  BY <1>1, <1>2 DEF Own, Length, EInv, IInv, TypeOK

\* The chain of a step that moves the place in the code only.
LEMMA SameChain ==
  ASSUME EInv, NEW r \in Requests, pc[r] \notin {"idle", "done"}, UNCHANGED held,
         C(r)'.handler = C(r).handler
  PROVE  Length(r)' = Length(r)
<1>1. InFlight(r) /\ Length(r) = Len(C(r).handler)
  BY Underway
<1> QED
  BY <1>1 DEF Length, InFlight

LEMMA StepAlike ==
  ASSUME EInv, NEW r \in Requests, Step(r)
  PROVE  Alike(r)
BY StepAlone DEF EInv, Alike

\* The chain is known once the router has looked.
LEMMA DispatchMaps ==
  ASSUME EInv, EInv', NEW r \in Requests, Dispatch(r), Alike(r)
  PROVE  Maps(r)
<1>1. /\ pc[r] = "dispatch" /\ pc'[r] = "loop" /\ UNCHANGED <<ran, stack, aborted>>
  BY DEF Dispatch, Goto, EInv, IInv, TypeOK
<1>2. Length(r)' \in Nat
  <2>1. InFlight(r)' => C(r)' \in Context
    BY NoneAssumption DEF EInv, IInv, TypeOK, InFlight, C
  <2> QED
    BY <2>1 DEF Length, Context
<1>3. PICK n \in Nat : Length(r)' = n
  BY <1>2
<1>4. Phase(r) = "waiting" /\ Phase(r)' = "running"
  BY <1>1 DEF Phase
<1>5. Shifts(r, "running", n)
  BY <1>3, <1>4, Shifted
<1>6. \A s \in Requests : Length(s) \in Nat
  BY LengthType DEF EInv
<1> QED
  BY <1>1, <1>4, <1>5, <1>6, MapBegin DEF Maps, Abstract!Step

\* The loop starts the next handler, or ends.
LEMMA LoopMaps ==
  ASSUME EInv, NEW r \in Requests, LoopStart(r) \/ LoopExit(r), Alike(r)
  PROVE  Maps(r)
<1>1. pc[r] = "loop" /\ UNCHANGED <<ctx, held, aborted>>
  BY DEF LoopStart, LoopExit
<1>2. /\ Own(r) /\ C(r) \in Context /\ (r \notin aborted => Started(r))
      /\ ran \in [Requests -> Seq(Nat)] /\ pc \in [Requests -> PCs]
      /\ Length(r) = Len(C(r).handler)
  BY <1>1, Underway
<1>3. Length(r)' = Length(r)
  BY <1>1, SameChain DEF C
<1>4. pc'[r] \in {"enter", "tail", "resume"}
  BY <1>2 DEF LoopStart, LoopExit, Goto
<1>5. Phase(r) = "running" /\ Phase(r)' = "running"
  BY <1>1, <1>4 DEF Phase
<1>6. Shifts(r, "running", Length(r))
  BY <1>3, <1>5, Shifted
<1>7. CASE LoopStart(r)
  <2>1. /\ LoopGoesOn(C(r))
        /\ stack' = [stack EXCEPT ![r] = Append(@, C(r).index)]
        /\ ran' = [ran EXCEPT ![r] = Append(@, C(r).index)]
    BY <1>7 DEF LoopStart
  <2>2. r \notin aborted /\ C(r).index < Length(r) /\ Started(r)
    BY <1>2, <2>1 DEF Own, LoopGoesOn
  <2>3. C(r).index \in Nat /\ Len(C(r).handler) \in Nat
    BY <1>1, <1>2 DEF Own, Context
  <2>4. Len(ran[r]) = C(r).index
    BY <1>1, <1>2, <2>2, <2>3 DEF Started, Lesser
  <2>5. Len(ran[r]) # Length(r)
    BY <1>2, <2>2, <2>3, <2>4
  <2>6. /\ ran' = [ran EXCEPT ![r] = Append(@, Len(@))]
        /\ stack' = [stack EXCEPT ![r] = Append(@, Len(ran[r]))]
    BY <2>1, <2>4
  <2> QED
    BY <1>1, <1>5, <1>6, <2>2, <2>5, <2>6, MapStart DEF Maps, Abstract!Step
<1>8. CASE LoopExit(r)
  BY <1>1, <1>5, <1>6, <1>8, MapStutter DEF LoopExit, Maps
<1> QED
  BY <1>7, <1>8

\* A call leaves the handlers of the chain as they are.
LEMMA CallHandler ==
  ASSUME NEW r \in Requests, Call(r), ~CallNext(r), UNCHANGED held,
         ctx \in [Contexts -> Context], held[r] \in Contexts
  PROVE  C(r)'.handler = C(r).handler
<1>1. \/ ctx' = ctx
      \/ ctx' = [ctx EXCEPT ![held[r]].skip = TRUE]
      \/ ctx' = [ctx EXCEPT ![held[r]].errs = @ \cup {r}]
      \/ ctx' = [ctx EXCEPT ![held[r]].mp = @ \cup {r}]
  BY DEF Call, CallSetStatus, CallRender, CallRenderFails, CallRedirect,
     CallSkip, CallAbortWithStatus, CallAbortWithStatusAndMessage, CallError,
     CallSet, CallWrite, CallFlush, CallHijack, CallPanic, Skip
<1> QED
  BY <1>1 DEF C, Context

\* What a handler calls stops its chain, panics or is nothing to it.
LEMMA CallMaps ==
  ASSUME EInv, NEW r \in Requests, Call(r), ~CallNext(r), Alike(r)
  PROVE  Maps(r)
<1>1. PICK op : Calls(r, op)
  BY DEF Call, CallSetStatus, CallRender, CallRenderFails, CallRedirect,
     CallSkip, CallAbortWithStatus, CallAbortWithStatusAndMessage, CallError,
     CallSet, CallWrite, CallFlush, CallHijack, CallPanic
<1>2. pc[r] \in {"enter", "resume"} /\ UNCHANGED <<held, stack, ran>>
  BY <1>1 DEF Calls
<1>3. /\ held[r] \in Contexts /\ C(r) \in Context /\ stack[r] # << >>
      /\ pc \in [Requests -> PCs] /\ ctx \in [Contexts -> Context]
  BY <1>2, Underway DEF Frames
<1>4. pc'[r] \in {pc[r], "panic"}
  BY <1>2, <1>3 DEF Call, CallSetStatus, CallRender, CallRenderFails,
     CallRedirect, CallSkip, CallAbortWithStatus, CallAbortWithStatusAndMessage,
     CallError, CallSet, CallWrite, CallFlush, CallHijack, CallPanic, ReturnsIf, Goto
<1>5. C(r)'.handler = C(r).handler
  BY <1>2, <1>3, CallHandler
<1>6. aborted' \in {aborted, aborted \cup {r}}
  BY DEF Call, CallSetStatus, CallRender, CallRenderFails,
     CallRedirect, CallSkip, CallAbortWithStatus, CallAbortWithStatusAndMessage,
     CallError, CallSet, CallWrite, CallFlush, CallHijack, CallPanic, Skip
<1>7. Length(r)' = Length(r)
  BY <1>2, <1>5, SameChain
<1>8. Phase(r) = "running"
  BY <1>2 DEF Phase
<1>9. PICK p \in {"running", "panicking"} :
        Phase(r)' = p /\ (pc'[r] = pc[r] => p = "running") /\ (pc'[r] # pc[r] => p = "panicking")
  BY <1>2, <1>4 DEF Phase
<1>10. Shifts(r, p, Length(r))
  BY <1>7, <1>9, Shifted
<1>11. CASE aborted' = aborted \cup {r}
  BY <1>2, <1>3, <1>8, <1>10, <1>11, MapStop DEF Maps, Abstract!Step
<1>12. CASE aborted' = aborted /\ p = "panicking"
  BY <1>2, <1>3, <1>8, <1>10, <1>12, MapPanic DEF Maps, Abstract!Step
<1>13. CASE aborted' = aborted /\ p = "running"
  BY <1>2, <1>8, <1>10, <1>13, MapStutter DEF Maps
<1> QED
  BY <1>6, <1>9, <1>11, <1>12, <1>13

\* A handler that calls Next is still under way, one that is back is not.
LEMMA MovesMap ==
  ASSUME EInv, NEW r \in Requests, Alike(r),
         \/ CallNext(r) \/ UserReturns(r) \/ MiddlewareStart(r)
         \/ LoggerReturns(r) \/ RecoveryReturns(r)
  PROVE  Maps(r)
<1>1. pc[r] \in {"enter", "resume"} /\ Advance(r) /\ UNCHANGED <<held, ran, aborted>>
  BY DEF CallNext, Calls, UserReturns, MiddlewareStart, LoggerReturns,
     RecoveryReturns, Returns
<1>2. /\ held[r] \in Contexts /\ C(r) \in Context /\ stack[r] # << >>
      /\ pc \in [Requests -> PCs] /\ ctx \in [Contexts -> Context]
  BY <1>1, Underway DEF Frames
<1>3. C(r)'.handler = C(r).handler /\ pc'[r] = "loop"
  BY <1>1, <1>2 DEF Advance, Goto, C, Context
<1>4. Length(r)' = Length(r) /\ Phase(r) = "running" /\ Phase(r)' = "running"
  BY <1>1, <1>3, SameChain DEF Phase
<1>5. Shifts(r, "running", Length(r))
  BY <1>4, Shifted
<1>6. CASE CallNext(r) \/ MiddlewareStart(r)
  <2>1. UNCHANGED stack
    BY <1>6 DEF CallNext, Calls, MiddlewareStart
  <2> QED
    BY <1>1, <1>4, <1>5, <2>1, MapStutter DEF Maps
<1>7. CASE UserReturns(r) \/ LoggerReturns(r) \/ RecoveryReturns(r)
  <2>1. stack' = [stack EXCEPT ![r] = SubSeq(@, 1, Len(@) - 1)]
    BY <1>7 DEF UserReturns, LoggerReturns, RecoveryReturns, Returns
  <2> QED
    BY <1>1, <1>2, <1>4, <1>5, <2>1, MapReturn DEF Maps, Abstract!Step
<1> QED
  BY <1>6, <1>7


\* A panic takes a handler with it, is recovered, or is out of handlers.
LEMMA PanicMaps ==
  ASSUME EInv, NEW r \in Requests, Unwind(r) \/ Recover(r) \/ Crash(r), Alike(r)
  PROVE  Maps(r)
<1>1. pc[r] = "panic" /\ UNCHANGED <<held, ran>>
  BY DEF Unwind, Recover, Crash
<1>2. /\ held[r] \in Contexts /\ C(r) \in Context /\ Own(r)
      /\ pc \in [Requests -> PCs] /\ ctx \in [Contexts -> Context]
  BY <1>1, Underway
<1>3. Phase(r) = "panicking"
  BY <1>1 DEF Phase
<1>4. CASE Unwind(r) \/ Crash(r)
  <2>1. UNCHANGED <<ctx, aborted>>
    BY <1>4 DEF Unwind, Crash
  <2>2. Length(r)' = Length(r)
    BY <1>1, <2>1, SameChain DEF C
  <2>3. CASE Unwind(r)
    <3>1. /\ pc' = pc /\ stack[r] # << >>
          /\ stack' = [stack EXCEPT ![r] = SubSeq(@, 1, Len(@) - 1)]
      BY <2>3 DEF Unwind
    <3>2. Phase(r)' = "panicking"
      BY <1>1, <3>1 DEF Phase
    <3>3. Shifts(r, "panicking", Length(r))
      BY <2>2, <3>2, Shifted
    <3> QED
      BY <1>1, <1>3, <2>1, <3>1, <3>3, MapReturn DEF Maps, Abstract!Step
  <2>4. CASE Crash(r)
    <3>1. pc'[r] = "crashed" /\ stack[r] = << >> /\ stack' = stack
      BY <1>2, <2>4 DEF Crash, Goto
    <3>2. Phase(r)' = "lost"
      BY <3>1 DEF Phase
    <3>3. Shifts(r, "lost", Length(r))
      BY <2>2, <3>2, Shifted
    <3> QED
      BY <1>1, <1>3, <2>1, <3>1, <3>3, MapLose DEF Maps, Abstract!Step
  <2> QED
    BY <1>4, <2>3, <2>4
<1>5. CASE Recover(r)
  <2>1. /\ stack[r] # << >>
        /\ stack' = [stack EXCEPT ![r] = SubSeq(@, 1, Len(@) - 1)]
    BY <1>5 DEF Recover
  <2>2. C(r)'.handler = C(r).handler
    <3>1. CASE C(r).skip
      <4>1. ctx' = [ctx EXCEPT ![held[r]].index = nextIndex(C(r))]
        BY <1>5, <3>1 DEF Recover, Advance
      <4> QED
        BY <1>1, <1>2, <4>1 DEF C, Context
    <3>2. CASE ~C(r).skip
      <4>1. PICK i : ctx' = [ctx EXCEPT ![held[r]] =
                               [C(r) EXCEPT !.skip = TRUE, !.index = i]]
        <5> DEFINE ok == RenderOK(W(r), StatusInternalServerError)
                   j == IF ok THEN nextIndex(C(r)) ELSE C(r).index
        <5>1. ctx' = [ctx EXCEPT ![held[r]] = [C(r) EXCEPT !.skip = TRUE, !.index = j]]
          BY <1>5, <3>2 DEF Recover
        <5> HIDE DEF j
        <5> QED
          BY <5>1
      <4> QED
        BY <1>1, <1>2, <4>1 DEF C, Context
    <3> QED
      BY <3>1, <3>2
  <2>3. Length(r)' = Length(r)
    BY <1>1, <2>2, SameChain
  <2>4. aborted' = aborted \cup {r}
    <3>1. CASE C(r).skip
      <4>1. r \in aborted /\ aborted' = aborted
        BY <1>2, <1>5, <3>1 DEF Recover, Own
      <4> QED
        BY <4>1
    <3>2. CASE ~C(r).skip
      BY <1>5, <3>2 DEF Recover
    <3> QED
      BY <3>1, <3>2
  <2>5. pc'[r] \in {"loop", "panic"}
    BY <1>2, <1>5 DEF Recover, Advance, Goto
  <2>6. PICK p \in {"running", "panicking"} : Phase(r)' = p
    BY <2>5 DEF Phase
  <2>7. Shifts(r, p, Length(r))
    BY <2>3, <2>6, Shifted
  <2> QED
    BY <1>1, <1>3, <2>1, <2>4, <2>7, MapRecover DEF Maps, Abstract!Step
<1> QED
  BY <1>4, <1>5

\* The end of ServeHTTP adds no handler; the error page may panic.
LEMMA TailMaps ==
  ASSUME EInv, NEW r \in Requests, MatchedTail(r) \/ ErrorTail(r), Alike(r)
  PROVE  Maps(r)
<1>1. pc[r] = "tail" /\ UNCHANGED <<ctx, held, stack, ran, aborted>>
  BY DEF MatchedTail, ErrorTail
<1>2. /\ r \in aborted \/ Len(ran[r]) = Length(r)
      /\ pc \in [Requests -> PCs]
  BY <1>1, Underway DEF Started
<1>3. Length(r)' = Length(r)
  BY <1>1, SameChain DEF C
<1>4. pc'[r] \in {"put", "panic"}
  BY <1>2 DEF MatchedTail, ErrorTail, Goto
<1>5. Phase(r) = "running"
  BY <1>1 DEF Phase
<1>6. CASE pc'[r] = "put"
  <2>1. Phase(r)' = "running"
    BY <1>6 DEF Phase
  <2>2. Shifts(r, "running", Length(r))
    BY <1>3, <2>1, Shifted
  <2> QED
    BY <1>1, <1>5, <2>2, MapStutter DEF Maps
<1>7. CASE pc'[r] = "panic"
  <2>1. Phase(r)' = "panicking"
    BY <1>7 DEF Phase
  <2>2. Shifts(r, "panicking", Length(r))
    BY <1>3, <2>1, Shifted
  <2> QED
    BY <1>1, <1>2, <1>5, <2>2, MapPanic DEF Maps, Abstract!Step
<1> QED
  BY <1>4, <1>6, <1>7

\* The chain ends when the context goes back.
LEMMA PutMaps ==
  ASSUME EInv, NEW r \in Requests, Put(r), Alike(r)
  PROVE  Maps(r)
<1>1. pc[r] = "put" /\ UNCHANGED <<stack, ran, aborted>>
  BY DEF Put
<1>2. r \in aborted \/ Len(ran[r]) = Length(r)
  BY <1>1, Underway DEF Started
<1>3. stack[r] = << >>
  BY <1>1, Underway DEF Frames
<1>4. pc'[r] = "done" /\ held'[r] = None
  BY DEF Put, Goto, EInv, IInv, TypeOK
<1>5. Phase(r) = "running" /\ Phase(r)' = "ended" /\ Length(r)' = 0
  BY <1>1, <1>4 DEF Phase, Length, InFlight
<1>6. Shifts(r, "ended", 0)
  BY <1>5, Shifted
<1> QED
  BY <1>1, <1>2, <1>3, <1>5, <1>6, MapFinish DEF Maps, Abstract!Step

\* A request that arrives has no chain yet, only a context.
LEMMA BeginMaps ==
  ASSUME EInv, NEW r \in Requests, Begin(r)
  PROVE  UNCHANGED Abstract!vars
<1>1. PICK c \in pool \cup (Contexts \ InUse), h \in Hijackers :
        /\ ctx' = [ctx EXCEPT ![c] = reset(@, r)]
        /\ held' = [held EXCEPT ![r] = c]
  BY DEF Begin
<1>2. /\ pc[r] = "idle" /\ pc' = [pc EXCEPT ![r] = "dispatch"]
      /\ UNCHANGED <<stack, ran, aborted>>
  BY DEF Begin, Goto
<1>3. c \in Contexts /\ c # None /\ \A s \in Requests : held[s] # c
  BY FreeContext DEF EInv
<1>4. /\ pc \in [Requests -> PCs] /\ held \in [Requests -> Contexts \cup {None}]
      /\ ctx \in [Contexts -> Context]
  BY DEF EInv, IInv, TypeOK
<1>5. Alike(r)
  BY <1>1, <1>2, <1>3, <1>4 DEF Alike, InFlight
<1>6. Phase(r) = "waiting" /\ Phase(r)' = "waiting"
  BY <1>2, <1>4 DEF Phase
<1>7. Length(r) = 0
  BY <1>2 DEF EInv, IInv, Inv, Length, InFlight
<1>8. Length(r)' = 0
  <2>1. held'[r] = c /\ C(r)' = reset(ctx[c], r) /\ ctx[c] \in Context
    BY <1>1, <1>3, <1>4 DEF C
  <2>2. C(r)'.handler = << >>
    BY <2>1 DEF reset, Context
  <2> QED
    BY <2>2 DEF Length
<1>9. Shifts(r, "waiting", 0)
  BY <1>5, <1>6, <1>8, Shifted
<1> QED
  BY <1>2, <1>6, <1>7, <1>9, MapStutter

\* The collector takes contexts that no chain uses.
LEMMA PoolDropMaps ==
  ASSUME EInv, NEW c \in Contexts, PoolDrop(c)
  PROVE  UNCHANGED Abstract!vars
<1>1. /\ c \in pool /\ ctx' = [ctx EXCEPT ![c] = NewContext]
      /\ UNCHANGED <<pc, held, stack, ran, aborted>>
  BY DEF PoolDrop
<1>2. ASSUME NEW s \in Requests
      PROVE  Phase(s)' = Phase(s) /\ Length(s)' = Length(s)
  <2>1. InFlight(s) => C(s)' = C(s)
    BY <1>1, FreeContext DEF EInv, IInv, TypeOK, InFlight, C
  <2> QED
    BY <1>1, <2>1 DEF Phase, Length, InFlight
<1> QED
  BY <1>1, <1>2 DEF Abstract!vars, Phases, Lengths

LEMMA StutterMaps == UNCHANGED vars => UNCHANGED Abstract!vars
BY DEF vars, Abstract!vars, Phases, Lengths, Phase, Length, InFlight, C

\* No request has a chain at first.
LEMMA InitMaps == Init => Abstract!Init
<1> SUFFICES ASSUME Init PROVE Abstract!Init
  OBVIOUS
<1>1. \A r \in Requests : Phase(r) = "waiting" /\ Length(r) = 0
  BY DEF Init, Phase, Length, InFlight
<1> QED
  BY <1>1 DEF Init, Abstract!Init, Phases, Lengths

\* Every request gets the chain that module Chain promises, for any number of
\* requests and contexts, chains of any length and handlers that call whatever
\* they like: its handlers start in order and at most once and end last in
\* first out, a stop or a recovered panic lets no further one start, and only a
\* stop keeps one from starting.
\* (context.go:133-147, 253-255, 292-303; middleware.go:51-67)
THEOREM ServingImplementsChain == Spec => ImplementsChain
<1>1. EInv /\ EInv' /\ [Next]_vars
        => [\E r \in Requests : Abstract!Step(r)]_(Abstract!vars)
  <2>1. ASSUME EInv, EInv', NEW r \in Requests, Step(r)
        PROVE  Maps(r)
    <3>1. Alike(r)
      BY <2>1, StepAlike
    <3> QED
      BY <2>1, <3>1, DispatchMaps, LoopMaps, CallMaps, MovesMap, PanicMaps, TailMaps,
         PutMaps DEF Step
  <2>2. ASSUME EInv, NEW r \in Requests, Begin(r)
        PROVE  UNCHANGED Abstract!vars
    BY <2>2, BeginMaps
  <2>3. ASSUME EInv, NEW c \in Contexts, PoolDrop(c)
        PROVE  UNCHANGED Abstract!vars
    BY <2>3, PoolDropMaps
  <2>4. UNCHANGED vars => UNCHANGED Abstract!vars
    BY StutterMaps
  <2>5. ASSUME NEW r \in Requests, Breaks(r)
        PROVE  UNCHANGED Abstract!vars
    BY <2>5 DEF Breaks, Abstract!vars, Phases, Lengths, Phase, Length, InFlight, C
  <2> QED
    BY <2>1, <2>2, <2>3, <2>4, <2>5 DEF Next, Terminated, Maps
<1> QED
  BY <1>1, InitMaps, EndInvariant, PTL DEF Spec, ImplementsChain, Abstract!Spec
=============================================================================
