------------------------------ MODULE Serving ------------------------------
(***************************************************************************)
(* Requests being served: Router.ServeHTTP with its pool of contexts, the  *)
(* handler chain driven by _context.Next, the operations a handler may     *)
(* call, the Logger and Recovery middleware, and the end of a request      *)
(* (WriteHeaderNow on a matched route, serveError on the others).          *)
(*                                                                         *)
(* net/http runs every request in a goroutine of its own, so one action is *)
(* one step of one request.  What a handler does between two calls of the  *)
(* framework is its own; the model lets it make any enabled call of Ops,   *)
(* with any status of Codes, at most MaxOps times per request.             *)
(***************************************************************************)
EXTENDS ResponseWriter

CONSTANTS
  Requests,   \* the requests of a behaviour
  Contexts,   \* the *_context objects that may be allocated
  Chains,     \* the handler chains that the routes, 404 and 405 may have
  Codes,      \* the statuses that handlers pass to the framework
  Ops,        \* the operations that handlers use
  MaxOps,     \* bound: the operations of all handlers of one request
  Hijackers,  \* {TRUE}: HTTP/1 connections; {FALSE}: HTTP/2; or both
  Breakable,  \* the requests whose response may break off
  None        \* no context, no request

Kinds == {"user", "logger", "recovery"}

UserOps ==
  { "SetStatus", "Render", "RenderFails", "Redirect", "AbortWithStatus",
    "AbortWithStatusAndMessage", "Skip", "Error", "Set", "Write", "Flush",
    "Hijack", "Next", "Panic" }

ASSUME NoneAssumption   == None \notin Contexts /\ None \notin Requests
ASSUME ChainsAssumption == Chains \subseteq Seq(Kinds)
\* net/http panics on a status of other than three digits.
ASSUME CodesAssumption  == Codes \subseteq 100..999
ASSUME OpsAssumption    == Ops \subseteq UserOps /\ MaxOps \in Nat
ASSUME HijackersAssumption == Hijackers \subseteq BOOLEAN

VARIABLES
  pool,    \* the contexts waiting in Router.pool
  ctx,     \* the fields of every context
  pc,      \* where the goroutine of a request is
  held,    \* the context ServeHTTP works with
  stack,   \* the handlers under way, outermost first (the Go stack)
  route,   \* what the router found
  resp,    \* the response of every request
  fuel,    \* operations its handlers may still make
  ran,     \* history: the handlers started, by their place in the chain
  aborted, \* history: the requests whose chain was told to stop
  logged   \* history: the statuses the access log recorded

vars == <<pool, ctx, pc, held, stack, route, resp, fuel, ran, aborted, logged>>

-----------------------------------------------------------------------------
(* State.  errs, mp and params hold the requests whose data is in them.    *)

Context ==
  [ w: Requests \cup {None}, skip: BOOLEAN, handler: Seq(Kinds), index: Int,
    errs: SUBSET Requests, mp: SUBSET Requests, params: SUBSET Requests ]

NewContext ==
  [ w |-> None, skip |-> FALSE, handler |-> << >>, index |-> -1,
    errs |-> {}, mp |-> {}, params |-> {} ]

\* Slips of reset: an index of 0, forgotten errors.
resetToZero(c, r) ==
  [ c EXCEPT !.w = r, !.params = {}, !.skip = FALSE, !.handler = << >>,
             !.index = 0, !.mp = {}, !.errs = {} ]
resetKeepsErrs(c, r) ==
  [ c EXCEPT !.w = r, !.params = {}, !.skip = FALSE, !.handler = << >>,
             !.index = -1, !.mp = {} ]

reset(c, r) ==
  [ c EXCEPT !.w = r, !.params = {}, !.skip = FALSE, !.handler = << >>,
             !.index = -1, !.mp = {}, !.errs = {} ]

\*   idle     not arrived            dispatch  handleHTTPRequest
\*   loop     the head of Next       enter     a handler starts
\*   resume   its Next returned      panic     unwinding
\*   tail     the chain is over      put       back to ServeHTTP
\*   done     context given back     crashed   the panic left ServeHTTP
PCs == { "idle", "dispatch", "loop", "enter", "resume", "panic",
         "tail", "put", "done", "crashed" }

Routes == {"none", "match", "notFound", "noMethod"}

TypeOK ==
  /\ pool \subseteq Contexts
  /\ ctx \in [Contexts -> Context]
  /\ pc \in [Requests -> PCs]
  /\ held \in [Requests -> Contexts \cup {None}]
  /\ stack \in [Requests -> Seq(Nat)]
  /\ route \in [Requests -> Routes]
  /\ resp \in [Requests -> Response]
  /\ fuel \in [Requests -> 0..MaxOps]
  /\ ran \in [Requests -> Seq(Nat)]
  /\ aborted \subseteq Requests
  /\ logged \in [Requests -> Seq(Nat)]

Init ==
  /\ pool = {}
  /\ ctx = [c \in Contexts |-> NewContext]
  /\ pc = [r \in Requests |-> "idle"]
  /\ held = [r \in Requests |-> None]
  /\ stack = [r \in Requests |-> << >>]
  /\ route = [r \in Requests |-> "none"]
  /\ resp = [r \in Requests |-> wrapResponseWriter(TRUE)]
  /\ fuel = [r \in Requests |-> MaxOps]
  /\ ran = [r \in Requests |-> << >>]
  /\ aborted = {}
  /\ logged = [r \in Requests |-> << >>]

C(r) == ctx[held[r]]
\* The response that the framework writes for r is the one its context holds.
W(r) == resp[C(r).w]

Top(r)  == stack[r][Len(stack[r])]
Kind(r) == C(r).handler[Top(r) + 1]

Goto(r, l) == pc' = [pc EXCEPT ![r] = l]
Respond(r, w) == resp' = [resp EXCEPT ![C(r).w] = w]

-----------------------------------------------------------------------------
(* ServeHTTP and the pool.                                                 *)

InUse == {held[r] : r \in Requests}

\* A slip: the context goes back as soon as it is set up.
BeginAndPut(r) ==
  /\ pc[r] = "idle"
  /\ \E c \in pool \cup (Contexts \ InUse), h \in Hijackers :
       /\ pool' = pool \cup {c}
       /\ ctx' = [ctx EXCEPT ![c] = reset(@, r)]
       /\ held' = [held EXCEPT ![r] = c]
       /\ resp' = [resp EXCEPT ![r] = wrapResponseWriter(h)]
  /\ Goto(r, "dispatch")
  /\ UNCHANGED <<stack, route, fuel, ran, aborted, logged>>

\* sync.Pool.Get returns a pooled context or, from New, one nobody has.
Begin(r) ==
  /\ pc[r] = "idle"
  /\ \E c \in pool \cup (Contexts \ InUse), h \in Hijackers :
       /\ pool' = pool \ {c}
       /\ ctx' = [ctx EXCEPT ![c] = reset(@, r)]
       /\ held' = [held EXCEPT ![r] = c]
       /\ resp' = [resp EXCEPT ![r] = wrapResponseWriter(h)]
  /\ Goto(r, "dispatch")
  /\ UNCHANGED <<stack, route, fuel, ran, aborted, logged>>

\* A slip: the index stays where it is.
stuckIndex(c) == c.index

\* c.index++, on entry of Next and after every handler.
nextIndex(c) == c.index + 1

\* handleHTTPRequest: the chain of the matched route, else of 405 or 404.  A
\* matched route has at least the handler it was registered with.  The call of
\* Next steps the index once before its loop.
Dispatch(r) ==
  /\ pc[r] = "dispatch"
  /\ \E rt \in Routes \ {"none"}, h \in Chains :
       /\ rt = "match" => h # << >>
       /\ route' = [route EXCEPT ![r] = rt]
       /\ ctx' = [ctx EXCEPT ![held[r]] =
                    [C(r) EXCEPT !.handler = h, !.index = nextIndex(C(r)),
                                 !.params = IF rt = "match" THEN {r} ELSE @]]
  /\ Goto(r, "loop")
  /\ UNCHANGED <<pool, held, stack, resp, fuel, ran, aborted, logged>>

Put(r) ==
  /\ pc[r] = "put"
  /\ pool' = pool \cup {held[r]}
  /\ held' = [held EXCEPT ![r] = None]
  /\ Goto(r, "done")
  /\ UNCHANGED <<ctx, stack, route, resp, fuel, ran, aborted, logged>>

\* The garbage collector empties a sync.Pool at will.
PoolDrop(c) ==
  /\ c \in pool
  /\ pool' = pool \ {c}
  /\ ctx' = [ctx EXCEPT ![c] = NewContext]
  /\ UNCHANGED <<pc, held, stack, route, resp, fuel, ran, aborted, logged>>

-----------------------------------------------------------------------------
(* _context.Next: the loop, its calls and its return.                      *)

\* A slip: the last handler left out.
LoopStopsShort(c) == c.index < Len(c.handler) - 1 /\ ~c.skip

LoopGoesOn(c) == c.index < Len(c.handler) /\ ~c.skip

LoopStart(r) ==
  /\ pc[r] = "loop"
  /\ LoopGoesOn(C(r))
  /\ stack' = [stack EXCEPT ![r] = Append(@, C(r).index)]
  /\ ran' = [ran EXCEPT ![r] = Append(@, C(r).index)]
  /\ Goto(r, "enter")
  /\ UNCHANGED <<pool, ctx, held, route, resp, fuel, aborted, logged>>

\* A slip: no break on skip.
LoopExitAtEnd(r) ==
  /\ pc[r] = "loop"
  /\ C(r).index >= Len(C(r).handler)
  /\ Goto(r, IF stack[r] = << >> THEN "tail" ELSE "resume")
  /\ UNCHANGED <<pool, ctx, held, stack, route, resp, fuel, ran, aborted, logged>>

LoopExit(r) ==
  /\ pc[r] = "loop"
  /\ ~LoopGoesOn(C(r))
  /\ Goto(r, IF stack[r] = << >> THEN "tail" ELSE "resume")
  /\ UNCHANGED <<pool, ctx, held, stack, route, resp, fuel, ran, aborted, logged>>

\* A handler calls Next, or the loop steps past a handler that returned.
Advance(r) ==
  /\ ctx' = [ctx EXCEPT ![held[r]].index = nextIndex(C(r))]
  /\ Goto(r, "loop")

\* The handler on top of the stack has returned to the loop that called it.
Returns(r) ==
  /\ stack' = [stack EXCEPT ![r] = SubSeq(@, 1, Len(@) - 1)]
  /\ Advance(r)
  /\ UNCHANGED <<pool, held, route, fuel, ran, aborted>>

-----------------------------------------------------------------------------
(* What a handler of the application does, one call at a time.             *)

\* A handler of the application is running and makes the call op.
Calls(r, op) ==
  /\ pc[r] \in {"enter", "resume"}
  /\ Kind(r) = "user"
  /\ op \in Ops
  /\ fuel[r] > 0
  /\ fuel' = [fuel EXCEPT ![r] = @ - 1]
  /\ UNCHANGED <<pool, held, stack, route, ran, logged>>

\* The call returns, or it panics.
ReturnsIf(r, ok) == IF ok THEN UNCHANGED pc ELSE Goto(r, "panic")

CallSetStatus(r) ==
  /\ Calls(r, "SetStatus")
  /\ \E code \in Codes : Respond(r, WriteHeader(W(r), code))
  /\ UNCHANGED <<ctx, pc, aborted>>

\* JSON, String, YAML, Template and the others.
CallRender(r) ==
  /\ Calls(r, "Render")
  /\ \E code \in Codes :
       /\ Respond(r, Render(W(r), code, "app"))
       /\ ReturnsIf(r, RenderOK(W(r), code))
  /\ UNCHANGED <<ctx, aborted>>

\* The value cannot be encoded: an encoder has written nothing when it says
\* so, a template may have written its beginning.
CallRenderFails(r) ==
  /\ Calls(r, "RenderFails")
  /\ \E code \in Codes :
       /\ bodyAllowedForStatus(code)
       /\ \/ Respond(r, WriteHeader(W(r), code))
          \/ Respond(r, Render(W(r), code, "app"))
  /\ Goto(r, "panic")
  /\ UNCHANGED <<ctx, aborted>>

\* http.Redirect sends the header, and for GET a short body whose error it
\* ignores; render.Redirect panics on a status that is not a redirect.
CallRedirect(r) ==
  /\ Calls(r, "Redirect")
  /\ \E code \in Codes :
       IF code \in (300..308) \cup {StatusCreated}
       THEN /\ UNCHANGED pc
            /\ \/ Respond(r, WriteHeader(W(r), code))
               \/ Respond(r, Write(WriteHeader(W(r), code), "app"))
       ELSE /\ Goto(r, "panic")
            /\ UNCHANGED resp
  /\ UNCHANGED <<ctx, aborted>>

Skip(r) ==
  /\ ctx' = [ctx EXCEPT ![held[r]].skip = TRUE]
  /\ aborted' = aborted \cup {r}

CallSkip(r) ==
  /\ Calls(r, "Skip")
  /\ Skip(r)
  /\ UNCHANGED <<pc, resp>>

CallAbortWithStatus(r) ==
  /\ Calls(r, "AbortWithStatus")
  /\ IF C(r).skip
     THEN UNCHANGED <<ctx, resp, aborted>>
     ELSE /\ Skip(r)
          /\ \E code \in Codes : Respond(r, WriteHeader(W(r), code))
  /\ UNCHANGED pc

\* AbortWithStatusAndErrorMessage differs only in what the body says.
CallAbortWithStatusAndMessage(r) ==
  /\ Calls(r, "AbortWithStatusAndMessage")
  /\ IF C(r).skip
     THEN UNCHANGED <<ctx, pc, resp, aborted>>
     ELSE /\ Skip(r)
          /\ \E code \in Codes :
               /\ Respond(r, Render(W(r), code, "app"))
               /\ ReturnsIf(r, RenderOK(W(r), code))

CallError(r) ==
  /\ Calls(r, "Error")
  /\ ctx' = [ctx EXCEPT ![held[r]].errs = @ \cup {r}]
  /\ UNCHANGED <<pc, resp, aborted>>

CallSet(r) ==
  /\ Calls(r, "Set")
  /\ ctx' = [ctx EXCEPT ![held[r]].mp = @ \cup {r}]
  /\ UNCHANGED <<pc, resp, aborted>>

CallWrite(r) ==
  /\ Calls(r, "Write")
  /\ Respond(r, Write(W(r), "app"))
  /\ UNCHANGED <<ctx, pc, aborted>>

CallFlush(r) ==
  /\ Calls(r, "Flush")
  /\ Respond(r, Flush(W(r)))
  /\ UNCHANGED <<ctx, pc, aborted>>

\* The type assertion to http.Hijacker panics where there is none.
CallHijack(r) ==
  /\ Calls(r, "Hijack")
  /\ Respond(r, Hijack(W(r)))
  /\ ReturnsIf(r, W(r).hijackable)
  /\ UNCHANGED <<ctx, aborted>>

CallNext(r) ==
  /\ Calls(r, "Next")
  /\ Advance(r)
  /\ UNCHANGED <<resp, aborted>>

CallPanic(r) ==
  /\ Calls(r, "Panic")
  /\ Goto(r, "panic")
  /\ UNCHANGED <<ctx, resp, aborted>>

UserReturns(r) ==
  /\ pc[r] \in {"enter", "resume"}
  /\ Kind(r) = "user"
  /\ Returns(r)
  /\ UNCHANGED <<resp, logged>>

-----------------------------------------------------------------------------
(* Logger and Recovery.                                                    *)

\* Both call Next first.
MiddlewareStart(r) ==
  /\ pc[r] = "enter"
  /\ Kind(r) \in {"logger", "recovery"}
  /\ Advance(r)
  /\ UNCHANGED <<pool, held, stack, route, resp, fuel, ran, aborted, logged>>

\* A slip: a chain told to stop is not logged.
LoggerReturnsOnSkip(r) ==
  /\ pc[r] = "resume"
  /\ Kind(r) = "logger"
  /\ logged' = IF C(r).skip THEN logged
               ELSE [logged EXCEPT ![r] = Append(@, W(r).status)]
  /\ Returns(r)
  /\ UNCHANGED resp

\* The record is written after Next: ${status} is Status() at that moment.
LoggerReturns(r) ==
  /\ pc[r] = "resume"
  /\ Kind(r) = "logger"
  /\ logged' = [logged EXCEPT ![r] = Append(@, W(r).status)]
  /\ Returns(r)
  /\ UNCHANGED resp

RecoveryReturns(r) ==
  /\ pc[r] = "resume"
  /\ Kind(r) = "recovery"
  /\ Returns(r)
  /\ UNCHANGED <<resp, logged>>

\* A slip: recover() where it has no effect, in a function the deferred one calls.
UnwindAll(r) ==
  /\ pc[r] = "panic"
  /\ stack[r] # << >>
  /\ stack' = [stack EXCEPT ![r] = SubSeq(@, 1, Len(@) - 1)]
  /\ UNCHANGED <<pool, ctx, pc, held, route, resp, fuel, ran, aborted, logged>>

\* A panic leaves every frame but Recovery's.
Unwind(r) ==
  /\ pc[r] = "panic"
  /\ stack[r] # << >>
  /\ Kind(r) # "recovery"
  /\ stack' = [stack EXCEPT ![r] = SubSeq(@, 1, Len(@) - 1)]
  /\ UNCHANGED <<pool, ctx, pc, held, route, resp, fuel, ran, aborted, logged>>

\* Recovery's deferred call: AbortWithStatusAndMessage(500), which does
\* nothing for a chain already told to stop, and may panic itself.
Recover(r) ==
  /\ pc[r] = "panic"
  /\ stack[r] # << >>
  /\ Kind(r) = "recovery"
  /\ stack' = [stack EXCEPT ![r] = SubSeq(@, 1, Len(@) - 1)]
  /\ IF C(r).skip
     THEN Advance(r) /\ UNCHANGED <<resp, aborted>>
     ELSE LET ok == RenderOK(W(r), StatusInternalServerError)
          IN  /\ Respond(r, Render(W(r), StatusInternalServerError, "recovery"))
              /\ ctx' = [ctx EXCEPT ![held[r]] =
                           [C(r) EXCEPT !.skip = TRUE,
                                        !.index = IF ok THEN nextIndex(C(r)) ELSE @]]
              /\ aborted' = aborted \cup {r}
              /\ Goto(r, IF ok THEN "loop" ELSE "panic")
  /\ UNCHANGED <<pool, held, route, fuel, ran, logged>>

\* ServeHTTP has no defer: its context is never given back.
Crash(r) ==
  /\ pc[r] = "panic"
  /\ stack[r] = << >>
  /\ Goto(r, "crashed")
  /\ UNCHANGED <<pool, ctx, held, stack, route, resp, fuel, ran, aborted, logged>>

-----------------------------------------------------------------------------
(* The end of a request.                                                   *)

\* Meanwhile: the client goes away, or a handler that declared a Content-Length
\* has used it up.
Breaks(r) ==
  /\ r \in Breakable /\ held[r] # None
  /\ ~resp[r].hijacked /\ ~resp[r].broken
  /\ resp' = [resp EXCEPT ![r] = Break(@)]
  /\ UNCHANGED <<pool, ctx, pc, held, stack, route, fuel, ran, aborted, logged>>

MatchedTail(r) ==
  /\ pc[r] = "tail"
  /\ route[r] = "match"
  /\ Respond(r, WriteHeaderNow(W(r)))
  /\ Goto(r, "put")
  /\ UNCHANGED <<pool, ctx, held, stack, route, fuel, ran, aborted, logged>>

errorCode(rt) ==
  IF rt = "notFound" THEN StatusNotFound ELSE StatusMethodNotAllowed

\* A slip: the page without a look at Written.
serveErrorAnyway(w, code) ==
  LET v == IF w.status = StatusOK THEN WriteHeader(w, code) ELSE w
  IN  IF v.status = code THEN Render(v, code, "page") ELSE WriteHeaderNow(v)

\* serveError after its Next: a chain that left the status at 200 is given the
\* error's, and the page unless a body or a bare header was written.
serveError(w, code) ==
  LET v == IF w.status = StatusOK THEN WriteHeader(w, code) ELSE w
  IN  IF Written(v) THEN v
      ELSE IF v.status = code THEN Render(v, code, "page")
      ELSE WriteHeaderNow(v)

serveErrorPanics(w, code) ==
  LET v == IF w.status = StatusOK THEN WriteHeader(w, code) ELSE w
  IN  ~Written(v) /\ v.status = code /\ ~RenderOK(v, code)

ErrorTail(r) ==
  /\ pc[r] = "tail"
  /\ route[r] \in {"notFound", "noMethod"}
  /\ LET code == errorCode(route[r])
     IN  /\ Respond(r, serveError(W(r), code))
         /\ Goto(r, IF serveErrorPanics(W(r), code) THEN "panic" ELSE "put")
  /\ UNCHANGED <<pool, ctx, held, stack, route, fuel, ran, aborted, logged>>

-----------------------------------------------------------------------------
(* The specification.                                                      *)

Call(r) ==
  \/ CallSetStatus(r) \/ CallRender(r) \/ CallRenderFails(r) \/ CallRedirect(r)
  \/ CallSkip(r) \/ CallAbortWithStatus(r) \/ CallAbortWithStatusAndMessage(r)
  \/ CallError(r) \/ CallSet(r) \/ CallWrite(r) \/ CallFlush(r) \/ CallHijack(r)
  \/ CallNext(r) \/ CallPanic(r)

\* Every step of a request that has arrived.
Step(r) ==
  \/ Dispatch(r) \/ Put(r)
  \/ LoopStart(r) \/ LoopExit(r)
  \/ Call(r) \/ UserReturns(r)
  \/ MiddlewareStart(r) \/ LoggerReturns(r) \/ RecoveryReturns(r)
  \/ Unwind(r) \/ Recover(r) \/ Crash(r)
  \/ MatchedTail(r) \/ ErrorTail(r)

Terminated ==
  /\ \A r \in Requests : pc[r] \in {"done", "crashed"}
  /\ UNCHANGED vars

Next ==
  \/ \E r \in Requests : Begin(r) \/ Step(r) \/ Breaks(r)
  \/ \E c \in Contexts : PoolDrop(c)
  \/ Terminated

Spec == Init /\ [][Next]_vars

\* The Go scheduler runs every goroutine that can run; requests need not come.
Fairness == \A r \in Requests : WF_vars(Step(r))

FairSpec == Spec /\ Fairness

-----------------------------------------------------------------------------
(* Properties.                                                             *)

InFlight(r) == held[r] # None

\* A recycled context serves one request at a time: no two requests that have
\* not ended work with the same *_context, and none of those waits in the pool
\* (router.go ServeHTTP takes a context and gives it back by hand).
ContextExclusive ==
  \A r \in Requests : InFlight(r) =>
    /\ held[r] \notin pool
    /\ \A s \in Requests : held[s] = held[r] => s = r

\* Nothing of an earlier request is in a recycled context: it answers on its own
\* response, and the errors, the values, the URL parameters and the order to
\* stop that handlers see are this request's (context.go reset).
Isolation ==
  \A r \in Requests : InFlight(r) =>
    /\ C(r).w = r
    /\ C(r).errs \cup C(r).mp \cup C(r).params \subseteq {r}
    /\ C(r).skip => r \in aborted

\* The chain of every request as module Chain sees it.
Phase(r) == CASE pc[r] \in {"idle", "dispatch"} -> "waiting"
              [] pc[r] = "panic"                -> "panicking"
              [] pc[r] = "done"                 -> "ended"
              [] pc[r] = "crashed"              -> "lost"
              [] OTHER                          -> "running"

Length(r) == IF InFlight(r) THEN Len(C(r).handler) ELSE 0

Phases  == [r \in Requests |-> Phase(r)]
Lengths == [r \in Requests |-> Length(r)]

Abstract == INSTANCE Chain WITH phase <- Phases, length <- Lengths,
                                started <- ran, under <- stack, stopped <- aborted

\* Whatever its handlers do, and though all their loops share one index and one
\* flag in a context that is used again, every request gets the chain it was
\* promised: in order, each handler at most once and the last in the first
\* out, nothing after a stop, everything without one, and after a panic what
\* Recovery leaves (context.go:133-147, 253-255, 292-303; middleware.go:51-67).
ImplementsChain == Abstract!Spec

\* The handlers of a chain start in the order they were registered and none
\* starts twice, however often and however deep they call Next, although Next
\* steps the index both on entry and after each handler (context.go Next).
InOrder ==
  \A r \in Requests : \A k \in 1..Len(ran[r]) : ran[r][k] = k - 1

\* A chain that nobody stopped has run to its last handler when the request
\* ends, also when handlers return without calling Next (context.go Next).
RunAll ==
  \A r \in Requests :
    pc[r] \in {"tail", "put"} /\ r \notin aborted
      => Len(ran[r]) = Len(C(r).handler)

\* After Skip, an Abort or a recovered panic no further handler starts, in
\* whichever of the nested loops the request is (context.go Next, Skip).
NoStartAfterAbort ==
  [][\A r \in aborted : ran'[r] = ran[r]]_vars

\* Status(), which the access log and serveError go by, is the status net/http
\* sends, as long as it was not asked for a second header
\* (response_writer.go WriteHeader and WriteHeaderNow).
StatusMatchesWire ==
  \A r \in Requests : ~resp[r].overridden => resp[r].status = SentStatus(resp[r])

\* Size() counts what net/http accepted, and a response that took body is
\* Written: no later status can be reported for it (response_writer.go Write).
SizeIsBody ==
  \A r \in Requests :
    Len(resp[r].body) = IF Written(resp[r]) THEN resp[r].size ELSE 0

\* The built-in error page is only ever the whole body of an unmatched request,
\* under that error's status unless a handler had sent a header of its own
\* (router.go serveError).
ErrorPageAlone ==
  \A r \in Requests : \A k \in 1..Len(resp[r].body) :
    resp[r].body[k] = "page" =>
      /\ resp[r].body = <<"page">>
      /\ route[r] # "match"
      /\ ~resp[r].overridden => resp[r].wire = errorCode(route[r])

LoggerInFront(h) ==
  h # << >> /\ h[1] = "logger" /\ \A k \in 2..Len(h) : h[k] # "logger"

\* A Logger in front of a chain that has no other records every request that
\* ends, once, and on a matched route what it records is the status of the
\* response (logger_middleware.go, the code after Next).
LoggedOnce ==
  \A r \in Requests :
    pc[r] = "put" /\ LoggerInFront(C(r).handler) =>
      /\ Len(logged[r]) = 1
      /\ route[r] = "match" => logged[r][1] = resp[r].status

\* With Recovery in front of the chain a panic leaves ServeHTTP only when net/http
\* takes no body any more, so that the answer itself panics: after a hijack, under
\* a status without a body, past the declared Content-Length or with the client
\* gone (middleware.go Recovery, router.go serveError, context.go Render).
RecoveryContains ==
  \A r \in Requests :
    pc[r] = "crashed" /\ C(r).handler # << >> /\ C(r).handler[1] = "recovery"
      => ~AcceptsBody(resp[r])

\* Every request that arrives ends: the nested loops of Next and the unwinding
\* of panics come to an end when the handlers' own code does.
Termination ==
  \A r \in Requests : pc[r] = "dispatch" ~> pc[r] \in {"done", "crashed"}

-----------------------------------------------------------------------------
(* What the repository says of itself and the code does not keep.          *)

\* logger_middleware.go:16-17 logs status:${status}, the status of the response.
\* On an unmatched route it is read before serveError sets it.
LoggedStatusIsSent ==
  \A r \in Requests : \A k \in 1..Len(logged[r]) :
    pc[r] = "put" => logged[r][k] = SentStatus(resp[r])

\* response_writer.go:45 warns that headers already written are not overridden.
\* The guard is Written(), which only the body sets.
HeaderOverrideRefused ==
  [][\A r \in Requests :
       pc[r] # "idle" /\ resp[r].wire # 0 => resp'[r].status = resp[r].status]_vars
=============================================================================
