# A TLA+ verification of go-fwncs

go-fwncs is a small HTTP framework for Go: a router with middleware, a pooled
request context, a reverse proxy with load balancers, sessions in Redis, and
helpers around them. This directory holds TLA+ modules translated from its
source (`src/`), TLC configurations that check them on small instances, and
proofs for TLAPS.

1. [The system](#1-the-system) - components, state, interactions, what is hard
2. [The modules](#2-the-modules) - how state and actions correspond to the code
3. [The runs](#3-the-runs) - what each checks, its bounds, what it shows
4. [Fairness](#4-fairness)
5. [The proofs](#5-the-proofs)
6. [Findings](#6-findings)
7. [What is left out](#7-what-is-left-out)
8. [Plan](#8-plan)

Run a check with `tlc -config Request.cfg MCServing` (the pairs of module and
configuration are in the table of section 3) and the proofs with
`tlapm ServingProofs.tla` (and the other modules whose name ends in `Proofs`, and `Induction`).

## 1. The system

net/http runs a goroutine per request and calls `Router.ServeHTTP`. That takes a
`*_context` from a `sync.Pool`, resets it, finds the route, and drives the
chain of handlers through `_context.Next`. Handlers answer through the
context, which writes to a `responseWriter` around net/http's. When the chain is
over the router completes the response and gives the context back.

| Component | State | Operations | Interacts with |
|---|---|---|---|
| Request processing (`router.go`, `context.go`) | pool of contexts; per context: writer, `skip`, `handler`, `index`, `mp`, `errs`, params | `ServeHTTP`, `handleHTTPRequest`, `Next`, `Skip`, `Abort*`, `Error`, `Set`, `Render` and its forms, `serveError` | every handler; shared by all requests through the pool |
| Response writer (`response_writer.go`) | `status`, `size`, net/http's response | `WriteHeader`, `WriteHeaderNow`, `Write`, `WriteString`, `Flush`, `Hijack` | called by context, renderers, proxy; calls net/http |
| Access log, recovery (`logger_middleware.go`, `middleware.go`) | none | code around `c.Next()`; a deferred `recover` | the chain they are part of |
| Renderers (`render/`) | none | write, or fail before or after the first byte | response writer |
| Registration (`router.go`) | `use`, `notFound`, `noMethod` and the chains built from them; `routes`, `pathHandlers`, `trees`, shared with groups | `Use`, `Group`, `Handler`, `NotFound`, `NoMethod`, `Any` | slices that may share arrays |
| Matching (`tree.go`) | three lists of locations per method | `locationRegex`, `Match`, `matchURL` | reads what registration wrote |
| Load balancers (`proxy.go`, `utils.go`) | list of targets, RWMutex, counter or random source | `Add`, `Remove`, `Next` | called by every proxied request and by the application |
| Reverse proxy, tunnel (`proxy.go`, `rewrite.go`) | two connections, two goroutines, a channel and a shared `err` per tunnel | `ProxyWithConfig`, `proxyHTTP`, `proxyRaw` | balancer, context, response writer |
| Sessions, Redis store (`sessions/`) | per request and name a session that is opened at its first use; the store's options; entries in Redis; cookies | `Get`, `Set`, `Delete`, `Clear`, `AddFlash`, `Flashes`, `Options`, `Save`; `New`, `load`, `save`, `delete`, a Redis client for each | concurrent requests of one client through the store |
| Life cycle (`router.go`, `port.go`) | listener, server, signal channel, socket file | `Run`, `RunTLS`, `RunUnix`, `run` | requests under way at shutdown |
| Cache (`cache.go`) | map of items with an expiry | `Get`, `Put`, one sweep | its own goroutine |
| Outgoing requests (`http_client.go`, `middleware.go`) | `http.DefaultClient`, which is global | `HttpClient`, request identity | concurrent requests |
| Auth, permission (`auth.go`, `permission.go`) | the map of permissions of a route | decisions that stop the chain | chain, response writer, proxy behind them |
| Static files, path cleaning, logger, binding, helpers | none | | |

What is hard here, and what makes each part correct:

* **The chain.** One `index` drives loops of `Next` that nest as deep as handlers
  call it, and `skip` is looked at only at the head of a loop. Correct: handlers
  start in order and once, all of them unless someone stopped the chain, none
  after that.
* **Recycling.** Requests, also concurrent ones, share contexts by hand, and a
  panic that escapes leaks one. Correct: a context serves one request at a time
  and carries nothing over.
* **Two ideas of "written".** The wrapper goes by the size of the body, net/http
  by the header. Correct: `Status()` is what the client reads, `Size()` is what
  was sent, the error page never follows another body.
* **Panics.** Renderers, a hijack and handlers panic at any depth, and the answer
  that `Recovery` gives may panic again.
* **Shared slices.** Middleware lists grow by `append`, groups start from their
  parent's. Correct: a route keeps the chain it was registered with.
* **The order of routes.** Which of several matching routes is taken depends on
  kinds, order, parameters and lengths.
* **A scan outside the lock.** `Add` looks for a name before it locks; `Next`
  changes its counter under a read lock. Correct: to its callers the list is a
  registry whose calls take effect at once, and no path keeps the lock.
* **Checks that go on after an abort.** `Auth` and `Permission` abort and run on, to an
  `IsSkip` at their end; headers set by then are late. Correct: what is not granted
  is never forwarded and always answered.
* **A tunnel.** Two goroutines and the handler share `err` and a channel from which
  one of two results is taken; the connection is no longer net/http's. Correct: both
  connections are closed, the goroutines end, nobody answers into the tunnel.
* **A session is a copy.** It is loaded whole, changed, stored whole, and its cookie
  follows; each step may fail, the head may be gone by then, entries expire. Correct:
  what a client saved is what its next request finds, and no two clients share an entry.
* **Shared addresses.** A port is found, freed and taken; a socket file outlives its
  process and is removed by name. Correct: a server that serves can be reached, and a
  shutdown that reports no error cut nobody.

`PROJECT.json` lists these hazards one by one with their lines and properties; those without
a property say why.

## 2. The modules

| Module | Code | Role |
|---|---|---|
| `ResponseWriter` | `response_writer.go`, `Render` of `context.go` | operators on one response; no state of its own |
| `Chain` | `context.go` (`Next`, `Skip`), `middleware.go` (`Recovery`) | abstract specification: the handlers of a request as a queue |
| `Serving` | `router.go` (serving), `context.go`, `logger_middleware.go`, `middleware.go` | state machine of requests; EXTENDS `ResponseWriter`, implements `Chain` |
| `ResponseWriterProofs`, `ServingProofs` | | lemmas about responses, theorems about `Serving`; its refinement of `Chain`, step by step |
| `Gate` | `auth.go`, `permission.go` | operators: the verdicts of the two middleware |
| `Gateway` | `proxy.go` (proxying), `rewrite.go`, and `Gate` in its chain | state machine of one request after the other; EXTENDS `ResponseWriter`, `Gate` |
| `GatewayProofs` | | theorems about `Gateway` |
| `Sessions` | `sessions/` | state machine of requests, their sessions, the store and the cookie jars |
| `SessionsProofs` | | theorems about `Sessions` |
| `Lifecycle` | `router.go` (running), `port.go` | state machine of processes that share addresses |
| `LifecycleProofs` | | theorems about `Lifecycle` |
| `Locations` | `tree.go` | operators that match a URL against paths |
| `Routes` | `router.go` (registration) | state machine of registration; EXTENDS `Locations` |
| `RoutesProofs` | | theorems about `Routes` |
| `Registry` | `proxy.go` (`ProxyBalancer`) | abstract specification: a bag of targets with atomic calls |
| `Balancer` | `proxy.go`, `utils.go` | state machine of the balancers; implements `Registry` |
| `BalancerProofs` | | theorems about `Balancer`; its refinement of `Registry`, step by step |
| `Induction` | | induction for the proofs about loops |
| `MCServing`, `MCRoutes`, `MCBalancer`, `MCGateway`, `MCSessions` | | values of the constants for TLC |

Definitions have the names of the code. A definition under the comment
"A slip" is a plausible mistake in the definition that follows it; no
specification uses it, it is there to show that the properties notice.

### ResponseWriter

A response is a record: the wrapper's `status` and `size`, and of net/http's
writer the committed status `wire` (0 while the header is open), the accepted
`body`, whether the connection was `hijacked` or is `hijackable` at all, whether it takes no
more body (`broken`: the client is gone, or a declared Content-Length is used up), and
whether a second header was asked for (`overridden`). `AcceptsBody` is all that makes
net/http refuse a write; `Render` then panics, as it does when an encoder fails. A chunk of body counts as
one byte and keeps only its author: the application, `Recovery` or the built-in
error page.

### Serving

One action is one step of one request, so that requests interleave at every call
of the framework.

| Action | Code |
|---|---|
| `Begin` | `pool.Get`, `reset` |
| `Dispatch` | `handleHTTPRequest` up to `c.Next()`: route, 405 or 404, any chain of `Chains` |
| `LoopStart`, `LoopExit` | a turn of the loop of `Next`, the end of the loop |
| `Call...` | a handler's call of one operation of the framework |
| `UserReturns`, `MiddlewareStart`, `LoggerReturns`, `RecoveryReturns` | a handler returns to its loop, calls `Next` first |
| `Unwind`, `Recover`, `Crash` | a panic leaves a frame, meets `Recovery`, leaves `ServeHTTP` |
| `MatchedTail`, `ErrorTail` | `WriteHeaderNow` on a matched route, `serveError` on the others |
| `Put`, `PoolDrop` | `pool.Put`; the garbage collector empties a `sync.Pool` |
| `Breaks` | at any moment: the client goes, or the Content-Length that a handler declared is used up |

`stack` is the Go stack as far as handlers are concerned: the places in the chain
of the handlers that have not returned. `pool`, `ctx`, `held` are the pool, the
fields of every context and the context of every request. `ran`, `aborted`,
`logged` record the past and guard nothing. What a handler does by itself is open: it makes any
enabled call of `Ops` with any status of `Codes`, at most `MaxOps` times for all
handlers of a request. `errs`, `mp` and `params` keep whose data is in them, not
the data.

`Chain` is what the author of a handler may rely on, without an index, a flag or a loop: a
request has a chain of some length, of which the next handler is started as long as nobody
stopped it; the handlers under way are left in the reverse order; a panic leaves them one
by one until one recovers, which stops the chain as well; a request ends only when every handler
was started or the chain was stopped. In `ImplementsChain` the abstract `started`, `under` and
`stopped` are `ran`, `stack` and `aborted`, the phase is where the request is, and the length that of
`handler` in the context it holds (0 without one).

### Routes and Locations

`heap` holds backing arrays, a slice is an array and a length, and `appendTo` is
Go's `append`: in place when there is room, otherwise into an array that is twice
as long. `mergeHandlers` copies. The handlers of a call are numbered afresh, so
that a handler written into a foreign chain is seen. `table` is `pathHandlers`;
`trees` is computed from it. A group shares the table.

A URL is the sequence of the segments between its slashes (a trailing slash is a
last segment `""`); a path has parameters in it and a flag for `= `, `~ ` or
neither. A path becomes an expression that ends in `$` and is *not* anchored at
the start, so it matches a tail of the URL; a parameter is `(.*?)` and may
stretch over several segments. `Match` is the code's loop (`Bests`, one `Better` for each turn), with its own comparisons.

### Balancer

`arrays` and `target` are the backing arrays and the header of the list. `Add`
is a scan cell by cell over the header it read at its start (`CallAdd`, `Scan`,
`Refuse`, `ScanPanics`, `ScanEnds`), then `Lock`, then the append in the two
stores that the compiler makes of it (`Grow` stores the header, `Write` the cell). `Remove`
shifts the array in place under the lock. The RWMutex has readers, blocked
readers and a writer that first drains the readers: `Lock` claims it, `Entered`
is true when it is drained, `Unlock` admits the blocked readers. `Next` of round robin
is four steps, `LoadI`, `StoreI`, `ReadI` and `AdvanceI`, since other readers run the same code. The
second read of the counter, as the index, finds what another has made of it by then, or the value just
stored if the compiler keeps that; when another's increment has made it the length of the list,
the index panics (`IndexPanics`). Random and weighted choose in one step, except that concurrent calls of a `rand.Rand` may
fail (`IntnRaced`).

`Registry` is what callers may rely on: a bag of targets, and each call of `Add`, `Remove`
and `Next` takes effect in one step between its call and its return. `ImplementsRegistry`
is the refinement: the bag is the list, except that a name counts from the moment its
cell is written; a call is done when its target was counted, removed or chosen.
The abstract `Add` may refuse any name, since the look-up is outside the lock
(`Decides` says when it may). The abstract `Next` fails only on an empty bag, or, unless it is
`reliable`, when it has met another `Next`: round robin shares its counter there, and random its
`rand.Rand`. `raced` are the calls that have; a `Next` is added to it only in a step in which another is
under way (`Meetings`), so that an implementation cannot blame a race that did not happen. The
weighted balancer is reliable.

### Gate and Gateway

A token is what is wrong with it (`Credentials`), a scope is a member of a small set.
`Authenticate` is the whole of Auth's handler as a verdict: pass with or without a token,
or a refusal with its challenge, set before the status or (`late`) after it.

`Gateway` follows one request after the other through a chain of Recovery, Auth, Permission
and Proxy. The chain's loop is that of `Serving`, reduced to the handlers left (`left`)
since these four call `Next` last, if at all.

| Action | Code |
|---|---|
| `Setup` | `Auth(opt)`: the discovery, or a panic while the route is registered |
| `AuthPasses`, `AuthRefuses`, `Permission`, `PermissionPanics` | the handlers of `auth.go`, `permission.go`; without a token the nil token is dereferenced |
| `Forward`, `NextPanics`, `RewriteFails` | `ProxyWithConfig` up to its `switch` |
| `ErrorHandler`, `Answer`, `CopyBody`, `BodyBreaks` | `proxyHTTP` and `httputil.ReverseProxy` |
| `HijackConn`, `Dial`, `WriteRequest`, `RawFails` | `proxyRaw` up to its goroutines |
| `CopyReturns`, `Send` | a goroutine: `io.Copy` stores the shared `err`; `errCh <- err` |
| `Receive`, `Check` | `err = <-errCh`; the look at `err`, with the store of the other goroutine between |
| `Proxied` | `"_error"` is answered or not, `c.Skip()` |
| `Recover`, `ChainOver`, `Finish`, `Arrive`, `Reset` | what `Serving` models in detail |
| `Breaks` | at any moment of a request: the client goes |

`header` is `WWW-Authenticate` in the header map, `challenge` what the client got of it.
`reached` and `failed` record the past: that the proxy's handler has started, and why its request
could not be forwarded (`Failures`), also where the code takes no notice of it.

### Sessions

A handler is a list of session calls; those of the store's own tests are definitions of the
module. `redis`, `jar` and `cookie` are the store, the browsers' cookies and the response's.
A request that needs Redis goes through `dial` (a client is made and its `Ping` sent) and then
`load`, `save` or `delete`, each a step of its own that may fail, with or without its
effect (`CommandFails`). `Fails` gives a failed load its empty session under the old ID.
Values are abstracted to their JSON type: an `int` is a `float64` when it comes back. `Expire`
drops an entry. `clients` counts the Redis clients that are open. `owner`, `took`, `unpinged`, `expect` and
the field `exact` record the past: for whom an ID
was drawn, what Redis once took, how many clients did not answer their `Ping`, what the last `Save` promised its client. `Keeps` is the cookie
a client will have once it has the head of the response. A `Save` after the head promises
something only if it stored under the ID of that cookie: its own cookie is lost.

### Lifecycle

`holder` says who has a port, and who made the socket file. A process goes through
`findPort`, `Listen`, `Notify`, a `Signal`, `Shutdown` with `Drained` or `Timeout`, and in
`RunUnix` the deferred `Remove` and `Close`; `Serve` is the goroutine beside it, which
may be late at any of these, and with a bad certificate fails. `Exit` ends the process
at any step: its ports are free, its socket file stays. Connections are requests, or
tunnels once they are hijacked.

## 3. The runs

| Run | Module, configuration | Checks | Result |
|---|---|---|---|
| `request` | `MCServing`, `Request.cfg` | `TypeOK`, `RunAll`, `StatusMatchesWire`, `SizeIsBody`, `ErrorPageAlone`, `LoggedOnce`, `RecoveryContains`, `ImplementsChain` | hold |
| `pool` | `MCServing`, `Pool.cfg` | `ContextExclusive`, `Isolation`, `Termination` | hold |
| `balancer` | `MCBalancer`, `Balancer.cfg` | `TypeOK`, `Decides`, `CounterBounded`, `Rotation`, `WeightShare`, `ImplementsRegistry`, `EveryCallEnds` | hold |
| `routes` | `MCRoutes`, `Routes.cfg` | `TypeOK`, `ChainsIntact`, `MiddlewareOfRouter`, `ErrorChainsCurrent`, `Found`, `LongestLiteral` | hold |
| `gateway` | `MCGateway`, `Gateway.cfg` | `TypeOK`, `GateKeeps`, `FailureAnswered`, `HijackContained`, `ConnectionsClosed`, `TunnelSilent`, `CopiesEnd` | hold |
| `sessions` | `MCSessions`, `Sessions.cfg` | `TypeOK`, `ReadsLastSave`, `Isolated`, `CookieNamesStored`, `ClientsClosed` | hold |
| `lifecycle` | `Lifecycle`, `Lifecycle.cfg` | `TypeOK`, `Graceful`, `Reachable`, `RunEnds` | hold |
| `challenge` | `MCGateway`, `Challenge.cfg` | `Challenged` | violated, see 6 |
| `logged_status` | `MCServing`, `LoggedStatus.cfg` | `LoggedStatusIsSent` | violated, see 6 |
| `header_override` | `MCServing`, `HeaderOverride.cfg` | `HeaderOverrideRefused` | violated, see 6 |
| `duplicate` | `MCBalancer`, `Duplicate.cfg` | `NoDuplicates` | violated, see 6 |
| `longest_match` | `MCRoutes`, `LongestMatch.cfg` | `LongestMatch` | violated, see 6 |

What they show, beyond the words of the properties in the modules:

* `ImplementsChain` contains that no handler starts once the chain is stopped and that a chain which
  nobody stopped runs to its end. `RunAll` says the second on the code's own variables; `NoStartAfterAbort`,
  the first, is a theorem and in no run.
* `RecoveryContains` has exceptions, and they are real: under each of them the answer of `Recovery`
  panics in its deferred call (`middleware.go:62`, `context.go:402-404`). `HijackContained` says that in the
  gateway a hijack is none of them.
* `FailureAnswered` names three failures that end as a success: an event stream, for which the `switch` has
  an empty case, a refused `Hijack`, whose note is a string that nobody looks at, and a
  writer without `Hijack`, whose panic Recovery answers under 200.
* `GateKeeps` has two halves. That only authorised requests are forwarded is asked of chains whose checks
  come before the proxy; that every authorised one is, of chains with `Auth` before `Permission`: in the other
  order `Permission` finds no token and panics.
* `ClientsClosed` is an equation: a client left open, on any path, and a client closed twice both break it.
* `Decides` says nothing of an `Add` that a change overlaps, and `ReadsLastSave` nothing of requests that
  overlap or follow a failed load: there the code promises nothing, and the hazards say so.

Bounds, and why they are enough:

* `request`: one request, up to three calls of the framework by its handlers, in
  every chain of up to three handlers that `MCChains` lists (empty, one to three
  of the application, behind `Recovery`, behind `Logger` and `Recovery`), with the
  statuses 200 (the default), 201, 204 (no body), 302 and 404 (the one `serveError`
  compares with), on connections that can be hijacked and that cannot, and that may break at any step. Every
  slip shows with one call already; the others leave room for what follows an
  abort, a failed render or a nested `Next`.
* `pool`: two requests and two contexts, so that a context is recycled, shared
  wrongly or dropped; one call for each request, of those that leave something in a
  context or lose one. Responses do not break here: what that adds, a panic, is among the calls.
* `balancer`: two goroutines and four calls from lists of length 0, 1 and 2, so
  that an `Add` meets an in-place append, a growing append and a shift at every
  place of its scan. `Rotation` needs all four calls to be violated by its slip, the
  other properties at most three. Weights are 0 and 2. `Modulus` is 16 in place of 2^32:
  `CounterBounded` says that the counter stays below the capacity of the list
  plus the number of goroutines, so that the width does not matter.
  The bound on calls is the only end of this system, the disjunct `Terminated`.
* `routes`: four calls on a router and one group, with seven paths of
  all kinds and six URLs, among them a capital letter (`EqualFold`), a trailing
  slash and a URL longer than every path. Four calls are what it takes for
  a list with room left in its array to be appended to twice (`ChainsIntact`,
  `MiddlewareOfRouter`); the other properties need two.

* `gateway`: five chains, with and without Recovery and Auth, one of them a mistake an application
  can make (Permission without Auth); two permissions and one foreign scope, so
  that a token may grant some of them; eight kinds of credential by header and by parameter.
  There is no bound on the number of requests: a finished one is followed by another, with what
  the route keeps (`map`). A body has at most two chunks (`MaxChunks`) and ends after any of them.
* `sessions`: three requests of two clients with two sessions each, two of them at once, one fault,
  and six IDs, which is what three requests can draw. Two requests one after the other are
  what a load after a `Save` takes, two at once what an interleaving takes; the third reads what
  the two left. The handlers are those of `tester.go`, a `Save` after the response, a number, a key
  that is no string, and a logout with a `Save` repeated and a login after it.
* `lifecycle`: two processes with all six kinds of start, one port to be found besides the
  one that is named (so that it may be taken away), two connections each.

Deadlock is checked in every run. The disjuncts `Terminated` are the states in
which every request has ended, every process is gone, or every call of the bound was made.

## 4. Fairness

`FairSpec` of `Serving` and of `Balancer` has weak fairness of one goroutine's
step for every goroutine: the Go scheduler is preemptive and runs every goroutine
that can run. Nothing forces a request to arrive (`Begin` is not fair), the
garbage collector to run, or a goroutine to start a call of the balancer. In
`Serving` handlers return after at most `MaxOps` calls: a handler that never
returns never ends, with or without the framework. `Lock` needs no strong
fairness within the bound on calls; beyond it, `sync.Mutex` hands over to a waiter
after a millisecond.

In `Gateway` the handler and the two goroutines are fair, but not the ends of a tunnel: no
peer has to close (`PeerEnds`), only a copy whose connection the handler has closed returns
(`CopyFails`). In `Lifecycle` the goroutines of a living process are fair, and the minute of
`Shutdown` is over at some time; no signal has to come and no request has to end.
`Sessions` has no liveness property and no fairness: all its operations return.

`Termination` says that a request that was taken up ends, and `EveryCallEnds` that a
call of `Add`, `Remove` or `Next` returns. `CopiesEnd`: the goroutines of a tunnel end when its handler
has seen the first of them end, though it never takes the second result; `RunEnds`: after its
signal `Run` returns or the process is gone.

## 5. The proofs

`ServingProofs` proves, for all sets of requests and contexts, all
chains, all statuses of three digits, any bound on calls and any mix of connections:

| Theorem | Property |
|---|---|
| `Invariance` | the inductive invariant `IInv` |
| `TypeCorrect` | `TypeOK` |
| `ContextsExclusive` | `ContextExclusive` |
| `ContextsIsolated` | `Isolation` |
| `HandlersInOrder` | `InOrder` |
| `NoStart` | `NoStartAfterAbort` |
| `HandlersAllRun` | `RunAll` |
| `StatusOnWire` | `StatusMatchesWire` |
| `SizeOfBody` | `SizeIsBody` |
| `EndInvariant` | the second inductive invariant, `EInv` |
| `PageAlone` | `ErrorPageAlone` |
| `RecordedOnce` | `LoggedOnce` |
| `PanicsContained` | `RecoveryContains` |
| `ServingImplementsChain` | `ImplementsChain` |

The assumptions are those on the constants in `Serving`: `None` is no context and no
request, chains are sequences of kinds of handler, statuses have three digits, the
operations are known ones, the bound is a number. The set of contexts may be infinite.

None of the properties is inductive. That no context serves two requests needs that
a held context is not in the pool. That handlers start in order needs to know
where `index` is: at the head of a loop it is the number of handlers started, and
while a handler runs it is one less than that unless inner loops have run past it,
which can only be when those loops came to the end of the chain or to `skip`. `IInv` is
`TypeOK` and, for every request, that

* its response is sound (`Sound`): while no header is committed the status is 200, after that
  it is the committed one unless a second header was asked for, and `size` counts `body`;
* it holds a context exactly while it is in flight, and owns it (`Own`): nobody else
  holds it, it is not in the pool, its writer and its data are those of the request;
* its place in the chain is consistent: `ran` counts up from 0, and as long as nobody has
  stopped the chain `index` agrees with the handlers started, for every value of `pc` (`Started`).

The proof has a lemma per operator on responses (each keeps a response sound; these are in
`ResponseWriterProofs`), a lemma for the steps that leave all but one request alone, and one
step for each action. `Breakable` may be any set of requests. The properties follow from `IInv`; `NoStartAfterAbort` from one step of it.

What a request leaves behind needs the shape of the Go stack as well. `EInv` is `IInv` and, for
every request, that the frames are handlers of its chain of which only the outermost can be the
first, and that whoever is back from its own `Next` left a loop that was over (`Frames`); that
middleware in front lies below all other frames, so that nothing starts once it has returned (`Front`);
that a panic which is past `Recovery` could not be answered (`Contained`); that the log has its record
exactly when `Logger` has returned, with a status that a matched route does not change any more
(`Logs`); and that a body has no error page before the end (`Pageless`).

`ServingImplementsChain` is `Spec => ImplementsChain`, from `EInv`. A step of one request leaves the chains
of the others alone (`StepAlone`, `Shifted`); what it does to its own is one abstract step or none,
one lemma for each group of actions (`DispatchMaps`, `LoopMaps`, `CallMaps`, `MovesMap`, `PanicMaps`, `TailMaps`,
`PutMaps`). `Started` makes `LoopStart` the start of the *next* handler, and `Own`, by which `skip` is the chain's own stop,
makes it one that is not stopped; `Frames` makes every return leave a handler that is under way. `Begin` and `PoolDrop`
show nothing. `InOrder`, that handlers start in order and once, follows from the refinement and is proved by itself.

`GatewayProofs` proves, for all chains, permissions, extractors and answers of three digits:

| Theorem | Property |
|---|---|
| `GatewayInvariant` | the inductive invariant |
| `GatewayTypes` | `TypeOK` |
| `FailuresAnswered` | `FailureAnswered` |
| `HijacksContained` | `HijackContained` |
| `ConnectionsAllClosed` | `ConnectionsClosed` |
| `TunnelsSilent` | `TunnelSilent` |
| `GateKept` | `GateKeeps` |

The invariant adds to the types and to the soundness of the response: connections are open only
within `proxyRaw` (`Opened`); until a handler stops the chain nobody has touched the response
(`Untouched`), without which an answer of 502 might come under an earlier status; a tunnel's
goroutines leave no error with a status behind (`Quiet`); a failure is either noted on an
untouched response or answered (`Pending`).

`GateKeeps` is about chains whose checks come before the proxy (`Guarded`), which the code leaves to
the application. Its invariant, `GateInv`, says that the map of the permissions is still the one made at
registration, that a token stands for verified credentials, that the handlers left are the end
of the chain (`Remaining`), and that of a request under way one of three things holds: all its checks are
passed, it was turned away with its status on the wire, or every check it has not passed is still
ahead (`Gated`).

`SessionsProofs` proves, for all clients, names, IDs, handlers and any number of requests and
failures:

| Theorem | Property |
|---|---|
| `SessionsInvariant` | the inductive invariant |
| `SessionsIsolated` | `Isolated` |
| `CookiesNameStored` | `CookieNamesStored` |
| `CountInvariant` | the invariant of the Redis clients |
| `SessionsTypes` | `TypeOK` |
| `ClientsAreClosed` | `ClientsClosed` |
| `RecallInvariant` | the invariant of what a client finds |
| `FindsLastSave` | `ReadsLastSave` |

`Owners` follows an ID along its way: from the session it was drawn for to the store, the
response's cookie, the jar and the next request, always with the same client and name, and from
the cookie on with an entry that Redis took. `Placed` says of a request that waits for Redis what it
waits for: a save has an ID. It rests on the assumption that the generator draws an ID once.

`Counted` says that the clients are those of the commands under way and one for every failed `Ping`; it counts a set,
hence `RequestsAssumption` (the requests of a run are finitely many). `ReadsLastSave` needs most:
`RecalledAt` says, for every client and name, that what the client is known to have is what the store
holds under the cookie it has between its requests, and during its one request under the cookie it will
have (`InStep`); a session that was opened and not written is what the store holds under the ID
that cookie will name, as long as the head is not sent. Other clients' requests and expiry do not disturb it because
of `Owners`, and a value that was serialized once is not changed by a second time (`JSONTwice`).
`DataAssumption` says that the marker for "nothing" is no session's data.

`LifecycleProofs` proves, for any number of processes, ports and connections:

| Theorem | Property |
|---|---|
| `LifecycleInvariant` | the inductive invariant |
| `LifecycleTypes` | `TypeOK` |
| `ShutdownGraceful` | `Graceful` |
| `ServersReachable` | `Reachable` |

`Reachable` needs that a late goroutine of `Serve`, which closes its listener after `Shutdown`,
frees no port of another process: as long as it has not run, the port is still its own (`HasPort`).
For sockets it needs that a process that is not `relieved` shares the file with nobody between
`Listen` and the last deferred call (`HasSocket`).

`BalancerProofs` proves, for any number of goroutines, names, weights and initial lists, of all
three kinds of balancer:

| Theorem | Property |
|---|---|
| `BalancerInvariant` | the inductive invariant |
| `BalancerTypes` | `TypeOK` |
| `BalancerExclusive` | who changes the list is alone with it |
| `CounterNeverWraps` | `CounterBounded` |
| `AddDecides` | `Decides` |
| `RoundRobinRotates` | `Rotation` |
| `WeightsShared` | `WeightShare` |
| `BalancersAreRegistries` | `ImplementsRegistry` |

The invariant says what the RWMutex knows: the writer is the goroutine in its critical section, the readers
are those in theirs, and a list that is being changed has no readers (`Mutex`); where a goroutine is
says which call it makes (`CallAt`); only the cell that `Add` is about to write may be nil
(`Filled`). The bound of the counter takes one more argument: each reader adds at most one to a value below the
length, and the capacity never shrinks. `Decides` follows the scan of an undisturbed `Add`: the
cells it has passed do not hold the name. `Rotation` says where the counter is between two
turns (`Turns`). Assumed of the constants: there are finitely many goroutines, at least one; no marker is a name; and
`LengthAssumption`, that the length of the list fits the type of the counter, of which the
code takes the remainder (`uint32(len(...))`).

`WeightShare` is about the arithmetic of `weightedChoiceOne` on lists of any length: the weights before place `k` add up to
a bound that `k` does not fall below (`SumsOfWeights`, by induction), so that the draws which choose `k` are those from
the sum before it up to the sum with it, an interval of as many numbers as its weight (`ShareOfWeights`).

`BalancersAreRegistries` is `Spec => ImplementsRegistry`. The mapping is that of
`Balancer`: `targets` is `Registered`, the bag of the names whose cells are written, `phase` is where the call is,
`answer` the target that `Next` picked. The initial states map to initial states
(`InitMaps`), and each step is one abstract step or none: `Write` is `Add` (the header stored by
`Grow` before it shows nothing yet), a refused scan is `Refuse`, `RemoveFound` is `Remove`, the choice of a
target, or the panic in its place, is `Next1`, the last step of a call is `Return`, and the lock and the scan map to stutters (`AddMaps`, `RemoveMaps`,
`NextMaps`, `LockMaps`). The work is in counting occurrences in a list that grows at its end or loses
a place in the middle (`OccursAppend`, `OccursRemove`), and in that nobody else is between its
answer and its return when the list moves (`OthersAnswer`, from `Mutex`). That a `Next` which panics on a list with
targets has met another is `Turns` again: while nobody overlaps a turn of round robin, the counter is what the turn
stored, which is below the length. Who has met another is changed by the lock alone (`RacedStays`), and there the other is
under way (`RacedMeet`).

`RoutesProofs` proves, for any groups of groups, methods, paths and number of calls (the run has one
group and four calls):

| Theorem | Property |
|---|---|
| `RoutesInvariant` | the inductive invariant |
| `RoutesTypes` | `TypeOK` |
| `ChainsStayIntact` | `ChainsIntact` |
| `MiddlewareKept` | `MiddlewareOfRouter` |
| `ErrorChainsFollow` | `ErrorChainsCurrent` |
| `RouteFound` | `Found` |
| `LongestLiteralWins` | `LongestLiteral` |

None of the first three properties is inductive: whether an `append` spoils a chain depends on who shares its array. The invariant
therefore says that the one kind of slice that is appended to, the middleware list of a
router, shares its array with no other list, no chain of 404 or 405 and no chain of a route (`Apart`; the first array,
that of the nil slices, has no cell to write), and that every slice lies within its array and holds
what the calls gave to it (`Holds`). `append` writes only into its own array or a new one
(`AppendWrites`), `mergeHandlers` into none (`MergeCopies`), and a slice whose array is not written keeps its elements
(`SliceStays`): with these each call is a lemma of its own. `SlashAssumption` says that the empty
segment, which a trailing slash leaves, is a segment.

`Found` and `LongestLiteral` are about what the loop of `Match` computes, for any number of locations and URLs of
any length. Its invariants are, after each turn, that the best so far is a location that matches and that
there is one if any location up to there matches (`BestMatches`), and that among locations without parameters
it is the first of those with the most characters (`BestIsLongest`). `MatchURLSound` puts the
three kinds of location together. `WidthAssumption` says that every segment has a length.

`Induction` makes these inductions possible. The library's induction theorems have an operator as a parameter,
which the provers cannot instantiate. `NatSets` states induction for a *set* of numbers instead, and is proved
from the library's well-foundedness of the naturals; a loop, written as a recursive function, is handed over as the function of
its turns, and `LoopRuns` says that each of its values comes from the one before. `SumsExist` and `SumsGrow`
are the same for sums. A proof defines the set of the turns after which its invariant holds
and shows that it is all of them.

Only model-checked is liveness under fairness (`Termination`, `EveryCallEnds`, `CopiesEnd`, `RunEnds`), which TLAPS
does not do. Every other property of the passing runs is a theorem.

## 6. Findings

Five statements of the repository that the code does not keep; each has a run
whose counterexample shows how.

* **The access log records 200 for a 404 or 405** (`logged_status`). `serveError`
  runs the chain, with `Logger` in it, and sets the status afterwards.
* **A sent header can be overridden in the framework's books** (`header_override`).
  `WriteHeader` warns and refuses only when a body was begun. After `SetStatus(201)`,
  `SetStatus(500)` changes `Status()` while the client keeps 201.
* **Two concurrent `Add`s register a name twice** (`duplicate`). The test says a name
  that is there is refused; the look-up is outside the lock and not repeated in it.
* **The longest match is not taken** (`longest_match`). With `/:x/:y` registered
  before `/b/:y`, the URL `/a/b/c` goes to `/b/:y`, whose expression matches only the tail
  `/b/c`. The comparison counts parameters and the length of the pattern, and
  leaves out the parameters of the first location that matched.

* **A refusal for missing scopes has no challenge** (`challenge`). `Permission` sends the 403 and
  sets `WWW-Authenticate` afterwards; the test that asserts the header looks at the recorder's
  header map and not at what was sent. `Auth` does the same for a wrong issuer or audience.

Other things the models show, which no line of the repository promises otherwise:

* A session whose options are set without a `MaxAge` is deleted by its next `Save`
  (`redis.go:180`); the default of `save` (`redis.go:268`) is never reached, and `Options` alone
  does not make `Save` do anything.
* A key that is no string makes the serializer panic, since the JSON serializer has no logger.
* A client whose `Ping` fails is not closed; `ClientsClosed` counts exactly these apart.
* Round robin's `Next` may panic on a list with targets, when another `Next` increments the counter between
  its store and its read of it (`proxy.go:101-102`). The lock is given back.
* An event stream and a refused `Hijack` are answered with an empty 200, though nothing was forwarded.
* A dial that fails after the hijack cannot be answered with 502 any more: the answer panics,
  Recovery keeps still because the chain is already told to stop (`HijackContained`; a slip that answers first shows
  a panic that leaves `ServeHTTP`).
* A body that breaks off makes `ReverseProxy` panic to abort the connection; Recovery takes the
  panic and adds its page to what was sent, under the backend's status. When the client is gone as well,
  or the backend had declared a Content-Length that the page exceeds, that page panics again and leaves
  `ServeHTTP`, which then aborts the connection after all.
* `RunTLS` without `certFile` returns an error and keeps its listener open.
* After a crash the socket file is in the way of the next `RunUnix`; after a slow shutdown the
  deferred `os.Remove` removes a successor's file (`relieved` in `Reachable`).

## 7. What is left out

* Of the components above: the cache and `Choices.Get`, which nothing uses; outgoing requests, where a header is
  set on a global client; static files, path cleaning, the logger, binding, renderers' output and
  helpers, which keep no state worth a model.
* In `ResponseWriter`: a status of the 1xx, which since Go 1.19 does not commit the header (`go.mod` says 1.16,
  and no run uses one); a write that is taken in part.
* In `Serving`: the record's list of errors, which fails to encode as nothing else does
  (`logger_middleware.go:107-108`); `SetWriter`; what headers, cookies, bodies and records say; a reference
  to the data of a context that a handler keeps beyond its request; goroutines that a handler
  starts.
* In `Routes`: registration while the server runs, a concurrent write of Go maps that no
  example or test does; several groups of groups (one group already shares and copies
  every slice); `RemoveExtraSlash` and `UseRawPath`, which choose the URL that is looked up.
* In `Locations`: parameters within a segment, `*` and `^` in paths, and the values
  that parameters get.
* In `Balancer`: a header read in halves (a slice is three words), two balancers built from one
  slice, and weights that are not whole numbers.
* In `Gateway`: an answer of 101, for which `ReverseProxy` hijacks the connection itself; which rewrite rule matches and what it makes of the URL; the headers `Proxy` adds;
  several requests at once, which share nothing but the balancer (`Balancer`) and the map of permissions,
  which is only read.
* In `Sessions`: a second store or serializer, cookies that do not decode (they are as none), and the
  data race of requests that store a new logger in the shared store.
* In `Lifecycle`: a second server in one process, and IPv4 and IPv6 as different addresses.

## 8. Plan

Done: `Serving` with `Chain`, `Routes`, `Balancer` with `Registry`, `Gateway` with `Gate`, `Sessions`, `Lifecycle`,
their runs, and the proofs of section 5, which state every safety property of the runs. What would add most from here:

1. Several requests at once in `Gateway`, over `Balancer`, with its chain as an instance of `Chain`.
2. Parameters within a segment in `Locations`, and the values that parameters get.
