------------------------------ MODULE Gateway ------------------------------
(***************************************************************************)
(* A gateway: the chain of Recovery, Auth, Permission and Proxy, for one   *)
(* request after the other.  Proxy forwards a request through net/http's   *)
(* ReverseProxy or, for a websocket, takes the client's connection and     *)
(* lets two goroutines copy between it and the backend's.                  *)
(*                                                                         *)
(* What the client, the backend and ReverseProxy do is nondeterministic;   *)
(* the choice of a target is Balancer's.                                   *)
(***************************************************************************)
EXTENDS ResponseWriter, Gate

CONSTANTS
  Chains,   \* the handler chains of the route
  Answers,  \* the statuses a backend answers
  None      \* no challenge, no error

Kinds == {"recovery", "auth", "permission", "proxy"}

ASSUME ChainsAssumption == Chains \subseteq Seq(Kinds)
ASSUME AnswersAssumption == Answers \subseteq 100..999

VARIABLES
  chain,      \* the handlers of the route
  map,        \* originalPermission, made once for all requests
  left,       \* the handlers still to run
  req,        \* the request
  pc,         \* where its goroutine is
  w,          \* the response
  header,     \* WWW-Authenticate in the header map
  challenge,  \* ... as it was when the head went out
  skip,       \* _context.skip
  token,      \* AuthKey is set
  error,      \* "_error" of the context
  in, out,    \* the connections of the client and of the backend
  copy,       \* the goroutines that copy to out ("up") and to in ("down")
  err,        \* the variable they share with the handler: TRUE is an error
  errCh,      \* the channel between them
  reached,    \* history: the handler of the proxy has started
  failed      \* history: why the request could not be forwarded

reply    == <<w, header, challenge>>
context  == <<skip, token, error>>
tunnel   == <<in, out, copy, err, errCh>>
fixed    == <<chain, map>>
vars     == <<fixed, left, req, pc, reply, context, tunnel, reached, failed>>

-----------------------------------------------------------------------------
StatusBadGateway == 502
StatusCodeContextCanceled == 499
GatewayErrors == {StatusBadGateway, StatusCodeContextCanceled}

\* A "_error" that is no DefaultResponseBody.
Other == 0

\* What keeps a request from its backend:
\*   balancer      no target                rewrite   no URL
\*   canceled, unreachable: of ReverseProxy
\*   raw           proxyRaw cannot dial or write
\*   events        text/event-stream        refused   net/http refuses Hijack
\*   unhijackable  its writer has no Hijack
Failures == { "balancer", "rewrite", "canceled", "unreachable", "raw", "events",
              "refused", "unhijackable" }

FailureOf(code) == IF code = StatusBadGateway THEN "unreachable" ELSE "canceled"

ASSUME NoneAssumption == None \notin GatewayErrors \cup {Other} /\ None \notin Failures

Request ==
  [ method: {"GET", "OPTIONS"}, via: Extractors, cred: Credentials, scopes: Scopes,
    kind: {"plain", "events", "websocket"} ]

\*   setup   the route is registered    idle     between requests
\*   next    the loop of Next           hijack, dial, write: proxyRaw
\*   tunnel  waits on errCh             check    looks at err
\*   forward ReverseProxy               body     it copies the body
\*   proxied back in Proxy's handler    panic    unwinding
\*   tail    the chain is over          done     the request is over
\*   crashed the panic reached net/http failed   Auth panicked
PCs == { "setup", "failed", "idle", "next", "hijack", "dial", "write", "tunnel",
         "check", "forward", "body", "proxied", "panic", "tail", "done", "crashed" }

\* Every variable has its type. (proxy.go:179-304, auth.go:141-231)
TypeOK ==
  /\ chain \in Chains
  /\ map \in [Needed -> BOOLEAN]
  /\ left \in Seq(Kinds)
  /\ req \in Request
  /\ pc \in PCs
  /\ w \in Response
  /\ header \in Challenges \cup {None} /\ challenge \in Challenges \cup {None}
  /\ skip \in BOOLEAN /\ token \in BOOLEAN
  /\ error \in GatewayErrors \cup {None, Other}
  /\ in \in {"none", "open", "closed"} /\ out \in {"none", "open", "closed"}
  /\ copy \in [{"up", "down"} -> {"none", "run", "send", "ended"}]
  /\ err \in BOOLEAN
  /\ errCh \in Seq(BOOLEAN) /\ Len(errCh) <= 2
  /\ reached \in BOOLEAN
  /\ failed \in Failures \cup {None}

NoRequest ==
  [ method |-> "GET", via |-> CHOOSE v \in Extractors : TRUE, cred |-> "none",
    scopes |-> {}, kind |-> "plain" ]

NoCopy == [d \in {"up", "down"} |-> "none"]

Init ==
  /\ chain \in Chains
  /\ map = newPermissionMap
  /\ left = << >>
  /\ req = NoRequest
  /\ pc = "setup"
  /\ w = wrapResponseWriter(TRUE)
  /\ header = None /\ challenge = None
  /\ skip = FALSE /\ token = FALSE /\ error = None
  /\ in = "none" /\ out = "none" /\ copy = NoCopy /\ err = FALSE /\ errCh = << >>
  /\ reached = FALSE /\ failed = None

-----------------------------------------------------------------------------
(* The route, the requests, and the end of each.                           *)

\* Auth asks the issuer for its keys while the route is registered.
Setup ==
  /\ pc = "setup"
  /\ \E d \in Discoveries :
       pc' = IF d # "ok" /\ \E k \in DOMAIN chain : chain[k] = "auth" THEN "failed" ELSE "idle"
  /\ UNCHANGED <<fixed, left, req, reply, context, tunnel, reached, failed>>

Ended == \A d \in DOMAIN copy : copy[d] \in {"none", "ended"}

Arrive ==
  /\ pc = "idle"
  /\ req' \in Request
  /\ \E h \in BOOLEAN : w' = wrapResponseWriter(h)
  /\ left' = chain
  /\ pc' = "next"
  /\ UNCHANGED <<fixed, header, challenge, context, tunnel, reached, failed>>

\* reset of the next request, once the goroutines of this one are gone.
Reset ==
  /\ pc \in {"done", "crashed"} /\ Ended
  /\ left' = << >> /\ req' = NoRequest /\ pc' = "idle"
  /\ w' = wrapResponseWriter(TRUE) /\ header' = None /\ challenge' = None
  /\ skip' = FALSE /\ token' = FALSE /\ error' = None
  /\ in' = "none" /\ out' = "none" /\ copy' = NoCopy /\ err' = FALSE /\ errCh' = << >>
  /\ reached' = FALSE /\ failed' = None
  /\ UNCHANGED fixed

\* The response becomes v, with the header h in the map: what the client gets
\* of the headers is what they are as the status goes out.
Sends(v, h) ==
  /\ w' = v
  /\ header' = h
  /\ challenge' = IF w.wire = 0 /\ v.wire # 0 THEN h ELSE challenge

At(kind) == pc = "next" /\ ~skip /\ left # << >> /\ Head(left) = kind

\* Recovery calls Next.
EnterRecovery ==
  /\ At("recovery")
  /\ left' = Tail(left)
  /\ UNCHANGED <<fixed, req, pc, reply, context, tunnel, reached, failed>>

ChainOver ==
  /\ pc = "next" /\ (skip \/ left = << >>)
  /\ pc' = "tail"
  /\ UNCHANGED <<fixed, left, req, reply, context, tunnel, reached, failed>>

\* A panic: Recovery answers 500, if nobody has told the chain to stop and the
\* connection takes an answer; else it ends the request, or leaves ServeHTTP.
Recover ==
  /\ pc = "panic"
  /\ IF chain[1] # "recovery" THEN pc' = "crashed" /\ UNCHANGED <<reply, skip>>
     ELSE IF skip THEN pc' = "tail" /\ UNCHANGED <<reply, skip>>
     ELSE /\ skip' = TRUE
          /\ Sends(Render(w, StatusInternalServerError, "recovery"), header)
          /\ pc' = IF RenderOK(w, StatusInternalServerError) THEN "tail" ELSE "crashed"
  /\ UNCHANGED <<fixed, left, req, token, error, tunnel, reached, failed>>

Finish ==
  /\ pc = "tail"
  /\ Sends(WriteHeaderNow(w), header)
  /\ pc' = "done"
  /\ UNCHANGED <<fixed, left, req, context, tunnel, reached, failed>>

-----------------------------------------------------------------------------
(* Auth and Permission.                                                    *)

Verdict == Authenticate(req.via, req.method, req.cred)

AuthPasses ==
  /\ At("auth") /\ Verdict.pass
  /\ token' = Verdict.token
  /\ left' = Tail(left)
  /\ UNCHANGED <<fixed, req, pc, reply, skip, error, tunnel, reached, failed>>

\* AbortWithStatusAndErrorMessage after SetHeader, or AbortWithStatus first and
\* SetHeader at the end.
AuthRefuses ==
  /\ At("auth") /\ ~Verdict.pass
  /\ skip' = TRUE
  /\ IF Verdict.late
     THEN /\ w' = WriteHeader(w, StatusUnauthorized)
          /\ header' = Verdict.challenge
          /\ UNCHANGED <<challenge, pc>>
     ELSE /\ Sends(Render(w, StatusUnauthorized, "app"), Verdict.challenge)
          /\ pc' = IF RenderOK(w, StatusUnauthorized) THEN pc ELSE "panic"
  /\ left' = Tail(left)
  /\ UNCHANGED <<fixed, req, token, error, tunnel, reached, failed>>

\* A slip: the map of the route itself, kept from request to request.
PermissionShared ==
  /\ At("permission") /\ token
  /\ map' = Granted(map, req.scopes)
  /\ IF IsDenied(Granted(map, req.scopes))
     THEN /\ skip' = TRUE
          /\ w' = WriteHeader(w, StatusForbidden)
          /\ header' = "insufficient_scope"
          /\ UNCHANGED challenge
     ELSE UNCHANGED <<skip, reply>>
  /\ left' = Tail(left)
  /\ UNCHANGED <<chain, req, pc, token, error, tunnel, reached, failed>>

\* Every request checks its scopes on a copy of the map.  The challenge of a
\* refusal is set after AbortWithStatus sent the status.
Permission ==
  /\ At("permission") /\ token
  /\ IF IsDenied(Granted(map, req.scopes))
     THEN /\ skip' = TRUE
          /\ w' = WriteHeader(w, StatusForbidden)
          /\ header' = "insufficient_scope"
          /\ UNCHANGED challenge
     ELSE UNCHANGED <<skip, reply>>
  /\ left' = Tail(left)
  /\ UNCHANGED <<fixed, req, pc, token, error, tunnel, reached, failed>>

\* Without a token the status is sent, and the nil token dereferenced.
PermissionPanics ==
  /\ At("permission") /\ ~token
  /\ skip' = TRUE
  /\ Sends(WriteHeader(w, StatusForbidden), header)
  /\ pc' = "panic"
  /\ UNCHANGED <<fixed, left, req, token, error, tunnel, reached, failed>>

-----------------------------------------------------------------------------
(* Proxy.                                                                  *)

\* Next of the balancer has a target; Accept: text/event-stream is not
\* forwarded at all.
Forward ==
  /\ At("proxy")
  /\ reached' = TRUE
  /\ left' = Tail(left)
  /\ pc' = CASE req.kind = "websocket" -> "hijack"
             [] req.kind = "events" -> "proxied"
             [] OTHER -> "forward"
  /\ failed' = IF req.kind = "events" THEN "events" ELSE failed
  /\ UNCHANGED <<fixed, req, reply, context, tunnel>>

\* Next of the balancer panics.
NextPanics ==
  /\ At("proxy")
  /\ reached' = TRUE
  /\ failed' = "balancer"
  /\ pc' = "panic"
  /\ left' = Tail(left)
  /\ UNCHANGED <<fixed, req, reply, context, tunnel>>

\* rewriteURL made a URL that does not parse.
RewriteFails ==
  /\ At("proxy")
  /\ reached' = TRUE
  /\ skip' = TRUE
  /\ failed' = "rewrite"
  /\ Sends(Render(w, StatusInternalServerError, "app"), header)
  /\ pc' = IF RenderOK(w, StatusInternalServerError) THEN pc ELSE "panic"
  /\ left' = Tail(left)
  /\ UNCHANGED <<fixed, req, token, error, tunnel>>

\* A slip: the error as a text, as proxyRaw does after a failed Hijack.
ErrorHandlerText(code) ==
  /\ pc = "forward"
  /\ error' = Other /\ failed' = FailureOf(code)
  /\ pc' = "proxied"
  /\ UNCHANGED <<fixed, left, req, reply, skip, token, tunnel, reached>>

\* proxyHTTP: no answer, or one that ModifyResponse refuses (502), or the
\* client is gone (499).
ErrorHandler(code) ==
  /\ pc = "forward"
  /\ error' = code /\ failed' = FailureOf(code)
  /\ pc' = "proxied"
  /\ UNCHANGED <<fixed, left, req, reply, skip, token, tunnel, reached>>

\* The backend's head is copied, and its body chunk by chunk.
Answer ==
  /\ pc = "forward"
  /\ \E code \in Answers : Sends(WriteHeader(w, code), header)
  /\ pc' = "body"
  /\ UNCHANGED <<fixed, left, req, context, tunnel, reached, failed>>

MaxChunks == 2

\* A chunk that the client does not get makes ReverseProxy panic with
\* ErrAbortHandler.
CopyBody ==
  /\ pc = "body"
  /\ \/ /\ pc' = "proxied"
        /\ UNCHANGED reply
     \/ /\ Len(w.body) < MaxChunks /\ bodyAllowedForStatus(w.status)
        /\ Sends(Write(w, "app"), header)
        /\ pc' = IF AcceptsBody(w) THEN pc ELSE "panic"
  /\ UNCHANGED <<fixed, left, req, context, tunnel, reached, failed>>

\* ... and so does a body that breaks off at the backend.
BodyBreaks ==
  /\ pc = "body"
  /\ pc' = "panic"
  /\ UNCHANGED <<fixed, left, req, reply, context, tunnel, reached, failed>>

\* A slip: the chain is told to stop after the answer, not in front of it.
ProxiedLate ==
  /\ pc = "proxied"
  /\ IF error \in GatewayErrors
     THEN /\ Sends(Render(w, error, "app"), header)
          /\ skip' = RenderOK(w, error)
          /\ pc' = IF RenderOK(w, error) THEN "next" ELSE "panic"
     ELSE skip' = TRUE /\ pc' = "next" /\ UNCHANGED reply
  /\ UNCHANGED <<fixed, left, req, token, error, tunnel, reached, failed>>

\* After proxyRaw or ReverseProxy: a "_error" with a status is answered, any
\* other is not; then the chain is told to stop.
Proxied ==
  /\ pc = "proxied"
  /\ skip' = TRUE
  /\ IF error \in GatewayErrors
     THEN /\ Sends(Render(w, error, "app"), header)
          /\ pc' = IF RenderOK(w, error) THEN "next" ELSE "panic"
     ELSE pc' = "next" /\ UNCHANGED reply
  /\ UNCHANGED <<fixed, left, req, token, error, tunnel, reached, failed>>

-----------------------------------------------------------------------------
(* proxyRaw.                                                               *)

\* No Hijacker: the type assertion panics.  A refused Hijack is noted in a
\* text that nobody reads.
HijackConn ==
  /\ pc = "hijack"
  /\ \/ /\ Sends(Hijack(w), header)
        /\ in' = IF w.hijackable THEN "open" ELSE in
        /\ pc' = IF w.hijackable THEN "dial" ELSE "panic"
        /\ failed' = IF w.hijackable THEN failed ELSE "unhijackable"
        /\ UNCHANGED error
     \/ /\ w.hijackable
        /\ w' = [w EXCEPT !.size = IF @ < 0 THEN 0 ELSE @]
        /\ error' = Other /\ failed' = "refused"
        /\ pc' = "proxied"
        /\ UNCHANGED <<header, challenge, in>>
  /\ UNCHANGED <<fixed, left, req, skip, token, out, copy, err, errCh, reached>>

Dial ==
  /\ pc = "dial"
  /\ out' = "open"
  /\ pc' = "write"
  /\ UNCHANGED <<fixed, left, req, reply, context, in, copy, err, errCh, reached, failed>>

Shut(conn) == IF conn = "open" THEN "closed" ELSE conn

\* proxyRaw returns: the deferred calls close what is open.
ReturnWith(e) ==
  /\ error' = e
  /\ in' = Shut(in) /\ out' = Shut(out)
  /\ pc' = "proxied"

\* A slip: out.Close is deferred after the request is written.
RawFailsOpen ==
  /\ pc \in {"dial", "write"}
  /\ error' = StatusBadGateway /\ failed' = "raw"
  /\ in' = Shut(in)
  /\ pc' = "proxied"
  /\ UNCHANGED <<fixed, left, req, reply, skip, token, out, copy, err, errCh, reached>>

\* Dial fails, or the request cannot be written to the backend.
RawFails ==
  /\ pc \in {"dial", "write"}
  /\ ReturnWith(StatusBadGateway)
  /\ failed' = "raw"
  /\ UNCHANGED <<fixed, left, req, reply, skip, token, copy, err, errCh, reached>>

WriteRequest ==
  /\ pc = "write"
  /\ copy' = [d \in DOMAIN copy |-> "run"]
  /\ pc' = "tunnel"
  /\ UNCHANGED <<fixed, left, req, reply, context, in, out, err, errCh, reached, failed>>

\* io.Copy of one direction returns and stores its error in the shared err.
CopyReturns(d) ==
  /\ copy[d] = "run"
  /\ err' \in BOOLEAN
  /\ copy' = [copy EXCEPT ![d] = "send"]
  /\ UNCHANGED <<fixed, left, req, pc, reply, context, in, out, errCh, reached, failed>>

\* ... because a peer is done or gone, or because the handler closed the pair.
PeerEnds(d)  == in = "open" /\ CopyReturns(d)
CopyFails(d) == in = "closed" /\ CopyReturns(d)

\* A slip: make(chan error).
Unbuffered == 0

Capacity == 2

\* errCh <- err, whatever err is by now.
Send(d) ==
  /\ copy[d] = "send"
  /\ Len(errCh) < Capacity \/ (pc = "tunnel" /\ errCh = << >>)
  /\ errCh' = Append(errCh, err)
  /\ copy' = [copy EXCEPT ![d] = "ended"]
  /\ UNCHANGED <<fixed, left, req, pc, reply, context, in, out, err, reached, failed>>

\* err = <-errCh: the handler waits for the first of the two.
Receive ==
  /\ pc = "tunnel" /\ errCh # << >>
  /\ err' = Head(errCh)
  /\ errCh' = Tail(errCh)
  /\ pc' = "check"
  /\ UNCHANGED <<fixed, left, req, reply, context, in, out, copy, reached, failed>>

\* A slip: a response body with a status, as for the other failures.
TunnelErrorAnswered == StatusBadGateway

\* What a broken tunnel leaves in "_error".
TunnelError == Other

\* It looks at err, which the other goroutine may have stored since.
Check ==
  /\ pc = "check"
  /\ ReturnWith(IF err THEN TunnelError ELSE error)
  /\ UNCHANGED <<fixed, left, req, reply, skip, token, copy, err, errCh, reached, failed>>

-----------------------------------------------------------------------------
Handler ==
  \/ EnterRecovery \/ ChainOver \/ Recover \/ Finish
  \/ AuthPasses \/ AuthRefuses \/ Permission \/ PermissionPanics
  \/ Forward \/ NextPanics \/ RewriteFails
  \/ (\E code \in GatewayErrors : ErrorHandler(code))
  \/ Answer \/ CopyBody \/ BodyBreaks \/ Proxied
  \/ HijackConn \/ Dial \/ RawFails \/ WriteRequest \/ Receive \/ Check

Copier(d) == CopyFails(d) \/ Send(d)

\* There is no route.
Terminated == pc = "failed" /\ UNCHANGED vars

\* While a request is under way its client may go.
Breaks ==
  /\ pc \notin {"setup", "failed", "idle", "done", "crashed"}
  /\ ~w.hijacked /\ ~w.broken
  /\ w' = Break(w)
  /\ UNCHANGED <<fixed, left, req, pc, header, challenge, context, tunnel, reached, failed>>

Next ==
  \/ Setup \/ Arrive \/ Reset \/ Handler \/ Breaks \/ Terminated
  \/ \E d \in DOMAIN copy : PeerEnds(d) \/ Copier(d)

Spec == Init /\ [][Next]_vars

\* The scheduler runs the goroutines that can run.  No peer of a tunnel has to
\* end it.
FairSpec ==
  Spec /\ WF_vars(Handler) /\ \A d \in {"up", "down"} : WF_vars(Copier(d))

-----------------------------------------------------------------------------
(* Properties.                                                             *)

In(kind) == \E k \in DOMAIN chain : chain[k] = kind

\* What the two middleware promise together, without their order of checks.
Authorised ==
  LET verified == req.cred = "valid" /\ (EnableOptions \/ req.method # "OPTIONS")
      exempt   == ~EnableOptions /\ req.method = "OPTIONS"
  IN  /\ In("auth") => verified \/ exempt
      /\ In("permission") => In("auth") /\ verified /\ Needed \subseteq req.scopes

\* The checks come in front of the proxy, and Auth in front of Permission.
Guarded ==
  \A j, k \in DOMAIN chain :
    chain[j] \in {"auth", "permission"} /\ chain[k] = "proxy" => j < k

Ordered ==
  \A j, k \in DOMAIN chain : chain[j] = "auth" /\ chain[k] = "permission" => j < k

\* In a chain whose checks come first, the proxy takes a request only when its
\* token is valid and grants all the permissions, or when OPTIONS needs none: no
\* check that goes on after an abort lets one through, and no request profits
\* from the scopes of an earlier one.  One turned away is answered 401 or 403,
\* also when the refusal panics.  And the checks stop nobody else: with Auth in
\* front of Permission every request that may pass has come to the proxy when
\* its chain is over.  (auth.go:156-231, permission.go:36-63)
GateKeeps ==
  Guarded =>
    /\ reached => Authorised
    /\ pc = "done" /\ ~Authorised => SentStatus(w) \in {StatusUnauthorized, StatusForbidden}
    /\ pc \in {"tail", "done", "crashed"} /\ Authorised /\ Ordered /\ In("proxy") => reached

\* The failures that are answered with their own status ...
Answered ==
  [ balancer |-> StatusInternalServerError, rewrite |-> StatusInternalServerError,
    canceled |-> StatusCodeContextCanceled, unreachable |-> StatusBadGateway ]

\* ... and those that pass for a success.
Overlooked == {"events", "refused", "unhijackable"}

\* A request that could not be forwarded, and comes to its end, is answered with
\* the status of the failure, whoever answers it and whether or not the client
\* stays for the text, with three exceptions that Proxy overlooks: an event
\* stream, a refused Hijack and a writer without Hijack end in status 200, the
\* first two without a body, the third with Recovery's text.  A failure after
\* the hijack leaves nothing of net/http's on the connection.
\* (proxy.go:214-239, 246-264, 284-304)
FailureAnswered ==
  pc = "done" =>
    /\ failed \in DOMAIN Answered => SentStatus(w) = Answered[failed]
    /\ failed \in Overlooked =>
         /\ SentStatus(w) = StatusOK
         /\ w.body = IF failed = "unhijackable" THEN <<"recovery">> ELSE << >>
    /\ failed = "raw" => w.hijacked /\ w.body = << >>

\* Behind Recovery a panic leaves ServeHTTP only when the client cannot be sent
\* a body any more, and never once the connection was hijacked: the answer to a
\* failed dial panics there, but the chain has been told to stop, so Recovery
\* does not try another.  (proxy.go:235-239, context.go:224-240,
\* middleware.go:51-69)
HijackContained ==
  pc = "crashed" /\ chain[1] = "recovery" => ~w.hijacked /\ ~AcceptsBody(w)

\* Once a request is over both of its connections are closed, on every path
\* through proxyRaw.  (proxy.go:246-265)
ConnectionsClosed ==
  pc \in {"tail", "done", "crashed"} => in # "open" /\ out # "open"

\* A tunnel that was established never ends in an answer or in a panic,
\* whichever goroutine ends first and whichever stores the shared err last.
\* (proxy.go:267-279, 235-239)
TunnelSilent ==
  copy # NoCopy => pc \notin {"panic", "crashed"} /\ w.body = << >>

\* The goroutines of a tunnel end when its handler has, though the handler
\* takes one result of two.  (proxy.go:267-278)
CopiesEnd == pc = "check" ~> Ended

\* What auth_test.go:167 asserts of the header of a refusal, at the client:
\* a request refused for its scopes is told so in WWW-Authenticate.
Challenged ==
  pc = "done" /\ SentStatus(w) = StatusForbidden /\ token => challenge = "insufficient_scope"
=============================================================================
