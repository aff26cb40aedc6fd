--------------------------- MODULE GatewayProofs ---------------------------
(***************************************************************************)
(* TypeOK, GateKeeps, FailureAnswered, HijackContained, ConnectionsClosed  *)
(* and TunnelSilent of Gateway, for any chains, permissions and answers    *)
(* and any number of requests.                                             *)
(***************************************************************************)
EXTENDS Gateway, ResponseWriterProofs, TLAPS

-----------------------------------------------------------------------------
(* The inductive invariant.                                                *)

\* Only proxyRaw has connections open.
Opened ==
  /\ in = "open" => pc \in {"dial", "write", "tunnel", "check"}
  /\ out = "open" => pc \in {"write", "tunnel", "check"}

Early  == {"setup", "failed", "idle", "next", "forward", "hijack"}
Taken  == {"dial", "write", "tunnel", "check"}

\* Until a handler tells the chain to stop nobody has touched the response or
\* noted an error; until proxyRaw returns nobody has written a body.
Untouched ==
  /\ pc \in (Early \ {"next"}) \cup Taken => ~skip
  /\ pc \in Early /\ ~skip => Fresh(w)
  /\ pc \in Early \cup Taken /\ ~skip => error = None
  /\ pc \in Taken => w.body = << >> /\ w.hijacked

\* A tunnel: its goroutines have been started, and whatever they and the handler
\* do, the request is on its way to the end without an answer.
Quiet ==
  copy # NoCopy =>
    /\ pc \in {"tunnel", "check", "proxied", "next", "tail", "done"}
    /\ pc = "next" => skip
    /\ error \notin GatewayErrors
    /\ w.body = << >>

\* The failures that are answered with a status of their own.
Reported == {"balancer", "rewrite", "canceled", "unreachable"}

\* A failure to forward: it is noted and nobody has touched the response, or it
\* is answered and the chain is told to stop.  An overlooked one leaves no
\* header; after a hijack there is no body.
Pending ==
  /\ failed # None =>
       pc \in {"proxied", "next", "panic", "tail", "done", "crashed"} /\ (pc = "next" => skip)
  /\ failed \in Reported /\ pc # "crashed" =>
       \/ pc = "proxied" /\ error \in GatewayErrors /\ failed = FailureOf(error) /\ Fresh(w)
       \/ pc = "panic" /\ failed = "balancer" /\ ~skip /\ Fresh(w)
       \/ /\ pc # "proxied" /\ (pc = "panic" => skip)
          /\ w.wire = Answered[failed] /\ Written(w)
  /\ failed \in {"events", "refused"} =>
       pc \notin {"panic", "crashed"} /\ error \notin GatewayErrors /\ w.wire = 0 /\ w.body = << >>
  /\ failed = "unhijackable" /\ pc # "crashed" =>
       \/ pc = "panic" /\ ~skip /\ Written(w) /\ w.wire = 0 /\ w.body = << >>
       \/ pc \in {"tail", "done"} /\ w.wire = StatusOK /\ w.body = <<"recovery">>
  /\ failed = "raw" => w.hijacked /\ w.body = << >> /\ (pc = "panic" => skip)

\* Only a chain that was told to stop panics over a hijacked connection.
Contained ==
  /\ pc = "body" => ~w.hijacked /\ ~skip
  /\ pc = "panic" /\ ~skip => ~w.hijacked
  /\ HijackContained

IInv == TypeOK /\ Sound(w) /\ Opened /\ Untouched /\ Quiet /\ Pending /\ Contained

-----------------------------------------------------------------------------
\* The statuses the gateway answers with.
LEMMA Codes ==
  /\ GatewayErrors \subseteq Statuses /\ Answers \subseteq Statuses
  /\ StatusUnauthorized \in Statuses /\ StatusForbidden \in Statuses
  /\ StatusInternalServerError \in Statuses
  /\ "app" \in Authors /\ "recovery" \in Authors
BY AnswersAssumption
   DEF GatewayErrors, StatusBadGateway, StatusCodeContextCanceled, Statuses, Authors,
       StatusUnauthorized, StatusForbidden, StatusInternalServerError

\* A failure has a page.
LEMMA FailureCodes ==
  \A code \in GatewayErrors \cup {StatusInternalServerError} :
    code # StatusOK /\ bodyAllowedForStatus(code)
BY DEF GatewayErrors, StatusBadGateway, StatusCodeContextCanceled, StatusOK,
       StatusInternalServerError, bodyAllowedForStatus, StatusNoContent, StatusNotModified

\* The failures with a status, and their statuses.
LEMMA FailureKinds ==
  /\ DOMAIN Answered = Reported
  /\ Answered["balancer"] = StatusInternalServerError
  /\ Answered["rewrite"] = StatusInternalServerError
  /\ \A code \in GatewayErrors :
       FailureOf(code) \in {"canceled", "unreachable"} /\ Answered[FailureOf(code)] = code
  /\ \A f \in Reported : Answered[f] # 0
  /\ None \notin Failures /\ None \notin GatewayErrors /\ Reported \subseteq Failures
BY NoneAssumption
   DEF Answered, Reported, FailureOf, Failures, GatewayErrors, StatusBadGateway,
       StatusCodeContextCanceled, StatusInternalServerError

\* The verdict of Auth has a status and a challenge of the right kind.
LEMMA VerdictType ==
  ASSUME TypeOK
  PROVE  /\ Verdict.pass \in BOOLEAN
         /\ Verdict.pass => Verdict.token \in BOOLEAN
         /\ ~Verdict.pass => Verdict.challenge \in Challenges
<1>1. req.cred \in Credentials /\ req.via \in {"header", "parameter"}
  BY ExtractorsAssumption DEF TypeOK, Request
<1>2. Extract(req.via, req.cred) \in {"token", "token_required", "invalid_request"}
  BY DEF Extract
<1>3. CASE ~EnableOptions /\ req.method = "OPTIONS"
  <2>1. Verdict = Passes(FALSE)
    BY <1>3 DEF Verdict, Authenticate
  <2> QED
    BY <2>1 DEF Passes
<1>4. CASE ~(~EnableOptions /\ req.method = "OPTIONS")
          /\ Extract(req.via, req.cred) # "token"
  <2>1. Verdict = Refuses(Extract(req.via, req.cred), FALSE)
    BY <1>4 DEF Verdict, Authenticate
  <2>2. Extract(req.via, req.cred) \in Challenges
    BY <1>2, <1>4 DEF Challenges
  <2>3. Verdict.pass = FALSE /\ Verdict.challenge \in Challenges
    BY <2>1, <2>2 DEF Refuses
  <2> QED
    BY <2>3
<1>5. CASE ~(~EnableOptions /\ req.method = "OPTIONS")
          /\ Extract(req.via, req.cred) = "token"
  <2>1. \/ Verdict = Refuses("invalid_request", FALSE)
        \/ Verdict = Refuses("invalid_token", FALSE)
        \/ Verdict = Refuses("invalid_token", TRUE)
        \/ Verdict = Passes(TRUE)
    BY <1>1, <1>5 DEF Verdict, Authenticate, Credentials
  <2>2. CASE Verdict = Passes(TRUE)
    BY <2>2 DEF Passes
  <2>3. CASE Verdict = Refuses("invalid_request", FALSE)
    <3>1. Verdict.pass = FALSE /\ Verdict.challenge = "invalid_request"
      BY <2>3 DEF Refuses
    <3> QED
      BY <3>1 DEF Challenges
  <2>4. CASE Verdict = Refuses("invalid_token", FALSE)
    <3>1. Verdict.pass = FALSE /\ Verdict.challenge = "invalid_token"
      BY <2>4 DEF Refuses
    <3> QED
      BY <3>1 DEF Challenges
  <2>5. CASE Verdict = Refuses("invalid_token", TRUE)
    <3>1. Verdict.pass = FALSE /\ Verdict.challenge = "invalid_token"
      BY <2>5 DEF Refuses
    <3> QED
      BY <3>1 DEF Challenges
  <2> QED
    BY <2>1, <2>2, <2>3, <2>4, <2>5, Zenon
<1> QED
  BY <1>3, <1>4, <1>5

\* Between requests there is one all the same.
LEMMA NoRequestType == NoRequest \in Request
BY ExtractorsAssumption DEF NoRequest, Request, Credentials, Scopes

\* The initial states satisfy the invariant.
LEMMA InitInv == Init => IInv
<1> SUFFICES ASSUME Init PROVE IInv
  OBVIOUS
<1>1. Sound(w) /\ Fresh(w)
  BY WrapSound DEF Init, Fresh, wrapResponseWriter, Written, noWritten
<1>2. NoRequest \in Request
  BY NoRequestType
<1>3. TypeOK
  <2>1. map \in [Needed -> BOOLEAN] /\ left \in Seq(Kinds) /\ errCh \in Seq(BOOLEAN) /\ Len(errCh) <= 2
    BY DEF Init, newPermissionMap
  <2>2. copy \in [{"up", "down"} -> {"none", "run", "send", "ended"}]
    BY DEF Init, NoCopy
  <2> QED
    BY <1>1, <1>2, <2>1, <2>2 DEF Init, TypeOK, Sound, PCs
<1> QED
  BY <1>1, <1>3, FailureKinds
  DEF Init, IInv, Opened, Untouched, Quiet, Pending, Contained, HijackContained, Early, Taken,
      Failures

\* Steps that leave the response alone.
LEMMA QuietSteps ==
  ASSUME IInv,
         \/ Setup \/ EnterRecovery \/ ChainOver \/ AuthPasses \/ Forward \/ NextPanics
         \/ (\E code \in GatewayErrors : ErrorHandler(code)) \/ BodyBreaks \/ Dial \/ RawFails
         \/ WriteRequest \/ (\E d \in DOMAIN copy : CopyReturns(d) \/ Send(d)) \/ Receive \/ Check
  PROVE  IInv'
<1> SUFFICES ASSUME w' = w PROVE IInv'
  BY DEF Setup, EnterRecovery, ChainOver, AuthPasses, Forward, NextPanics, ErrorHandler,
         BodyBreaks, Dial, RawFails, WriteRequest, CopyReturns, Send, Receive, Check, reply
<1>0. TypeOK /\ Sound(w) /\ Opened /\ Untouched /\ Quiet /\ Pending /\ Contained
  BY DEF IInv
<1>sound. Sound(w)'
  BY <1>0
<1> USE DEF fixed, reply, context, tunnel
<1>1. ASSUME Setup PROVE IInv'
  <2>1. TypeOK'
    BY <1>0, <1>1 DEF TypeOK, PCs, Failures, GatewayErrors, Setup
  <2>2. Opened'
    BY <1>0, <1>1 DEF Opened, Setup
  <2>3. Untouched'
    BY <1>0, <1>1 DEF Untouched, Early, Taken, Setup
  <2>4. Quiet'
    BY <1>0, <1>1, NoneAssumption
    DEF TypeOK, Quiet, Untouched, Early, Taken, NoCopy, GatewayErrors,
       StatusBadGateway, StatusCodeContextCanceled, Other, Setup
  <2>5. Pending'
    BY <1>0, <1>1, FailureKinds
    DEF Pending, Untouched, Early, Taken, Fresh, Failures, Setup
  <2>6. Contained'
    BY <1>0, <1>1
    DEF Contained, HijackContained, Untouched, Early, Taken, Fresh, Setup
  <2> QED
    BY <1>sound, <2>1, <2>2, <2>3, <2>4, <2>5, <2>6 DEF IInv
<1>2. ASSUME EnterRecovery PROVE IInv'
  <2>1. TypeOK'
    BY <1>0, <1>2 DEF TypeOK, PCs, Failures, GatewayErrors, EnterRecovery, At
  <2>2. Opened'
    BY <1>0, <1>2 DEF Opened, EnterRecovery, At
  <2>3. Untouched'
    BY <1>0, <1>2 DEF Untouched, Early, Taken, EnterRecovery, At
  <2>4. Quiet'
    BY <1>0, <1>2, NoneAssumption
    DEF TypeOK, Quiet, Untouched, Early, Taken, NoCopy, GatewayErrors,
       StatusBadGateway, StatusCodeContextCanceled, Other, EnterRecovery, At
  <2>5. Pending'
    BY <1>0, <1>2, FailureKinds
    DEF Pending, Untouched, Early, Taken, Fresh, Failures, EnterRecovery, At
  <2>6. Contained'
    BY <1>0, <1>2
    DEF Contained, HijackContained, Untouched, Early, Taken, Fresh, EnterRecovery, At
  <2> QED
    BY <1>sound, <2>1, <2>2, <2>3, <2>4, <2>5, <2>6 DEF IInv
<1>3. ASSUME ChainOver PROVE IInv'
  <2>1. TypeOK'
    BY <1>0, <1>3 DEF TypeOK, PCs, Failures, GatewayErrors, ChainOver
  <2>2. Opened'
    BY <1>0, <1>3 DEF Opened, ChainOver
  <2>3. Untouched'
    BY <1>0, <1>3 DEF Untouched, Early, Taken, ChainOver
  <2>4. Quiet'
    BY <1>0, <1>3, NoneAssumption
    DEF TypeOK, Quiet, Untouched, Early, Taken, NoCopy, GatewayErrors,
       StatusBadGateway, StatusCodeContextCanceled, Other, ChainOver
  <2>5. Pending'
    BY <1>0, <1>3, FailureKinds
    DEF Pending, Untouched, Early, Taken, Fresh, Failures, ChainOver
  <2>6. Contained'
    BY <1>0, <1>3
    DEF Contained, HijackContained, Untouched, Early, Taken, Fresh, ChainOver
  <2> QED
    BY <1>sound, <2>1, <2>2, <2>3, <2>4, <2>5, <2>6 DEF IInv
<1>4. ASSUME AuthPasses PROVE IInv'
  <2>1. TypeOK'
    BY <1>0, <1>4, VerdictType DEF TypeOK, PCs, Failures, GatewayErrors, AuthPasses, At
  <2>2. Opened'
    BY <1>0, <1>4 DEF Opened, AuthPasses, At
  <2>3. Untouched'
    BY <1>0, <1>4 DEF Untouched, Early, Taken, AuthPasses, At
  <2>4. Quiet'
    BY <1>0, <1>4, NoneAssumption
    DEF TypeOK, Quiet, Untouched, Early, Taken, NoCopy, GatewayErrors,
       StatusBadGateway, StatusCodeContextCanceled, Other, AuthPasses, At
  <2>5. Pending'
    BY <1>0, <1>4, FailureKinds
    DEF Pending, Untouched, Early, Taken, Fresh, Failures, AuthPasses, At
  <2>6. Contained'
    BY <1>0, <1>4
    DEF Contained, HijackContained, Untouched, Early, Taken, Fresh, AuthPasses, At
  <2> QED
    BY <1>sound, <2>1, <2>2, <2>3, <2>4, <2>5, <2>6 DEF IInv
<1>5. ASSUME Forward PROVE IInv'
  <2>1. TypeOK'
    BY <1>0, <1>5 DEF TypeOK, PCs, Failures, GatewayErrors, Forward, At
  <2>2. Opened'
    BY <1>0, <1>5 DEF Opened, Forward, At
  <2>3. Untouched'
    BY <1>0, <1>5 DEF Untouched, Early, Taken, Forward, At
  <2>4. Quiet'
    BY <1>0, <1>5, NoneAssumption
    DEF TypeOK, Quiet, Untouched, Early, Taken, NoCopy, GatewayErrors,
       StatusBadGateway, StatusCodeContextCanceled, Other, Forward, At
  <2>5. Pending'
    <3>1. error = None /\ w.body = << >> /\ w.wire = 0 /\ failed = None
      BY <1>0, <1>5 DEF Untouched, Pending, Early, Fresh, Forward, At
    <3>2. failed' = "events" => pc' = "proxied"
      BY <1>5, <3>1, FailureKinds DEF Forward, Failures
    <3>3. failed' \in {None, "events"} /\ UNCHANGED <<w, error>>
      BY <1>5, <3>1 DEF Forward
    <3> QED
      BY <3>1, <3>2, <3>3, FailureKinds DEF Pending, Reported, Failures
  <2>6. Contained'
    BY <1>0, <1>5
    DEF Contained, HijackContained, Untouched, Early, Taken, Fresh, Forward, At
  <2> QED
    BY <1>sound, <2>1, <2>2, <2>3, <2>4, <2>5, <2>6 DEF IInv
<1>6. ASSUME NextPanics PROVE IInv'
  <2>1. TypeOK'
    BY <1>0, <1>6 DEF TypeOK, PCs, Failures, GatewayErrors, NextPanics, At
  <2>2. Opened'
    BY <1>0, <1>6 DEF Opened, NextPanics, At
  <2>3. Untouched'
    BY <1>0, <1>6 DEF Untouched, Early, Taken, NextPanics, At
  <2>4. Quiet'
    BY <1>0, <1>6, NoneAssumption
    DEF TypeOK, Quiet, Untouched, Early, Taken, NoCopy, GatewayErrors,
       StatusBadGateway, StatusCodeContextCanceled, Other, NextPanics, At
  <2>5. Pending'
    BY <1>0, <1>6, FailureKinds
    DEF Pending, Untouched, Early, Taken, Fresh, Failures, NextPanics, At
  <2>6. Contained'
    BY <1>0, <1>6
    DEF Contained, HijackContained, Untouched, Early, Taken, Fresh, NextPanics, At
  <2> QED
    BY <1>sound, <2>1, <2>2, <2>3, <2>4, <2>5, <2>6 DEF IInv
<1>7. ASSUME NEW code \in GatewayErrors, ErrorHandler(code) PROVE IInv'
  <2>1. TypeOK'
    BY <1>0, <1>7, FailureKinds DEF TypeOK, PCs, Failures, GatewayErrors, ErrorHandler
  <2>2. Opened'
    BY <1>0, <1>7 DEF Opened, ErrorHandler
  <2>3. Untouched'
    BY <1>0, <1>7 DEF Untouched, Early, Taken, ErrorHandler
  <2>4. Quiet'
    BY <1>0, <1>7, NoneAssumption
    DEF TypeOK, Quiet, Untouched, Early, Taken, NoCopy, GatewayErrors,
       StatusBadGateway, StatusCodeContextCanceled, Other, ErrorHandler
  <2>5. Pending'
    BY <1>0, <1>7, FailureKinds
    DEF Pending, Untouched, Early, Taken, Fresh, Failures, ErrorHandler
  <2>6. Contained'
    BY <1>0, <1>7
    DEF Contained, HijackContained, Untouched, Early, Taken, Fresh, ErrorHandler
  <2> QED
    BY <1>sound, <2>1, <2>2, <2>3, <2>4, <2>5, <2>6 DEF IInv
<1>8. ASSUME BodyBreaks PROVE IInv'
  <2>1. TypeOK'
    BY <1>0, <1>8 DEF TypeOK, PCs, Failures, GatewayErrors, BodyBreaks
  <2>2. Opened'
    BY <1>0, <1>8 DEF Opened, BodyBreaks
  <2>3. Untouched'
    BY <1>0, <1>8 DEF Untouched, Early, Taken, BodyBreaks
  <2>4. Quiet'
    BY <1>0, <1>8, NoneAssumption
    DEF TypeOK, Quiet, Untouched, Early, Taken, NoCopy, GatewayErrors,
       StatusBadGateway, StatusCodeContextCanceled, Other, BodyBreaks
  <2>5. Pending'
    BY <1>0, <1>8, FailureKinds
    DEF Pending, Untouched, Early, Taken, Fresh, Failures, BodyBreaks
  <2>6. Contained'
    BY <1>0, <1>8
    DEF Contained, HijackContained, Untouched, Early, Taken, Fresh, BodyBreaks
  <2> QED
    BY <1>sound, <2>1, <2>2, <2>3, <2>4, <2>5, <2>6 DEF IInv
<1>9. ASSUME Dial PROVE IInv'
  <2>1. TypeOK'
    BY <1>0, <1>9 DEF TypeOK, PCs, Failures, GatewayErrors, Dial
  <2>2. Opened'
    BY <1>0, <1>9 DEF Opened, Dial
  <2>3. Untouched'
    BY <1>0, <1>9 DEF Untouched, Early, Taken, Dial
  <2>4. Quiet'
    BY <1>0, <1>9, NoneAssumption
    DEF TypeOK, Quiet, Untouched, Early, Taken, NoCopy, GatewayErrors,
       StatusBadGateway, StatusCodeContextCanceled, Other, Dial
  <2>5. Pending'
    BY <1>0, <1>9, FailureKinds
    DEF Pending, Untouched, Early, Taken, Fresh, Failures, Dial
  <2>6. Contained'
    BY <1>0, <1>9
    DEF Contained, HijackContained, Untouched, Early, Taken, Fresh, Dial
  <2> QED
    BY <1>sound, <2>1, <2>2, <2>3, <2>4, <2>5, <2>6 DEF IInv
<1>10. ASSUME RawFails PROVE IInv'
  <2>1. TypeOK'
    BY <1>0, <1>10 DEF TypeOK, PCs, Failures, GatewayErrors, RawFails, ReturnWith, Shut
  <2>2. Opened'
    BY <1>0, <1>10 DEF Opened, RawFails, ReturnWith, Shut
  <2>3. Untouched'
    BY <1>0, <1>10 DEF Untouched, Early, Taken, RawFails, ReturnWith, Shut
  <2>4. Quiet'
    BY <1>0, <1>10, NoneAssumption
    DEF TypeOK, Quiet, Untouched, Early, Taken, NoCopy, GatewayErrors,
       StatusBadGateway, StatusCodeContextCanceled, Other, RawFails, ReturnWith, Shut
  <2>5. Pending'
    BY <1>0, <1>10, FailureKinds
    DEF Pending, Untouched, Early, Taken, Reported, RawFails, ReturnWith, Shut
  <2>6. Contained'
    BY <1>0, <1>10
    DEF Contained, HijackContained, Untouched, Early, Taken, Fresh, RawFails, ReturnWith, Shut
  <2> QED
    BY <1>sound, <2>1, <2>2, <2>3, <2>4, <2>5, <2>6 DEF IInv
<1>11. ASSUME WriteRequest PROVE IInv'
  <2>1. TypeOK'
    BY <1>0, <1>11 DEF TypeOK, PCs, Failures, GatewayErrors, WriteRequest
  <2>2. Opened'
    BY <1>0, <1>11 DEF Opened, WriteRequest
  <2>3. Untouched'
    BY <1>0, <1>11 DEF Untouched, Early, Taken, WriteRequest
  <2>4. Quiet'
    BY <1>0, <1>11, NoneAssumption
    DEF TypeOK, Quiet, Untouched, Early, Taken, NoCopy, GatewayErrors,
       StatusBadGateway, StatusCodeContextCanceled, Other, WriteRequest
  <2>5. Pending'
    BY <1>0, <1>11, FailureKinds
    DEF Pending, Untouched, Early, Taken, Fresh, Failures, WriteRequest
  <2>6. Contained'
    BY <1>0, <1>11
    DEF Contained, HijackContained, Untouched, Early, Taken, Fresh, WriteRequest
  <2> QED
    BY <1>sound, <2>1, <2>2, <2>3, <2>4, <2>5, <2>6 DEF IInv
<1>12. ASSUME NEW d \in DOMAIN copy, CopyReturns(d) PROVE IInv'
  <2>1. TypeOK'
    BY <1>0, <1>12 DEF TypeOK, PCs, Failures, GatewayErrors, CopyReturns
  <2>2. Opened'
    BY <1>0, <1>12 DEF Opened, CopyReturns
  <2>3. Untouched'
    BY <1>0, <1>12 DEF Untouched, Early, Taken, CopyReturns
  <2>4. Quiet'
    BY <1>0, <1>12, NoneAssumption
    DEF TypeOK, Quiet, Untouched, Early, Taken, NoCopy, GatewayErrors,
       StatusBadGateway, StatusCodeContextCanceled, Other, CopyReturns
  <2>5. Pending'
    BY <1>0, <1>12, FailureKinds
    DEF Pending, Untouched, Early, Taken, Fresh, Failures, CopyReturns
  <2>6. Contained'
    BY <1>0, <1>12
    DEF Contained, HijackContained, Untouched, Early, Taken, Fresh, CopyReturns
  <2> QED
    BY <1>sound, <2>1, <2>2, <2>3, <2>4, <2>5, <2>6 DEF IInv
<1>13. ASSUME NEW d \in DOMAIN copy, Send(d) PROVE IInv'
  <2>1. TypeOK'
    BY <1>0, <1>13 DEF TypeOK, PCs, Failures, GatewayErrors, Send, Capacity
  <2>2. Opened'
    BY <1>0, <1>13 DEF Opened, Send, Capacity
  <2>3. Untouched'
    BY <1>0, <1>13 DEF Untouched, Early, Taken, Send, Capacity
  <2>4. Quiet'
    BY <1>0, <1>13, NoneAssumption
    DEF TypeOK, Quiet, Untouched, Early, Taken, NoCopy, GatewayErrors,
       StatusBadGateway, StatusCodeContextCanceled, Other, Send, Capacity
  <2>5. Pending'
    BY <1>0, <1>13, FailureKinds
    DEF Pending, Untouched, Early, Taken, Fresh, Failures, Send, Capacity
  <2>6. Contained'
    BY <1>0, <1>13
    DEF Contained, HijackContained, Untouched, Early, Taken, Fresh, Send, Capacity
  <2> QED
    BY <1>sound, <2>1, <2>2, <2>3, <2>4, <2>5, <2>6 DEF IInv
<1>14. ASSUME Receive PROVE IInv'
  <2>1. TypeOK'
    BY <1>0, <1>14 DEF TypeOK, PCs, Failures, GatewayErrors, Receive
  <2>2. Opened'
    BY <1>0, <1>14 DEF Opened, Receive
  <2>3. Untouched'
    BY <1>0, <1>14 DEF Untouched, Early, Taken, Receive
  <2>4. Quiet'
    BY <1>0, <1>14, NoneAssumption
    DEF TypeOK, Quiet, Untouched, Early, Taken, NoCopy, GatewayErrors,
       StatusBadGateway, StatusCodeContextCanceled, Other, Receive
  <2>5. Pending'
    BY <1>0, <1>14, FailureKinds
    DEF Pending, Untouched, Early, Taken, Fresh, Failures, Receive
  <2>6. Contained'
    BY <1>0, <1>14
    DEF Contained, HijackContained, Untouched, Early, Taken, Fresh, Receive
  <2> QED
    BY <1>sound, <2>1, <2>2, <2>3, <2>4, <2>5, <2>6 DEF IInv
<1>15. ASSUME Check PROVE IInv'
  <2>1. TypeOK'
    BY <1>0, <1>15 DEF TypeOK, PCs, Failures, GatewayErrors, Check, ReturnWith, Shut, TunnelError
  <2>2. Opened'
    BY <1>0, <1>15 DEF Opened, Check, ReturnWith, Shut, TunnelError
  <2>3. Untouched'
    BY <1>0, <1>15 DEF Untouched, Early, Taken, Check, ReturnWith, Shut, TunnelError
  <2>4. Quiet'
    BY <1>0, <1>15, NoneAssumption
    DEF TypeOK, Quiet, Untouched, Early, Taken, NoCopy, GatewayErrors,
       StatusBadGateway, StatusCodeContextCanceled, Other, Check, ReturnWith, Shut,
          TunnelError
  <2>5. Pending'
    BY <1>0, <1>15, FailureKinds
    DEF Pending, Untouched, Early, Taken, Fresh, Failures, Check, ReturnWith, Shut,
       TunnelError
  <2>6. Contained'
    BY <1>0, <1>15
    DEF Contained, HijackContained, Untouched, Early, Taken, Fresh, Check, ReturnWith, Shut,
       TunnelError
  <2> QED
    BY <1>sound, <2>1, <2>2, <2>3, <2>4, <2>5, <2>6 DEF IInv
<1> QED
  BY <1>1, <1>2, <1>3, <1>4, <1>5, <1>6, <1>7, <1>8, <1>9, <1>10, <1>11, <1>12, <1>13,
     <1>14, <1>15

\* Steps that change the response.
LEMMA LoudSteps ==
  ASSUME IInv,
         \/ Arrive \/ Reset \/ Recover \/ Finish \/ AuthRefuses \/ Permission \/ PermissionPanics
         \/ RewriteFails \/ Answer \/ CopyBody \/ Proxied \/ HijackConn \/ Breaks
  PROVE  IInv'
<1>0. TypeOK /\ Sound(w) /\ Opened /\ Untouched /\ Quiet /\ Pending /\ Contained
  BY DEF IInv
<1> USE DEF fixed, reply, context, tunnel
<1>1. ASSUME Arrive PROVE IInv'
  <2>1. Sound(w)' /\ Fresh(w)'
    BY <1>1, WrapSound DEF Arrive, Fresh, wrapResponseWriter, Written, noWritten
  <2>2. TypeOK'
    BY <1>0, <1>1, <2>1, ChainsAssumption DEF TypeOK, Sound, PCs, Failures, Challenges, Arrive
  <2>3. Opened'
    BY <1>0, <1>1 DEF Opened, Arrive
  <2>4. Untouched'
    BY <1>0, <1>1, <2>1 DEF Untouched, Early, Taken, Arrive
  <2>5. Quiet'
    BY <1>0, <1>1, <2>1 DEF Quiet, Untouched, Early, Taken, Arrive
  <2>6. Pending'
    BY <1>0, <1>1, <2>1, FailureKinds
    DEF Pending, Untouched, Early, Taken, Fresh, Failures, Arrive
  <2>7. Contained'
    BY <1>0, <1>1, <2>1
    DEF Contained, HijackContained, Untouched, Early, Taken, Fresh, Arrive
  <2> QED
    BY <2>1, <2>2, <2>3, <2>4, <2>5, <2>6, <2>7 DEF IInv
<1>2. ASSUME Reset PROVE IInv'
  <2>1. Sound(w)' /\ Fresh(w)'
    BY <1>2, WrapSound DEF Reset, Fresh, wrapResponseWriter, Written, noWritten
  <2>2. TypeOK'
    <3>1. NoCopy \in [{"up", "down"} -> {"none", "run", "send", "ended"}]
      BY DEF NoCopy
    <3>2. left' \in Seq(Kinds) /\ errCh' \in Seq(BOOLEAN) /\ Len(errCh') <= 2
      BY <1>2 DEF Reset
    <3> QED
      BY <1>0, <1>2, <2>1, <3>1, <3>2, NoRequestType DEF TypeOK, Sound, PCs, Failures, Reset
  <2>3. Opened'
    BY <1>0, <1>2 DEF Opened, Reset, NoCopy
  <2>4. Untouched'
    BY <1>0, <1>2, <2>1 DEF Untouched, Early, Taken, Reset, NoCopy
  <2>5. Quiet'
    BY <1>0, <1>2, <2>1 DEF Quiet, Untouched, Early, Taken, Reset, NoCopy
  <2>6. Pending'
    BY <1>0, <1>2, <2>1, FailureKinds
    DEF Pending, Untouched, Early, Taken, Fresh, Failures, Reset, NoCopy
  <2>7. Contained'
    BY <1>0, <1>2, <2>1
    DEF Contained, HijackContained, Untouched, Early, Taken, Fresh, Reset, NoCopy
  <2> QED
    BY <2>1, <2>2, <2>3, <2>4, <2>5, <2>6, <2>7 DEF IInv
<1>3. ASSUME Recover PROVE IInv'
  <2> DEFINE code == StatusInternalServerError
  <2>1. Sound(w)' /\ w'.hijacked = w.hijacked
    BY <1>0, <1>3, Codes, RenderSound, RenderKeeps DEF Recover, Sends
  <2>a. code \in Statuses /\ code # StatusOK /\ bodyAllowedForStatus(code) /\ "recovery" \in Authors
    BY Codes, FailureCodes
  <2>f. Fresh(w) => /\ Render(w, code, "recovery").wire = code
                    /\ Written(Render(w, code, "recovery"))
    BY <1>0, <2>a, RenderFresh
  <2>m. Written(w) /\ w.wire = 0 /\ ~w.hijacked /\ RenderOK(w, code) =>
          /\ Render(w, code, "recovery").wire = StatusOK
          /\ Render(w, code, "recovery").body = Append(w.body, "recovery")
    BY <1>0, <2>a, RenderMarked
  <2>r. ~RenderOK(w, code) => ~AcceptsBody(Render(w, code, "recovery"))
    BY <1>0, <2>a, RenderRefused
  <2>2. TypeOK'
    <3>1. pc' \in PCs /\ skip' \in BOOLEAN
      BY <1>0, <1>3 DEF TypeOK, PCs, Recover
    <3>2. header' = header /\ challenge' \in {header, challenge}
      BY <1>3 DEF Recover, Sends
    <3> QED
      BY <1>0, <1>3, <2>1, <3>1, <3>2 DEF TypeOK, Sound, Recover
  <2>3. Opened'
    BY <1>0, <1>3 DEF Opened, Recover, Sends
  <2>4. Untouched'
    BY <1>0, <1>3, <2>1 DEF Untouched, Early, Taken, Recover, Sends
  <2>5. Quiet'
    BY <1>0, <1>3, <2>1 DEF Quiet, Untouched, Early, Taken, Recover, Sends
  <2>6. CASE ~skip /\ chain[1] = "recovery"
    <3>1. /\ pc = "panic" /\ skip' = TRUE /\ w' = Render(w, code, "recovery")
          /\ pc' = (IF RenderOK(w, code) THEN "tail" ELSE "crashed")
          /\ UNCHANGED <<chain, error, failed>>
      BY <1>3, <2>6 DEF Recover, Sends
    <3> HIDE DEF code
    <3>2. Contained'
      BY <1>0, <2>1, <2>6, <2>r, <3>1 DEF Contained, HijackContained
    <3>3. Pending'
      <4>1. failed \in Reported => failed = "balancer" /\ Fresh(w)
        BY <1>0, <2>6, <3>1 DEF Pending
      <4>2. failed \in Reported /\ pc' = "tail" => w'.wire = Answered[failed] /\ Written(w)'
        BY <2>f, <3>1, <4>1, FailureKinds DEF code
      <4>3. failed = "unhijackable" /\ pc' = "tail" => w'.wire = StatusOK /\ w'.body = <<"recovery">>
        BY <1>0, <2>6, <2>m, <3>1 DEF Pending, Contained
      <4>4. failed \notin {"events", "refused", "raw"}
        BY <1>0, <2>6, <3>1 DEF Pending
      <4> QED
        BY <3>1, <4>2, <4>3, <4>4 DEF Pending, Reported
    <3> QED
      BY <2>1, <2>2, <2>3, <2>4, <2>5, <3>2, <3>3 DEF IInv
  <2>7. CASE ~(~skip /\ chain[1] = "recovery")
    <3>1. /\ pc = "panic" /\ UNCHANGED <<w, skip, chain, error, failed>>
          /\ pc' = (IF chain[1] # "recovery" THEN "crashed" ELSE "tail")
          /\ (chain[1] = "recovery" => skip)
      BY <1>3, <2>7 DEF Recover
    <3>2. Contained'
      BY <1>0, <3>1 DEF Contained, HijackContained
    <3>3. Pending'
      BY <1>0, <3>1 DEF Pending, Reported
    <3> QED
      BY <2>1, <2>2, <2>3, <2>4, <2>5, <3>2, <3>3 DEF IInv
  <2> QED
    BY <2>6, <2>7
<1>4. ASSUME Finish PROVE IInv'
  <2>1. Sound(w)' /\ w'.hijacked = w.hijacked
        /\ w'.body = w.body /\ (Written(w) => w' = w)
    BY <1>0, <1>4, WriteHeaderNowSound, StatusKeeps, WrittenStays DEF Finish, Sends, Sound
  <2>w. w'.wire = w.wire
    BY <1>0, <1>4, NowKeepsWire DEF Finish, Sends
  <2>2. TypeOK'
    BY <1>0, <1>4, <2>1 DEF TypeOK, Sound, PCs, Failures, Challenges, Finish, Sends
  <2>3. Opened'
    BY <1>0, <1>4 DEF Opened, Finish, Sends
  <2>4. Untouched'
    BY <1>0, <1>4, <2>1 DEF Untouched, Early, Taken, Finish, Sends
  <2>5. Quiet'
    BY <1>0, <1>4, <2>1 DEF Quiet, Untouched, Early, Taken, Finish, Sends
  <2>6. Pending'
    BY <1>0, <1>4, <2>1, <2>w, FailureKinds
    DEF Pending, Untouched, Early, Taken, Fresh, Failures, Finish, Sends
  <2>7. Contained'
    BY <1>0, <1>4, <2>1
    DEF Contained, HijackContained, Untouched, Early, Taken, Fresh, Finish, Sends
  <2> QED
    BY <2>1, <2>2, <2>3, <2>4, <2>5, <2>6, <2>7 DEF IInv
<1>5. ASSUME AuthRefuses PROVE IInv'
  <2>1. Sound(w)' /\ w'.hijacked = w.hijacked
    <3>1. CASE Verdict.late
      <4>1. w' = WriteHeader(w, StatusUnauthorized)
        BY <1>5, <3>1 DEF AuthRefuses
      <4>2. /\ Sound(WriteHeader(w, StatusUnauthorized))
            /\ WriteHeader(w, StatusUnauthorized).hijacked = w.hijacked
        BY <1>0, Codes, WriteHeaderSound, StatusKeeps DEF Sound
      <4> QED
        BY <4>1, <4>2
    <3>2. CASE ~Verdict.late
      BY <1>0, <1>5, <3>2, Codes, RenderSound, RenderKeeps DEF AuthRefuses, Sends
    <3> QED
      BY <3>1, <3>2
  <2>2. TypeOK'
    BY <1>0, <1>5, <2>1, VerdictType
    DEF TypeOK, Sound, PCs, Failures, Challenges, AuthRefuses, At, Sends
  <2>3. Opened'
    BY <1>0, <1>5 DEF Opened, AuthRefuses, At, Sends
  <2>4. Untouched'
    BY <1>0, <1>5, <2>1 DEF Untouched, Early, Taken, AuthRefuses, At, Sends
  <2>5. Quiet'
    BY <1>0, <1>5, <2>1 DEF Quiet, Untouched, Early, Taken, AuthRefuses, At, Sends
  <2>6. Pending'
    BY <1>0, <1>5, <2>1, FailureKinds
    DEF Pending, Untouched, Early, Taken, Fresh, Failures, AuthRefuses, At, Sends
  <2>7. Contained'
    BY <1>0, <1>5, <2>1
    DEF Contained, HijackContained, Untouched, Early, Taken, Fresh, AuthRefuses, At, Sends
  <2> QED
    BY <2>1, <2>2, <2>3, <2>4, <2>5, <2>6, <2>7 DEF IInv
<1>6. ASSUME Permission PROVE IInv'
  <2>1. Sound(w)' /\ w'.hijacked = w.hijacked /\ (~skip' => w' = w)
    <3>1. /\ Sound(WriteHeader(w, StatusForbidden))
          /\ WriteHeader(w, StatusForbidden).hijacked = w.hijacked
      BY <1>0, Codes, WriteHeaderSound, StatusKeeps DEF Sound
    <3>2. CASE IsDenied(Granted(map, req.scopes))
      <4>1. w' = WriteHeader(w, StatusForbidden) /\ skip' = TRUE
        BY <1>6, <3>2 DEF Permission
      <4> QED
        BY <3>1, <4>1
    <3>3. CASE ~IsDenied(Granted(map, req.scopes))
      <4>1. w' = w
        BY <1>6, <3>3 DEF Permission
      <4> QED
        BY <1>0, <4>1
    <3> QED
      BY <3>2, <3>3
  <2>2. TypeOK'
    <3>1. skip' \in BOOLEAN /\ challenge' = challenge
      BY <1>0, <1>6 DEF TypeOK, Permission
    <3>2. header' \in {header, "insufficient_scope"}
      BY <1>6 DEF Permission
    <3>3. left' \in Seq(Kinds)
      BY <1>0, <1>6 DEF TypeOK, Permission, At
    <3> QED
      BY <1>0, <1>6, <2>1, <3>1, <3>2, <3>3 DEF TypeOK, Sound, Challenges, Permission
  <2>3. Opened'
    BY <1>0, <1>6 DEF Opened, Permission, At
  <2>4. Untouched'
    BY <1>0, <1>6, <2>1 DEF Untouched, Early, Taken, Permission, At
  <2>5. Quiet'
    BY <1>0, <1>6, <2>1 DEF Quiet, Untouched, Early, Taken, Permission, At
  <2>6. Pending'
    BY <1>0, <1>6, <2>1, FailureKinds
    DEF Pending, Untouched, Early, Taken, Fresh, Failures, Permission, At
  <2>7. Contained'
    BY <1>0, <1>6, <2>1
    DEF Contained, HijackContained, Untouched, Early, Taken, Fresh, Permission, At
  <2> QED
    BY <2>1, <2>2, <2>3, <2>4, <2>5, <2>6, <2>7 DEF IInv
<1>7. ASSUME PermissionPanics PROVE IInv'
  <2>1. Sound(w)' /\ w'.hijacked = w.hijacked
    BY <1>0, <1>7, Codes, WriteHeaderSound, StatusKeeps DEF PermissionPanics, Sends, Sound
  <2>2. TypeOK'
    BY <1>0, <1>7, <2>1 DEF TypeOK, Sound, PCs, Failures, Challenges, PermissionPanics, At, Sends
  <2>3. Opened'
    BY <1>0, <1>7 DEF Opened, PermissionPanics, At, Sends
  <2>4. Untouched'
    BY <1>0, <1>7, <2>1 DEF Untouched, Early, Taken, PermissionPanics, At, Sends
  <2>5. Quiet'
    BY <1>0, <1>7, <2>1 DEF Quiet, Untouched, Early, Taken, PermissionPanics, At, Sends
  <2>6. Pending'
    BY <1>0, <1>7, <2>1, FailureKinds
    DEF Pending, Untouched, Early, Taken, Fresh, Failures, PermissionPanics, At, Sends
  <2>7. Contained'
    BY <1>0, <1>7, <2>1
    DEF Contained, HijackContained, Untouched, Early, Taken, Fresh, PermissionPanics, At, Sends
  <2> QED
    BY <2>1, <2>2, <2>3, <2>4, <2>5, <2>6, <2>7 DEF IInv
<1>8. ASSUME RewriteFails PROVE IInv'
  <2>1. Sound(w)' /\ w'.hijacked = w.hijacked
        /\ (~w.hijacked => w'.wire = StatusInternalServerError /\ Written(w)')
    BY <1>0, <1>8, Codes, FailureCodes, RenderSound, RenderKeeps, RenderFresh
    DEF RewriteFails, At, Sends, Untouched, Early
  <2>2. TypeOK'
    BY <1>0, <1>8, <2>1 DEF TypeOK, Sound, PCs, Failures, Challenges, RewriteFails, At, Sends
  <2>3. Opened'
    BY <1>0, <1>8 DEF Opened, RewriteFails, At, Sends
  <2>4. Untouched'
    BY <1>0, <1>8, <2>1 DEF Untouched, Early, Taken, RewriteFails, At, Sends
  <2>5. Quiet'
    BY <1>0, <1>8, <2>1 DEF Quiet, Untouched, Early, Taken, RewriteFails, At, Sends
  <2>6. Pending'
    BY <1>0, <1>8, <2>1, FailureKinds
    DEF Pending, Untouched, Early, Taken, Fresh, Failures, RewriteFails, At, Sends
  <2>7. Contained'
    BY <1>0, <1>8, <2>1
    DEF Contained, HijackContained, Untouched, Early, Taken, Fresh, RewriteFails, At, Sends
  <2> QED
    BY <2>1, <2>2, <2>3, <2>4, <2>5, <2>6, <2>7 DEF IInv
<1>9. ASSUME Answer PROVE IInv'
  <2>1. Sound(w)' /\ w'.hijacked = w.hijacked
    <3>1. PICK code \in Answers : w' = WriteHeader(w, code)
      BY <1>9 DEF Answer, Sends
    <3> QED
      BY <1>0, <3>1, Codes, WriteHeaderSound, StatusKeeps DEF Sound
  <2>2. TypeOK'
    BY <1>0, <1>9, <2>1 DEF TypeOK, Sound, PCs, Failures, Challenges, Answer, Sends
  <2>3. Opened'
    BY <1>0, <1>9 DEF Opened, Answer, Sends
  <2>4. Untouched'
    BY <1>0, <1>9, <2>1 DEF Untouched, Early, Taken, Answer, Sends
  <2>5. Quiet'
    BY <1>0, <1>9, <2>1 DEF Quiet, Untouched, Early, Taken, Answer, Sends
  <2>6. Pending'
    BY <1>0, <1>9, <2>1, FailureKinds
    DEF Pending, Untouched, Early, Taken, Fresh, Failures, Answer, Sends
  <2>7. Contained'
    BY <1>0, <1>9, <2>1
    DEF Contained, HijackContained, Untouched, Early, Taken, Fresh, Answer, Sends
  <2> QED
    BY <2>1, <2>2, <2>3, <2>4, <2>5, <2>6, <2>7 DEF IInv
<1>10. ASSUME CopyBody PROVE IInv'
  <2>1. Sound(w)' /\ w'.hijacked = w.hijacked
    BY <1>0, <1>10, Codes, WriteSound, RenderKeeps DEF CopyBody, Sends
  <2>2. TypeOK'
    BY <1>0, <1>10, <2>1 DEF TypeOK, Sound, PCs, Failures, Challenges, CopyBody, Sends
  <2>3. Opened'
    BY <1>0, <1>10 DEF Opened, CopyBody, Sends
  <2>4. Untouched'
    BY <1>0, <1>10, <2>1 DEF Untouched, Early, Taken, CopyBody, Sends
  <2>5. Quiet'
    BY <1>0, <1>10, <2>1 DEF Quiet, Untouched, Early, Taken, CopyBody, Sends
  <2>6. Pending'
    BY <1>0, <1>10, <2>1, FailureKinds
    DEF Pending, Untouched, Early, Taken, Fresh, Failures, CopyBody, Sends
  <2>7. Contained'
    BY <1>0, <1>10, <2>1
    DEF Contained, HijackContained, Untouched, Early, Taken, Fresh, CopyBody, Sends
  <2> QED
    BY <2>1, <2>2, <2>3, <2>4, <2>5, <2>6, <2>7 DEF IInv
<1>11. ASSUME Proxied PROVE IInv'
  <2>1. Sound(w)' /\ w'.hijacked = w.hijacked
        /\ (error \notin GatewayErrors => w' = w)
        /\ (error \in GatewayErrors /\ Fresh(w) => w'.wire = error /\ Written(w)')
        /\ (w.hijacked => w'.body = w.body)
    BY <1>0, <1>11, Codes, FailureCodes, RenderSound, RenderKeeps, RenderFresh, RenderHijacked
    DEF Proxied, Sends
  <2>2. TypeOK'
    BY <1>0, <1>11, <2>1 DEF TypeOK, Sound, PCs, Failures, Challenges, Proxied, Sends
  <2>3. Opened'
    BY <1>0, <1>11 DEF Opened, Proxied, Sends
  <2>4. Untouched'
    BY <1>0, <1>11, <2>1 DEF Untouched, Early, Taken, Proxied, Sends
  <2>5. Quiet'
    BY <1>0, <1>11, <2>1 DEF Quiet, Untouched, Early, Taken, Proxied, Sends
  <2>6. Pending'
    BY <1>0, <1>11, <2>1, FailureKinds
    DEF Pending, Untouched, Early, Taken, Fresh, Failures, Proxied, Sends
  <2>7. Contained'
    BY <1>0, <1>11, <2>1
    DEF Contained, HijackContained, Untouched, Early, Taken, Fresh, Proxied, Sends
  <2> QED
    BY <2>1, <2>2, <2>3, <2>4, <2>5, <2>6, <2>7 DEF IInv
<1>12. ASSUME HijackConn PROVE IInv'
  <2>1. Fresh(w) /\ w.body = << >> /\ copy = NoCopy /\ error = None /\ failed = None /\ ~skip
    BY <1>0, <1>12 DEF HijackConn, Untouched, Quiet, Pending, Early, Fresh
  <2>2. /\ Sound(w)' /\ w'.body = << >> /\ w'.wire = 0 /\ Written(w')
        /\ (pc' = "dial" => w'.hijacked) /\ (pc' = "panic" => ~w'.hijacked)
    <3>1. Sound(Hijack(w)) /\ Hijack(w).body = w.body /\ Hijack(w).wire = w.wire
          /\ (w.hijackable => Hijack(w).hijacked) /\ (~w.hijackable => ~Hijack(w).hijacked)
          /\ Written(Hijack(w))
      <4> DEFINE v == [w EXCEPT !.size = IF @ < 0 THEN 0 ELSE @]
      <4>1. w \in Response /\ v \in Response /\ v.body = w.body /\ v.wire = w.wire
            /\ v.hijacked = w.hijacked /\ v.size >= 0 /\ v.size \in Int
        BY <1>0 DEF Sound, Response
      <4>2. Hijack(w) = IF w.hijackable THEN [v EXCEPT !.hijacked = TRUE] ELSE v
        BY DEF Hijack
      <4>3. Sound(Hijack(w)) /\ ~w.hijacked
        BY <1>0, <2>1, HijackSound DEF Fresh
      <4> HIDE DEF v
      <4> QED
        BY <4>1, <4>2, <4>3 DEF Response, Written, noWritten
    <3>2. Sound([w EXCEPT !.size = IF @ < 0 THEN 0 ELSE @])
          /\ [w EXCEPT !.size = IF @ < 0 THEN 0 ELSE @].body = w.body
          /\ [w EXCEPT !.size = IF @ < 0 THEN 0 ELSE @].wire = w.wire
          /\ Written([w EXCEPT !.size = IF @ < 0 THEN 0 ELSE @])
      BY <1>0, <2>1 DEF Sound, Response, Written, noWritten
    <3> QED
      BY <1>12, <2>1, <3>1, <3>2 DEF HijackConn, Sends, Fresh
  <2>3. TypeOK'
    BY <1>0, <1>12, <2>2 DEF TypeOK, Sound, PCs, Failures, HijackConn, Sends
  <2>4. Opened'
    BY <1>0, <1>12 DEF Opened, HijackConn, Sends
  <2>5. Untouched'
    BY <1>0, <1>12, <2>1, <2>2 DEF Untouched, Early, Taken, HijackConn, Sends
  <2>6. Quiet'
    BY <1>12, <2>1 DEF Quiet, HijackConn, Sends
  <2>7. Pending'
    <3>1. /\ \/ pc' = "dial" /\ failed' = None
             \/ pc' = "panic" /\ failed' = "unhijackable"
             \/ pc' = "proxied" /\ failed' = "refused" /\ error' = Other
          /\ skip' = skip
      BY <1>12, <2>1 DEF HijackConn
    <3>2. Other \notin GatewayErrors
      BY DEF Other, GatewayErrors, StatusBadGateway, StatusCodeContextCanceled
    <3> QED
      BY <2>1, <2>2, <3>1, <3>2, FailureKinds DEF Pending, Reported, Failures
  <2>8. Contained'
    BY <1>12, <2>1, <2>2 DEF Contained, HijackContained, HijackConn, Sends
  <2> QED
    BY <2>2, <2>3, <2>4, <2>5, <2>6, <2>7, <2>8 DEF IInv
<1>13. ASSUME Breaks PROVE IInv'
  <2>1. /\ Sound(w)' /\ w'.body = w.body /\ w'.wire = w.wire /\ w'.hijacked = w.hijacked
        /\ (Written(w') <=> Written(w))
    BY <1>0, <1>13, BreakSound DEF Breaks, Written
  <2>2. TypeOK'
    BY <1>0, <1>13, <2>1 DEF TypeOK, Sound, Breaks
  <2>3. Opened'
    BY <1>0, <1>13 DEF Opened, Breaks
  <2>4. Untouched'
    BY <1>0, <1>13, <2>1 DEF Untouched, Fresh, Breaks
  <2>5. Quiet'
    BY <1>0, <1>13, <2>1 DEF Quiet, Breaks
  <2>6. Pending'
    BY <1>0, <1>13, <2>1 DEF Pending, Fresh, Breaks
  <2>7. Contained'
    BY <1>0, <1>13, <2>1 DEF Contained, HijackContained, Breaks
  <2> QED
    BY <2>1, <2>2, <2>3, <2>4, <2>5, <2>6, <2>7 DEF IInv
<1> QED
  BY <1>1, <1>2, <1>3, <1>4, <1>5, <1>6, <1>7, <1>8, <1>9, <1>10, <1>11, <1>12, <1>13

\* Every step keeps the invariant.
LEMMA NextInv == IInv /\ [Next]_vars => IInv'
<1>1. ASSUME IInv, UNCHANGED vars PROVE IInv'
  <2>1. TypeOK' /\ Sound(w)'
    BY <1>1 DEF IInv, TypeOK, vars, fixed, reply, context, tunnel
  <2>2. Opened' /\ Untouched' /\ Quiet' /\ Pending' /\ Contained'
    BY <1>1
    DEF IInv, Opened, Untouched, Quiet, Pending, Contained, HijackContained, vars, fixed,
        reply, context, tunnel
  <2> QED
    BY <2>1, <2>2 DEF IInv
<1>2. ASSUME IInv, Handler PROVE IInv'
  BY <1>2, QuietSteps, LoudSteps DEF Handler
<1>3. ASSUME IInv, NEW d \in DOMAIN copy, PeerEnds(d) \/ Copier(d) PROVE IInv'
  BY <1>3, QuietSteps DEF PeerEnds, Copier, CopyFails
<1> QED
  BY <1>1, <1>2, <1>3, QuietSteps, LoudSteps DEF Next, Terminated

-----------------------------------------------------------------------------
(* The theorems.                                                           *)

\* The invariant holds of every behaviour of the gateway.
\* (proxy.go:179-304, auth.go:141-231, permission.go:36-63)
THEOREM GatewayInvariant == Spec => []IInv
<1> QED
  BY InitInv, NextInv, PTL DEF Spec

\* Every variable keeps its type. (proxy.go:179-304, auth.go:141-231)
THEOREM GatewayTypes == Spec => []TypeOK
<1>1. IInv => TypeOK
  BY DEF IInv
<1> QED
  BY <1>1, GatewayInvariant, PTL

\* In any chain a request that could not be forwarded is answered with the
\* status of the failure, but for the three that Proxy overlooks, which end in
\* 200, and for the failures after a hijack, which nobody can answer.
\* (proxy.go:214-239, 246-264, 284-304)
THEOREM FailuresAnswered == Spec => []FailureAnswered
<1>1. IInv => FailureAnswered
  <2> SUFFICES ASSUME IInv, pc = "done" PROVE FailureAnswered
    BY DEF FailureAnswered
  <2>1. Pending
    BY DEF IInv
  <2>2. failed \in DOMAIN Answered => SentStatus(w) = Answered[failed]
    BY <2>1, FailureKinds DEF Pending, SentStatus
  <2>3. failed \in Overlooked =>
          /\ SentStatus(w) = StatusOK
          /\ w.body = IF failed = "unhijackable" THEN <<"recovery">> ELSE << >>
    BY <2>1 DEF Pending, SentStatus, Overlooked, StatusOK
  <2>4. failed = "raw" => w.hijacked /\ w.body = << >>
    BY <2>1 DEF Pending
  <2> QED
    BY <2>2, <2>3, <2>4 DEF FailureAnswered
<1> QED
  BY <1>1, GatewayInvariant, PTL

\* Behind Recovery no panic over a hijacked connection leaves ServeHTTP, and no
\* other one while the client can be sent an answer.
\* (proxy.go:235-239, context.go:224-240, middleware.go:51-69)
THEOREM HijacksContained == Spec => []HijackContained
<1>1. IInv => HijackContained
  BY DEF IInv, Contained
<1> QED
  BY <1>1, GatewayInvariant, PTL

\* Both connections are closed once a request is over, on every path through
\* proxyRaw. (proxy.go:246-265)
THEOREM ConnectionsAllClosed == Spec => []ConnectionsClosed
<1>1. IInv => ConnectionsClosed
  BY DEF IInv, Opened, ConnectionsClosed
<1> QED
  BY <1>1, GatewayInvariant, PTL

\* A tunnel ends without an answer and without a panic, whichever way its
\* goroutines and its handler interleave. (proxy.go:267-279, 235-239)
THEOREM TunnelsSilent == Spec => []TunnelSilent
<1>1. IInv => TunnelSilent
  BY DEF IInv, Quiet, TunnelSilent
<1> QED
  BY <1>1, GatewayInvariant, PTL

-----------------------------------------------------------------------------
(* The gate.                                                               *)

Checks == {"auth", "permission"}

Verified == req.cred = "valid" /\ (EnableOptions \/ req.method # "OPTIONS")
Exempt   == ~EnableOptions /\ req.method = "OPTIONS"

\* What is certain of a request once a check has let it through.
Passed(kind) ==
  IF kind = "auth" THEN Verified \/ Exempt
  ELSE In("auth") /\ Verified /\ Needed \subseteq req.scopes

Ahead(kind) == \E k \in DOMAIN left : left[k] = kind

\* A check told the chain to stop, and its status is on the wire.
Turned == skip /\ w.wire \in {StatusUnauthorized, StatusForbidden}

\* The handlers still to run are the end of the chain.
Remaining ==
  /\ \A k \in DOMAIN left : In(left[k])
  /\ Guarded =>
       \A j, k \in DOMAIN left : left[j] \in Checks /\ left[k] = "proxy" => j < k

\* Of a request under way one of three things holds: all its checks are passed,
\* it is turned away, or the checks it has not passed are still ahead.
Gated ==
  \/ Authorised
  \/ Turned /\ pc \in {"next", "panic", "tail", "done", "crashed"}
  \/ /\ pc = "next" /\ ~skip
     /\ \A kind \in Checks : In(kind) => Ahead(kind) \/ Passed(kind)

GateInv ==
  /\ map = newPermissionMap
  /\ Remaining
  /\ token => In("auth") /\ Verified
  /\ pc \in {"setup", "failed", "idle"} => ~reached /\ ~token
  /\ Guarded => (reached => Authorised)
  /\ Guarded /\ pc \notin {"setup", "failed", "idle"} => Gated

\* Auth lets a request through when its token is verified, or when it is exempt.
LEMMA VerdictSays ==
  ASSUME TypeOK, Verdict.pass
  PROVE  Passed("auth") /\ (Verdict.token => Verified)
<1>1. req.cred \in Credentials /\ req.via \in {"header", "parameter"}
  BY ExtractorsAssumption DEF TypeOK, Request
<1>2. CASE Exempt
  <2>1. Verdict = Passes(FALSE)
    BY <1>2 DEF Exempt, Verdict, Authenticate
  <2>2. Verdict.token = FALSE
    BY <2>1 DEF Passes
  <2> QED
    BY <1>2, <2>2 DEF Passed
<1>3. CASE ~Exempt
  <2>1. EnableOptions \/ req.method # "OPTIONS"
    BY <1>3 DEF Exempt
  <2>2. \A c \in Challenges, l \in BOOLEAN : ~Refuses(c, l).pass
    BY DEF Refuses
  <2>3. CASE Extract(req.via, req.cred) # "token"
    <3>1. Extract(req.via, req.cred) \in Challenges
      BY <2>3 DEF Extract, Challenges
    <3>2. Verdict = Refuses(Extract(req.via, req.cred), FALSE)
      BY <2>1, <2>3 DEF Verdict, Authenticate
    <3> QED
      BY <2>2, <3>1, <3>2
  <2>4. CASE Extract(req.via, req.cred) = "token"
    <3>1. req.cred # "valid" => \/ Verdict = Refuses("invalid_request", FALSE)
                                \/ Verdict = Refuses("invalid_token", FALSE)
                                \/ Verdict = Refuses("invalid_token", TRUE)
      BY <1>1, <2>1, <2>4 DEF Verdict, Authenticate, Credentials
    <3>2. req.cred = "valid"
      BY <2>2, <3>1 DEF Challenges
    <3> QED
      BY <2>1, <3>2 DEF Verified, Passed
  <2> QED
    BY <2>3, <2>4
<1> QED
  BY <1>2, <1>3

\* The first status of a response is the one on the wire, and it stays.
LEMMA StatusFirst ==
  ASSUME NEW v, Sound(v)
  PROVE  /\ \A code \in {StatusUnauthorized, StatusForbidden} :
              Fresh(v) => WriteHeader(v, code).wire = code
         /\ v.wire # 0 => WriteHeaderNow(v).wire = v.wire
<1>1. v \in Response /\ (Fresh(v) => v.status = StatusOK)
  BY DEF Sound, Fresh
<1>2. ASSUME NEW code \in {StatusUnauthorized, StatusForbidden}, Fresh(v)
      PROVE  WriteHeader(v, code).wire = code
  <2>1. WriteHeader(v, code) = Commit([v EXCEPT !.status = code], code)
    BY <1>1, <1>2 DEF WriteHeader, Fresh, StatusOK, StatusUnauthorized, StatusForbidden
  <2>2. [v EXCEPT !.status = code].wire = 0
    BY <1>1, <1>2 DEF Response, Fresh
  <2>3. WriteHeader(v, code) = [[v EXCEPT !.status = code] EXCEPT !.wire = code]
    BY <2>1, <2>2 DEF Commit
  <2> QED
    BY <1>1, <2>3 DEF Response
<1>3. WriteHeaderNow(v).wire = v.wire
  BY NowKeepsWire
<1> QED
  BY <1>2, <1>3

\* What the gate promises of a request depends on the route and the request.
LEMMA SameRequest ==
  ASSUME UNCHANGED <<chain, req>>
  PROVE  /\ Authorised' = Authorised /\ Guarded' = Guarded /\ Verified' = Verified
         /\ \A kind : In(kind)' = In(kind) /\ Passed(kind)' = Passed(kind)
BY DEF Authorised, Guarded, Verified, Exempt, In, Passed

\* With the first handler gone the others are still ahead, in their order.
LEMMA TailRemains ==
  ASSUME TypeOK, Remaining, left # << >>, left' = Tail(left), chain' = chain
  PROVE  /\ Remaining'
         /\ \A kind : Ahead(kind) => Ahead(kind)' \/ kind = Head(left)
         /\ In(Head(left))
<1>1. left \in Seq(Kinds) /\ Len(left) \in Nat /\ Len(left) > 0
  BY DEF TypeOK
<1>2. /\ left[1] = Head(left) /\ 1 \in DOMAIN left
      /\ Len(Tail(left)) = Len(left) - 1 /\ DOMAIN Tail(left) = 1..Len(left) - 1
      /\ \A k \in 1..Len(left) - 1 : Tail(left)[k] = left[k + 1] /\ k + 1 \in DOMAIN left
  BY <1>1
<1>3. Remaining'
  <2>1. \A k \in DOMAIN left' : \E j \in DOMAIN chain' : chain'[j] = left'[k]
    BY <1>2 DEF Remaining, In
  <2>2. ASSUME Guarded', NEW j \in DOMAIN left', NEW k \in DOMAIN left',
               left'[j] \in Checks, left'[k] = "proxy"
        PROVE  j < k
    <3>1. Guarded
      BY <2>2 DEF Guarded
    <3>2. j \in Int /\ k \in Int /\ j + 1 < k + 1
      BY <1>2, <2>2, <3>1 DEF Remaining
    <3> QED
      BY <3>2
  <2> QED
    BY <2>1, <2>2 DEF Remaining, In
<1>4. ASSUME NEW kind, Ahead(kind), kind # Head(left) PROVE Ahead(kind)'
  <2>1. PICK k \in DOMAIN left : left[k] = kind
    BY <1>4 DEF Ahead
  <2>2. k # 1 /\ k - 1 \in 1..Len(left) - 1 /\ (k - 1) + 1 = k
    BY <1>1, <1>2, <1>4, <2>1
  <2>3. Tail(left)[k - 1] = kind
    BY <1>2, <2>1, <2>2
  <2> QED
    BY <1>2, <2>2, <2>3 DEF Ahead
<1>5. In(Head(left))
  BY <1>2 DEF Remaining
<1> QED
  BY <1>3, <1>4, <1>5

\* A request whose checks are all behind it has passed them.
LEMMA AllPassed ==
  ASSUME \A kind \in Checks : In(kind) => Passed(kind)
  PROVE  Authorised
BY DEF Checks, Passed, Authorised, Verified, Exempt

\* A request that comes to the proxy, or to the end of its chain, passed them.
LEMMA ProxyPassed ==
  ASSUME TypeOK, Remaining, Guarded, Gated, pc = "next", ~skip,
         left = << >> \/ Head(left) = "proxy"
  PROVE  Authorised
<1>1. \A kind \in Checks : ~Ahead(kind)
  <2>1. left \in Seq(Kinds)
    BY DEF TypeOK
  <2>2. CASE left = << >>
    BY <2>2 DEF Ahead
  <2>3. CASE left # << >>
    <3>1. 1 \in DOMAIN left /\ left[1] = "proxy" /\ \A k \in DOMAIN left : k \in Nat /\ k >= 1
      BY <2>1, <2>3
    <3> QED
      BY <3>1 DEF Remaining, Ahead
  <2> QED
    BY <2>2, <2>3
<1> QED
  BY <1>1, AllPassed DEF Gated, Turned

\* The steps between two requests.
LEMMA GateBetween ==
  ASSUME IInv, GateInv, Setup \/ Arrive \/ Reset
  PROVE  GateInv'
<1>1. TypeOK /\ Untouched
  BY DEF IInv
<1>2. CASE Setup
  <2>1. UNCHANGED <<chain, map, req, left, token, reached>> /\ pc = "setup" /\ pc' \in {"failed", "idle"}
    BY <1>2 DEF Setup, fixed, context
  <2> QED
    BY <2>1, SameRequest DEF GateInv, Remaining
<1>3. CASE Arrive
  <2>1. UNCHANGED <<chain, map, skip, token, reached>> /\ pc = "idle" /\ pc' = "next" /\ left' = chain
    BY <1>3 DEF Arrive, fixed, context
  <2>2. ~skip /\ ~token /\ ~reached
    BY <1>1, <2>1 DEF Untouched, Early, GateInv
  <2>3. Remaining'
    BY <2>1 DEF Remaining, In, Guarded, Checks
  <2>4. \A kind \in Checks : In(kind)' => Ahead(kind)'
    BY <2>1 DEF In, Ahead
  <2>5. Gated'
    BY <2>1, <2>2, <2>4 DEF Gated
  <2> QED
    BY <2>1, <2>2, <2>3, <2>5 DEF GateInv
<1>4. CASE Reset
  <2>1. UNCHANGED <<chain, map>> /\ pc' = "idle" /\ left' = << >> /\ ~token' /\ ~reached'
    BY <1>4 DEF Reset, fixed
  <2> QED
    BY <2>1 DEF GateInv, Remaining
<1> QED
  BY <1>2, <1>3, <1>4

\* The steps of the chain.
LEMMA GateChain ==
  ASSUME IInv, GateInv,
         \/ EnterRecovery \/ ChainOver \/ AuthPasses \/ AuthRefuses \/ Permission
         \/ PermissionPanics \/ Forward \/ NextPanics \/ RewriteFails
  PROVE  GateInv'
<1>1. TypeOK /\ Sound(w) /\ Untouched /\ Remaining /\ map = newPermissionMap
      /\ (token => In("auth") /\ Verified)
  BY DEF IInv, GateInv
<1>2. pc = "next" /\ UNCHANGED <<chain, map, req>> /\ pc' \notin {"setup", "failed", "idle"}
  BY DEF EnterRecovery, ChainOver, AuthPasses, AuthRefuses, Permission, PermissionPanics, Forward,
         NextPanics, RewriteFails, At, fixed
<1>3. Guarded => Gated
  BY <1>2 DEF GateInv
<1>4. ~skip => Fresh(w)
  BY <1>1, <1>2 DEF Untouched, Early
<1>same. /\ Authorised' = Authorised /\ Guarded' = Guarded /\ Verified' = Verified
         /\ \A kind : In(kind)' = In(kind) /\ Passed(kind)' = Passed(kind)
  BY <1>2, SameRequest
\* ... it is enough to look at what is ahead, at the token and at the gate.
<1>5. SUFFICES /\ Remaining'
               /\ token' => In("auth") /\ Verified
               /\ Guarded => (reached' => Authorised)
               /\ Guarded => Gated'
  BY <1>1, <1>2, <1>same DEF GateInv
<1>6. Guarded => (reached => Authorised)
  BY DEF GateInv
<1> USE DEF fixed, reply, context, tunnel
<1>7. CASE ChainOver
  <2>1. UNCHANGED <<left, token, reached, skip, w>> /\ pc' = "tail" /\ (skip \/ left = << >>)
    BY <1>7 DEF ChainOver
  <2>2. Remaining'
    BY <1>1, <1>same, <2>1 DEF Remaining
  <2>3. Guarded => Authorised \/ Turned
    BY <1>1, <1>2, <1>3, <2>1, ProxyPassed DEF Gated
  <2>4. Guarded => Gated'
    BY <1>same, <2>1, <2>3 DEF Gated, Turned
  <2> QED
    BY <1>1, <1>6, <2>1, <2>2, <2>4
<1>8. CASE EnterRecovery
  <2>1. UNCHANGED <<pc, token, reached, skip, w>> /\ left # << >> /\ left' = Tail(left)
        /\ Head(left) = "recovery" /\ ~skip
    BY <1>8 DEF EnterRecovery, At
  <2>2. Remaining' /\ \A kind \in Checks : Ahead(kind) => Ahead(kind)'
    BY <1>1, <1>2, <2>1, TailRemains DEF Checks
  <2>3. Guarded => Gated'
    BY <1>2, <1>3, <1>same, <2>1, <2>2 DEF Gated, Turned
  <2> QED
    BY <1>1, <1>6, <2>1, <2>2, <2>3
<1>9. CASE AuthPasses
  <2>1. UNCHANGED <<pc, reached, skip, w>> /\ left # << >> /\ left' = Tail(left) /\ ~skip
        /\ Head(left) = "auth" /\ Verdict.pass /\ token' = Verdict.token
    BY <1>9 DEF AuthPasses, At
  <2>2. Remaining' /\ In("auth") /\ \A kind : Ahead(kind) => Ahead(kind)' \/ kind = "auth"
    BY <1>1, <1>2, <2>1, TailRemains
  <2>3. Passed("auth") /\ (token' => Verified)
    BY <1>1, <2>1, VerdictSays
  <2>4. Guarded => Gated'
    BY <1>2, <1>3, <1>same, <2>1, <2>2, <2>3 DEF Gated, Turned
  <2> QED
    BY <1>6, <2>1, <2>2, <2>3, <2>4
<1>10. CASE AuthRefuses
  <2>1. UNCHANGED <<token, reached>> /\ left # << >> /\ left' = Tail(left) /\ ~skip /\ skip'
        /\ pc' \in {"next", "panic"}
    BY <1>2, <1>10 DEF AuthRefuses, At
  <2>2. Remaining'
    BY <1>1, <1>2, <2>1, TailRemains
  <2>3. w'.wire = StatusUnauthorized
    <3>1. CASE Verdict.late
      BY <1>1, <1>4, <1>10, <2>1, <3>1, StatusFirst DEF AuthRefuses
    <3>2. CASE ~Verdict.late
      <4>1. w' = Render(w, StatusUnauthorized, "app")
        BY <1>10, <3>2 DEF AuthRefuses, Sends
      <4>2. StatusUnauthorized # StatusOK /\ bodyAllowedForStatus(StatusUnauthorized)
        BY DEF StatusUnauthorized, StatusOK, bodyAllowedForStatus, StatusNoContent, StatusNotModified
      <4> QED
        BY <1>1, <1>4, <2>1, <4>1, <4>2, Codes, RenderFresh
    <3> QED
      BY <3>1, <3>2
  <2>4. Gated'
    BY <1>2, <2>1, <2>3 DEF Gated, Turned
  <2> QED
    BY <1>1, <1>6, <2>1, <2>2, <2>4
<1>11. CASE Permission
  <2>1. UNCHANGED <<pc, token, reached>> /\ left # << >> /\ left' = Tail(left) /\ ~skip /\ token
        /\ Head(left) = "permission"
    BY <1>11 DEF Permission, At
  <2>2. Remaining' /\ \A kind : Ahead(kind) => Ahead(kind)' \/ kind = "permission"
    BY <1>1, <1>2, <2>1, TailRemains
  <2>3. CASE IsDenied(Granted(map, req.scopes))
    <3>1. skip' /\ w' = WriteHeader(w, StatusForbidden)
      BY <1>11, <2>3 DEF Permission
    <3>2. Gated'
      BY <1>1, <1>2, <1>4, <2>1, <3>1, StatusFirst DEF Gated, Turned
    <3> QED
      BY <1>1, <1>6, <2>1, <2>2, <3>2
  <2>4. CASE ~IsDenied(Granted(map, req.scopes))
    <3>1. UNCHANGED <<skip, w>>
      BY <1>11, <2>4 DEF Permission
    <3>2. Passed("permission")
      BY <1>1, <2>1, <2>4 DEF Passed, IsDenied, Granted, newPermissionMap
    <3>3. Guarded => Gated'
      BY <1>2, <1>3, <1>same, <2>1, <2>2, <3>1, <3>2 DEF Gated, Turned
    <3> QED
      BY <1>1, <1>6, <2>1, <2>2, <3>3
  <2> QED
    BY <2>3, <2>4
<1>12. CASE PermissionPanics
  <2>1. UNCHANGED <<left, token, reached>> /\ pc' = "panic" /\ ~skip /\ skip'
        /\ w' = WriteHeader(w, StatusForbidden)
    BY <1>12 DEF PermissionPanics, At, Sends
  <2>2. Remaining'
    BY <1>1, <1>same, <2>1 DEF Remaining
  <2>3. Gated'
    BY <1>1, <1>4, <2>1, StatusFirst DEF Gated, Turned
  <2> QED
    BY <1>1, <1>6, <2>1, <2>2, <2>3
<1>13. CASE Forward \/ NextPanics \/ RewriteFails
  <2>1. UNCHANGED token /\ left # << >> /\ left' = Tail(left) /\ ~skip /\ Head(left) = "proxy"
    BY <1>13 DEF Forward, NextPanics, RewriteFails, At
  <2>2. Remaining'
    BY <1>1, <1>2, <2>1, TailRemains
  <2>3. Guarded => Authorised
    BY <1>1, <1>2, <1>3, <2>1, ProxyPassed
  <2>4. Guarded => Gated'
    BY <1>same, <2>3 DEF Gated
  <2> QED
    BY <1>1, <2>1, <2>2, <2>3, <2>4
<1> QED
  BY <1>7, <1>8, <1>9, <1>10, <1>11, <1>12, <1>13

\* The steps after the chain, of the proxy and of the tunnel.
LEMMA GateAfter ==
  ASSUME IInv, GateInv,
         \/ Recover \/ Finish \/ (\E code \in GatewayErrors : ErrorHandler(code)) \/ Answer \/ CopyBody
         \/ BodyBreaks \/ Proxied \/ HijackConn \/ Dial \/ RawFails \/ WriteRequest \/ Receive
         \/ Check \/ (\E d \in DOMAIN copy : CopyReturns(d) \/ Send(d)) \/ Breaks
  PROVE  GateInv'
<1> USE DEF fixed, reply, context, tunnel
<1>1. /\ UNCHANGED <<chain, map, req, left, token, reached>>
      /\ pc \in {"setup", "failed", "idle"} <=> pc' \in {"setup", "failed", "idle"}
  BY DEF Recover, Finish, ErrorHandler, Answer, CopyBody, BodyBreaks, Proxied, HijackConn, Dial,
         RawFails, ReturnWith, WriteRequest, Receive, Check, CopyReturns, Send, Breaks
<1>2. /\ Authorised' = Authorised /\ Guarded' = Guarded /\ Verified' = Verified
      /\ \A kind : In(kind)' = In(kind) /\ Passed(kind)' = Passed(kind)
  BY <1>1, SameRequest
<1>3. Remaining'
  BY <1>1, <1>2 DEF GateInv, Remaining
<1>4. ASSUME Guarded, pc \notin {"setup", "failed", "idle"} PROVE Gated'
  <2>1. Gated /\ Sound(w)
    BY <1>4 DEF GateInv, IInv
  <2>2. CASE Authorised
    BY <1>2, <2>2 DEF Gated
  <2>3. CASE \E d \in DOMAIN copy : CopyReturns(d) \/ Send(d)
    <3>1. UNCHANGED <<pc, skip, w, left>>
      BY <2>3 DEF CopyReturns, Send
    <3> QED
      BY <1>1, <1>2, <2>1, <3>1 DEF Gated, Turned, Ahead
  <2>4. CASE Recover /\ ~Authorised
    <3>1. pc = "panic" /\ Turned
      BY <2>1, <2>4 DEF Recover, Gated
    <3>2. UNCHANGED <<w, skip>> /\ pc' \in {"tail", "crashed"}
      BY <2>4, <3>1 DEF Recover, Turned
    <3> QED
      BY <3>1, <3>2 DEF Gated, Turned
  <2>5. CASE Finish /\ ~Authorised
    <3>1. pc = "tail" /\ Turned
      BY <2>1, <2>5 DEF Finish, Gated
    <3>2. UNCHANGED skip /\ pc' = "done" /\ w' = WriteHeaderNow(w) /\ w.wire # 0
      BY <2>5, <3>1 DEF Finish, Sends, Turned, StatusUnauthorized, StatusForbidden
    <3>3. w'.wire = w.wire
      BY <2>1, <3>2, StatusFirst
    <3> QED
      BY <3>1, <3>2, <3>3 DEF Gated, Turned
  <2>7. CASE Breaks
    <3>1. UNCHANGED <<pc, skip, left>> /\ w' = Break(w)
      BY <2>7 DEF Breaks
    <3>2. w'.wire = w.wire
      BY <2>1, <3>1, BreakSound
    <3> QED
      BY <1>1, <1>2, <2>1, <3>1, <3>2 DEF Gated, Turned, Ahead
  <2>6. CASE ~Recover /\ ~Finish /\ ~Breaks /\ ~(\E d \in DOMAIN copy : CopyReturns(d) \/ Send(d))
    <3>1. pc \notin {"next", "panic", "tail", "done", "crashed"}
      BY <2>6 DEF ErrorHandler, Answer, CopyBody, BodyBreaks, Proxied, HijackConn, Dial, RawFails,
                  WriteRequest, Receive, Check
    <3> QED
      BY <2>1, <2>2, <3>1 DEF Gated
  <2> QED
    BY <2>2, <2>3, <2>4, <2>5, <2>6, <2>7
<1> QED
  BY <1>1, <1>2, <1>3, <1>4 DEF GateInv

\* Auth turns away no request with a verified token and none that is exempt.
LEMMA VerdictAllows ==
  ASSUME Verified \/ Exempt
  PROVE  Verdict.pass /\ (Verified => Verdict.token)
<1>1. CASE Exempt
  <2>1. Verdict = Passes(FALSE)
    BY <1>1 DEF Exempt, Verdict, Authenticate
  <2>2. ~Verified
    BY <1>1 DEF Exempt, Verified
  <2> QED
    BY <2>1, <2>2 DEF Passes
<1>2. CASE Verified
  <2>1. req.cred = "valid" /\ (EnableOptions \/ req.method # "OPTIONS")
    BY <1>2 DEF Verified
  <2>2. Extract(req.via, req.cred) = "token"
    BY <2>1 DEF Extract
  <2>3. Verdict = Passes(TRUE)
    BY <2>1, <2>2 DEF Verdict, Authenticate
  <2> QED
    BY <2>3 DEF Passes
<1> QED
  BY <1>1, <1>2

\* A request that may pass has come to the proxy, or nothing has stopped it yet;
\* its token comes in front of the check that needs it.
Coming ==
  \/ reached
  \/ /\ pc = "next" /\ ~skip /\ Ahead("proxy")
     /\ In("permission") => token \/ Ahead("auth")

Onward ==
  /\ Ordered => \A j, k \in DOMAIN left : left[j] = "auth" /\ left[k] = "permission" => j < k
  /\ Ordered /\ Authorised /\ In("proxy") /\ pc \notin {"setup", "failed", "idle"} => Coming

\* The steps between two requests.
LEMMA OnwardBetween ==
  ASSUME IInv, GateInv, Onward, Setup \/ Arrive \/ Reset
  PROVE  Onward'
<1>1. CASE Setup
  <2>1. UNCHANGED <<chain, left>> /\ pc' \in {"failed", "idle"}
    BY <1>1 DEF Setup, fixed
  <2> QED
    BY <2>1 DEF Onward, Ordered
<1>2. CASE Arrive
  <2>1. UNCHANGED <<chain, skip>> /\ pc = "idle" /\ pc' = "next" /\ left' = chain
    BY <1>2 DEF Arrive, fixed, context
  <2>2. ~skip
    BY <2>1 DEF IInv, Untouched, Early
  <2>3. (In("proxy") => Ahead("proxy"))'
    BY <2>1 DEF In, Ahead
  <2>4. Authorised' /\ In("permission")' => Ahead("auth")'
    BY <2>1 DEF In, Ahead, Authorised
  <2> QED
    BY <2>1, <2>2, <2>3, <2>4 DEF Onward, Coming, Ordered
<1>3. CASE Reset
  <2>1. UNCHANGED chain /\ pc' = "idle" /\ left' = << >>
    BY <1>3 DEF Reset, fixed
  <2> QED
    BY <2>1 DEF Onward
<1> QED
  BY <1>1, <1>2, <1>3

\* With the first handler gone the others keep their order.
LEMMA TailOnward ==
  ASSUME TypeOK, left # << >>, left' = Tail(left), NEW a, NEW b,
         \A j, k \in DOMAIN left : left[j] = a /\ left[k] = b => j < k
  PROVE  \A j, k \in DOMAIN left' : left'[j] = a /\ left'[k] = b => j < k
<1>1. left \in Seq(Kinds) /\ Len(left) \in Nat /\ Len(left) > 0
  BY DEF TypeOK
<1>2. /\ DOMAIN left' = 1..Len(left) - 1
      /\ \A k \in 1..Len(left) - 1 : left'[k] = left[k + 1] /\ k + 1 \in DOMAIN left
  BY <1>1
<1>3. ASSUME NEW j \in DOMAIN left', NEW k \in DOMAIN left', left'[j] = a, left'[k] = b
      PROVE  j < k
  <2>1. j \in Int /\ k \in Int /\ j + 1 < k + 1
    BY <1>2, <1>3
  <2> QED
    BY <2>1
<1> QED
  BY <1>3

\* The steps of the chain.
LEMMA OnwardChain ==
  ASSUME IInv, GateInv, Onward,
         \/ EnterRecovery \/ ChainOver \/ AuthPasses \/ AuthRefuses \/ Permission
         \/ PermissionPanics \/ Forward \/ NextPanics \/ RewriteFails
  PROVE  Onward'
<1>1. TypeOK /\ Remaining /\ map = newPermissionMap
  BY DEF IInv, GateInv
<1>2. pc = "next" /\ UNCHANGED <<chain, req>> /\ left' \in {left, Tail(left)}
      /\ (left' # left => left # << >>)
  BY DEF EnterRecovery, ChainOver, AuthPasses, AuthRefuses, Permission, PermissionPanics, Forward,
         NextPanics, RewriteFails, At, fixed
<1>3. Ordered' = Ordered /\ Authorised' = Authorised /\ \A kind : In(kind)' = In(kind)
  BY <1>2, SameRequest DEF Ordered
<1>4. Ordered' => \A j, k \in DOMAIN left' : left'[j] = "auth" /\ left'[k] = "permission" => j < k
  <2> SUFFICES ASSUME Ordered, left' # left
               PROVE  \A j, k \in DOMAIN left' : left'[j] = "auth" /\ left'[k] = "permission" => j < k
    BY <1>3 DEF Onward
  <2>1. \A j, k \in DOMAIN left : left[j] = "auth" /\ left[k] = "permission" => j < k
    BY DEF Onward
  <2> QED
    BY <1>1, <1>2, <2>1, TailOnward
<1>5. SUFFICES ASSUME Ordered, Authorised, In("proxy") PROVE Coming'
  BY <1>3, <1>4 DEF Onward
<1>6. Coming
  BY <1>2, <1>5 DEF Onward
<1> USE DEF fixed, reply, context, tunnel
<1>7. CASE reached
  BY <1>7 DEF Coming, EnterRecovery, ChainOver, AuthPasses, AuthRefuses, Permission,
              PermissionPanics, Forward, NextPanics, RewriteFails
<1>8. CASE Forward \/ NextPanics \/ RewriteFails
  BY <1>8 DEF Coming, Forward, NextPanics, RewriteFails
<1>9. ASSUME ~reached, ~(Forward \/ NextPanics \/ RewriteFails) PROVE Coming'
  <2>1. ~skip /\ Ahead("proxy") /\ (In("permission") => token \/ Ahead("auth"))
    BY <1>6, <1>9 DEF Coming
  <2>2. left # << >>
    BY <2>1 DEF Ahead
  <2>3. ~ChainOver
    BY <2>1, <2>2 DEF ChainOver
  <2>4. \A kind : left' = Tail(left) /\ Ahead(kind) => Ahead(kind)' \/ kind = Head(left)
    BY <1>1, <1>2, <2>2, TailRemains
  <2>5. CASE EnterRecovery
    <3>1. UNCHANGED <<pc, skip, token>> /\ left' = Tail(left) /\ Head(left) = "recovery"
      BY <2>5 DEF EnterRecovery, At
    <3> QED
      BY <1>2, <1>3, <2>1, <2>4, <3>1 DEF Coming
  <2>6. CASE AuthPasses \/ AuthRefuses
    <3>1. Head(left) = "auth"
      BY <2>6 DEF AuthPasses, AuthRefuses, At
    <3>2. In("auth")
      <4>1. left \in Seq(Kinds)
        BY <1>1 DEF TypeOK
      <4>2. 1 \in DOMAIN left /\ left[1] = Head(left)
        BY <2>2, <4>1
      <4> QED
        BY <1>1, <3>1, <4>2 DEF Remaining
    <3>3. Verified \/ Exempt
      BY <1>5, <3>2 DEF Authorised, Verified, Exempt
    <3>4. Verdict.pass /\ (Verified => Verdict.token)
      BY <3>3, VerdictAllows
    <3>5. UNCHANGED <<pc, skip>> /\ token' = Verdict.token /\ left' = Tail(left)
      BY <2>6, <3>4 DEF AuthPasses, AuthRefuses
    <3>6. In("permission") => token'
      BY <1>5, <3>4, <3>5 DEF Authorised, Verified
    <3> QED
      BY <1>2, <1>3, <2>1, <2>4, <3>1, <3>5, <3>6 DEF Coming
  <2>7. CASE Permission \/ PermissionPanics
    <3>1. Head(left) = "permission"
      BY <2>7 DEF Permission, PermissionPanics, At
    <3>2. In("permission")
      <4>1. left \in Seq(Kinds)
        BY <1>1 DEF TypeOK
      <4>2. 1 \in DOMAIN left /\ left[1] = Head(left)
        BY <2>2, <4>1
      <4> QED
        BY <1>1, <3>1, <4>2 DEF Remaining
    <3>3. token
      <4>1. \A j, k \in DOMAIN left : left[j] = "auth" /\ left[k] = "permission" => j < k
        BY <1>5 DEF Onward
      <4>2. ~Ahead("auth")
        <5>1. left \in Seq(Kinds)
          BY <1>1 DEF TypeOK
        <5>2. 1 \in DOMAIN left /\ left[1] = "permission" /\ \A k \in DOMAIN left : ~(k < 1)
          BY <2>2, <3>1, <5>1
        <5> QED
          BY <4>1, <5>2 DEF Ahead
      <4> QED
        BY <2>1, <3>2, <4>2
    <3>4. ~IsDenied(Granted(map, req.scopes))
      <4>1. Needed \subseteq req.scopes
        BY <1>5, <3>2 DEF Authorised
      <4>2. \A p \in Needed : Granted(newPermissionMap, req.scopes)[p]
        BY <4>1 DEF Granted, newPermissionMap
      <4>3. DOMAIN Granted(newPermissionMap, req.scopes) = Needed
        BY DEF Granted, newPermissionMap
      <4> QED
        BY <1>1, <4>2, <4>3 DEF IsDenied
    <3>5. UNCHANGED <<pc, skip, token>> /\ left' = Tail(left)
      BY <2>7, <3>3, <3>4 DEF Permission, PermissionPanics
    <3> QED
      BY <1>2, <1>3, <2>1, <2>4, <3>1, <3>3, <3>5 DEF Coming
  <2> QED
    BY <1>9, <2>3, <2>5, <2>6, <2>7
<1> QED
  BY <1>7, <1>8, <1>9

\* The steps after the chain, of the proxy and of the tunnel.
LEMMA OnwardAfter ==
  ASSUME IInv, GateInv, Onward,
         \/ Recover \/ Finish \/ (\E code \in GatewayErrors : ErrorHandler(code)) \/ Answer \/ CopyBody
         \/ BodyBreaks \/ Proxied \/ HijackConn \/ Dial \/ RawFails \/ WriteRequest \/ Receive
         \/ Check \/ (\E d \in DOMAIN copy : CopyReturns(d) \/ Send(d)) \/ Breaks
  PROVE  Onward'
<1> USE DEF fixed, reply, context, tunnel
<1>1. /\ UNCHANGED <<chain, req, left, token, reached>>
      /\ pc \in {"setup", "failed", "idle"} <=> pc' \in {"setup", "failed", "idle"}
      /\ pc = "next" => UNCHANGED <<pc, skip>>
  BY DEF Recover, Finish, ErrorHandler, Answer, CopyBody, BodyBreaks, Proxied, HijackConn, Dial,
         RawFails, ReturnWith, WriteRequest, Receive, Check, CopyReturns, Send, Breaks
<1>2. Ordered' = Ordered /\ Authorised' = Authorised /\ \A kind : In(kind)' = In(kind)
  BY <1>1, SameRequest DEF Ordered
<1> QED
  BY <1>1, <1>2 DEF Onward, Coming, Ahead

\* In any chain that checks before it forwards, a request that comes to the
\* proxy is authorised and any other is answered 401 or 403; with Auth in front
\* of Permission every authorised request comes to the proxy.
\* (auth.go:156-231, permission.go:36-63)
THEOREM GateKept == Spec => []GateKeeps
<1>1. Init => GateInv /\ Onward
  BY DEF Init, GateInv, Remaining, Onward
<1>2. IInv /\ GateInv /\ Onward /\ [Next]_vars => GateInv' /\ Onward'
  <2>1. ASSUME IInv, GateInv, Onward, Handler PROVE GateInv' /\ Onward'
    BY <2>1, GateChain, GateAfter, OnwardChain, OnwardAfter DEF Handler
  <2>2. ASSUME IInv, GateInv, Onward, NEW d \in DOMAIN copy, PeerEnds(d) \/ Copier(d)
        PROVE  GateInv' /\ Onward'
    BY <2>2, GateAfter, OnwardAfter DEF PeerEnds, Copier, CopyFails
  <2>3. ASSUME GateInv, Onward, UNCHANGED vars PROVE GateInv' /\ Onward'
    <3>1. GateInv'
      BY <2>3 DEF vars, fixed, reply, context, GateInv, Remaining, Guarded, Gated, Turned, Ahead,
                  Authorised, Verified, Exempt, In, Passed
    <3>2. Onward'
      BY <2>3 DEF vars, fixed, reply, context, Onward, Ordered, Coming, Ahead, Authorised, In
    <3> QED
      BY <3>1, <3>2
  <2>4. ASSUME IInv, GateInv, Onward, Setup \/ Arrive \/ Reset \/ Breaks PROVE GateInv' /\ Onward'
    BY <2>4, GateBetween, OnwardBetween, GateAfter, OnwardAfter
  <2> QED
    BY <2>1, <2>2, <2>3, <2>4 DEF Next, Terminated
<1>3. IInv /\ GateInv /\ Onward => GateKeeps
  BY DEF GateInv, GateKeeps, Gated, Turned, Onward, Coming, SentStatus, StatusUnauthorized,
         StatusForbidden
<1> QED
  BY <1>1, <1>2, <1>3, GatewayInvariant, PTL DEF Spec
=============================================================================
