--------------------------- MODULE ResponseWriter ---------------------------
(***************************************************************************)
(* response_writer.go: the wrapper the framework puts around net/http's    *)
(* ResponseWriter, as operators on one record per response.                *)
(*                                                                         *)
(*   status, size       the wrapper's two fields;                          *)
(*   wire               the status net/http has committed for the client,  *)
(*                      0 while the header is still open;                  *)
(*   overridden         net/http refused a second WriteHeader;             *)
(*   body               who wrote each chunk that net/http accepted;       *)
(*   hijacked           the connection was taken away from net/http;       *)
(*   hijackable         net/http's writer implements http.Hijacker (an     *)
(*                      HTTP/1 connection, not an HTTP/2 stream);          *)
(*   broken             net/http takes no more body: the connection is     *)
(*                      gone, or the Content-Length that was declared is   *)
(*                      used up.  Neither ever gets better.                *)
(*                                                                         *)
(* A chunk counts as one byte, taken whole or refused: size and body agree *)
(* on their length.                                                        *)
(***************************************************************************)
EXTENDS Integers, Sequences

StatusOK == 200
StatusCreated == 201
StatusNoContent == 204
StatusNotModified == 304
StatusNotFound == 404
StatusMethodNotAllowed == 405
StatusInternalServerError == 500

noWritten == -1

\* The three authors of body chunks that the properties tell apart.
Authors == {"app", "recovery", "page"}

Response ==
  [ status: Nat, size: Int, wire: Nat, overridden: BOOLEAN,
    body: Seq(Authors), hijacked: BOOLEAN, hijackable: BOOLEAN, broken: BOOLEAN ]

wrapResponseWriter(h) ==
  [ status |-> StatusOK, size |-> noWritten, wire |-> 0, overridden |-> FALSE,
    body |-> << >>, hijacked |-> FALSE, hijackable |-> h, broken |-> FALSE ]

Written(w) == w.size # noWritten

bodyAllowedForStatus(code) ==
  code \notin (100..199) \cup {StatusNoContent, StatusNotModified}

\* net/http: the first header wins, a later one is "superfluous".
Commit(w, code) ==
  IF w.wire = 0 THEN [w EXCEPT !.wire = code] ELSE [w EXCEPT !.overridden = TRUE]

\* A slip: the status field moves although the body has started.
WriteHeaderLate(w, code) ==
  IF code > 0 /\ w.status # code
  THEN IF Written(w) THEN [w EXCEPT !.status = code]
       ELSE Commit([w EXCEPT !.status = code], code)
  ELSE w

\* The wrapper refuses a change only when the body has started (Written), not
\* when the header has already gone out.
WriteHeader(w, code) ==
  IF code > 0 /\ w.status # code /\ ~Written(w)
  THEN Commit([w EXCEPT !.status = code], code)
  ELSE w

WriteHeaderNow(w) ==
  IF Written(w) THEN w ELSE WriteHeader([w EXCEPT !.size = 0], w.status)

\* net/http rejects a body after a hijack (ErrHijacked), under a status without
\* a body (ErrBodyNotAllowed), beyond the Content-Length (ErrContentLength), and
\* when the connection is gone.
AcceptsBody(w) ==
  ~w.hijacked /\ ~w.broken /\ bodyAllowedForStatus(w.wire)

\* The client goes, or what it may still be sent is sent.
Break(w) == [w EXCEPT !.broken = TRUE]

\* net/http sends 200 before the first byte, unless the connection is not its
\* own any more.
CommitOK(w) ==
  IF w.wire = 0 /\ ~w.hijacked THEN [w EXCEPT !.wire = StatusOK] ELSE w

\* A slip: the size is not started from zero.
WriteUncounted(w, who) ==
  IF AcceptsBody(w)
  THEN [CommitOK(w) EXCEPT !.body = Append(@, who), !.size = @ + 1]
  ELSE w

\* What net/http accepts is counted; what it refuses is not.
Write(w, who) ==
  LET v == CommitOK(WriteHeaderNow(w))
  IN  IF AcceptsBody(v) THEN [v EXCEPT !.body = Append(@, who), !.size = @ + 1]
      ELSE v

Flush(w) == CommitOK(WriteHeaderNow(w))

\* size is set before the underlying writer is asked, so a refused hijack
\* still marks the response as written.
Hijack(w) ==
  LET v == [w EXCEPT !.size = IF @ < 0 THEN 0 ELSE @]
  IN  IF w.hijackable THEN [v EXCEPT !.hijacked = TRUE] ELSE v

\* context.go Render: set the status, then either the bare header or the body.
Render(w, status, who) ==
  LET v == WriteHeader(w, status)
  IN  IF bodyAllowedForStatus(status) THEN Write(v, who) ELSE WriteHeaderNow(v)

\* Render panics when the renderer's Write returns an error.
RenderOK(w, status) ==
  bodyAllowedForStatus(status) => AcceptsBody(WriteHeader(w, status))

\* The status the client reads once the handler has returned: net/http sends
\* 200 for a header nobody committed.
SentStatus(w) == IF w.wire = 0 THEN StatusOK ELSE w.wire
=============================================================================
