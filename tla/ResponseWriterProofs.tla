----------------------- MODULE ResponseWriterProofs -----------------------
(***************************************************************************)
(* What the operations of ResponseWriter keep, whoever calls them.         *)
(***************************************************************************)
EXTENDS ResponseWriter, TLAPS

-----------------------------------------------------------------------------
(* Responses.                                                              *)

\* What every operation of the wrapper keeps: its status is the one on the
\* wire unless a second header was asked for, nothing but 200 can be reported
\* while no header is committed, and size counts the body.
Sound(w) ==
  /\ w \in Response
  /\ w.wire = 0 => w.status = StatusOK
  /\ ~w.overridden => w.wire \in {0, w.status}
  /\ Len(w.body) = IF Written(w) THEN w.size ELSE 0

Statuses == Nat \ {0}

\* A new wrapper is sound.
LEMMA WrapSound ==
  ASSUME NEW h \in BOOLEAN
  PROVE  Sound(wrapResponseWriter(h))
BY DEF Sound, wrapResponseWriter, Response, Written, noWritten, StatusOK, Authors

\* WriteHeader keeps a response sound.
LEMMA WriteHeaderSound ==
  ASSUME NEW w, Sound(w), NEW code \in Statuses
  PROVE  Sound(WriteHeader(w, code))
BY DEF Sound, WriteHeader, Commit, Response, Written, noWritten, StatusOK,
       Statuses

\* WriteHeaderNow keeps a response sound and leaves it written.
LEMMA WriteHeaderNowSound ==
  ASSUME NEW w, Sound(w)
  PROVE  Sound(WriteHeaderNow(w)) /\ Written(WriteHeaderNow(w))
BY DEF Sound, WriteHeaderNow, WriteHeader, Response, Written, noWritten,
       StatusOK

\* net/http's own 200 is the status of the wrapper.
LEMMA CommitOKSound ==
  ASSUME NEW w, Sound(w)
  PROVE  /\ Sound(CommitOK(w)) /\ CommitOK(w).size = w.size
         /\ CommitOK(w).body = w.body /\ CommitOK(w).hijacked = w.hijacked
         /\ CommitOK(w).broken = w.broken /\ CommitOK(w).status = w.status
<1>1. CASE w.wire = 0 /\ ~w.hijacked
  <2>1. w \in Response /\ CommitOK(w) = [w EXCEPT !.wire = StatusOK]
    BY <1>1 DEF Sound, CommitOK
  <2>2. StatusOK \in Nat
    BY DEF StatusOK
  <2> QED
    BY <1>1, <2>1, <2>2 DEF Sound, Response, Written
<1>2. CASE ~(w.wire = 0 /\ ~w.hijacked)
  BY <1>2 DEF CommitOK
<1> QED
  BY <1>1, <1>2

\* The writer that Write hands the chunk to.
LEMMA CommitNowSound ==
  ASSUME NEW w, Sound(w)
  PROVE  /\ Sound(CommitOK(WriteHeaderNow(w))) /\ Written(CommitOK(WriteHeaderNow(w)))
<1>1. Sound(WriteHeaderNow(w)) /\ Written(WriteHeaderNow(w))
  BY WriteHeaderNowSound
<1> QED
  BY <1>1, CommitOKSound DEF Written

\* Write keeps a response sound: what net/http accepts is counted.
LEMMA WriteSound ==
  ASSUME NEW w, Sound(w), NEW who \in Authors
  PROVE  Sound(Write(w, who))
<1> DEFINE v == CommitOK(WriteHeaderNow(w))
<1>1. Sound(v) /\ Written(v)
  BY CommitNowSound
<1>2. CASE ~AcceptsBody(v)
  BY <1>1, <1>2 DEF Write
<1>3. CASE AcceptsBody(v)
  <2> DEFINE u == [v EXCEPT !.body = Append(@, who), !.size = @ + 1]
  <2>1. v \in Response /\ Len(v.body) = v.size
    BY <1>1 DEF Sound
  <2>2. u \in Response
    <3> HIDE DEF v
    <3>1. Append(v.body, who) \in Seq(Authors) /\ v.size + 1 \in Int
      BY <2>1 DEF Response
    <3> QED
      BY <2>1, <3>1 DEF Response
  <2>3. Len(u.body) = u.size /\ Written(u)
    <3> HIDE DEF v
    <3> QED
      BY <2>1 DEF Response, Written, noWritten
  <2>4. Sound(u)
    <3> HIDE DEF v
    <3> QED
      BY <1>1, <2>1, <2>2, <2>3 DEF Sound, Response
  <2> QED
    BY <1>3, <2>4 DEF Write
<1> QED
  BY <1>2, <1>3

\* Flush keeps a response sound.
LEMMA FlushSound ==
  ASSUME NEW w, Sound(w)
  PROVE  Sound(Flush(w))
BY CommitNowSound DEF Flush

\* A response that breaks off stays sound.
LEMMA BreakSound ==
  ASSUME NEW w, Sound(w)
  PROVE  /\ Sound(Break(w)) /\ Break(w).body = w.body /\ Break(w).status = w.status
         /\ Break(w).wire = w.wire /\ Break(w).size = w.size
         /\ Break(w).hijacked = w.hijacked /\ Break(w).overridden = w.overridden
BY DEF Sound, Break, Response, Written

\* Hijack keeps a response sound, also where the connection cannot be taken.
LEMMA HijackSound ==
  ASSUME NEW w, Sound(w)
  PROVE  Sound(Hijack(w))
<1> DEFINE v == [w EXCEPT !.size = IF @ < 0 THEN 0 ELSE @]
<1>1. v \in Response /\ Len(v.body) = v.size /\ Written(v)
  BY DEF Sound, Response, Written, noWritten
<1>2. v.wire = w.wire /\ v.status = w.status /\ v.overridden = w.overridden
  BY DEF Sound, Response
<1>3. Sound(v)
  BY <1>1, <1>2 DEF Sound
<1>4. Sound([v EXCEPT !.hijacked = TRUE])
  <2> HIDE DEF v
  <2> QED
    BY <1>3 DEF Sound, Response, Written
<1> QED
  BY <1>3, <1>4 DEF Hijack

\* Render keeps a response sound.
LEMMA RenderSound ==
  ASSUME NEW w, Sound(w), NEW code \in Statuses, NEW who \in Authors
  PROVE  Sound(Render(w, code, who))
<1> DEFINE v == WriteHeader(w, code)
<1>1. Sound(v)
  BY WriteHeaderSound
<1>2. Sound(Write(v, who)) /\ Sound(WriteHeaderNow(v))
  <2> HIDE DEF v
  <2> QED
    BY <1>1, WriteSound, WriteHeaderNowSound
<1> QED
  BY <1>2 DEF Render

\* A status or a header leaves the body alone, and the connection.
LEMMA StatusKeeps ==
  ASSUME NEW w \in Response, NEW code
  PROVE  /\ WriteHeader(w, code).body = w.body /\ WriteHeader(w, code).hijacked = w.hijacked
         /\ WriteHeaderNow(w).body = w.body /\ WriteHeaderNow(w).hijacked = w.hijacked
BY DEF Response, WriteHeader, WriteHeaderNow, Commit, Written

\* Render takes no connection and gives none back.
LEMMA RenderKeeps ==
  ASSUME NEW w, Sound(w), NEW code \in Statuses, NEW who
  PROVE  /\ Write(w, who).hijacked = w.hijacked
         /\ Render(w, code, who).hijacked = w.hijacked
<1>1. ASSUME NEW u, Sound(u) PROVE Write(u, who).hijacked = u.hijacked
  <2> DEFINE v == CommitOK(WriteHeaderNow(u))
  <2>1. v \in Response /\ v.hijacked = u.hijacked
    <3>1. Sound(WriteHeaderNow(u)) /\ WriteHeaderNow(u).hijacked = u.hijacked
      BY <1>1, WriteHeaderNowSound, StatusKeeps DEF Sound
    <3> QED
      BY <3>1, CommitOKSound DEF Sound
  <2>2. Write(u, who) = IF AcceptsBody(v) THEN [v EXCEPT !.body = Append(@, who), !.size = @ + 1] ELSE v
    BY DEF Write
  <2> QED
    BY <2>1, <2>2 DEF Response
<1>2. Sound(WriteHeader(w, code)) /\ WriteHeader(w, code).hijacked = w.hijacked
  BY WriteHeaderSound, StatusKeeps DEF Sound
<1>3. WriteHeaderNow(WriteHeader(w, code)).hijacked = w.hijacked
  BY <1>2, StatusKeeps DEF Sound
<1> QED
  BY <1>1, <1>2, <1>3 DEF Render

\* No handler has touched the response.
Fresh(w) == w.body = << >> /\ w.wire = 0 /\ ~Written(w) /\ ~w.hijacked

\* The status of an error is what the client of a fresh response gets; its page
\* too, unless the response is broken.
LEMMA RenderFresh ==
  ASSUME NEW w, Sound(w), Fresh(w), NEW who \in Authors,
         NEW code \in Statuses, code # StatusOK, bodyAllowedForStatus(code)
  PROVE  /\ RenderOK(w, code) <=> ~w.broken
         /\ Render(w, code, who).wire = code /\ Written(Render(w, code, who))
<1> DEFINE v == WriteHeader(w, code)
           n == WriteHeaderNow(v)
           u == CommitOK(n)
<1>1. v = [w EXCEPT !.status = code, !.wire = code]
  <2>1. w \in Response /\ w.status = StatusOK /\ code > 0 /\ code \in Nat
    BY DEF Sound, Fresh, Statuses
  <2>2. v = Commit([w EXCEPT !.status = code], code)
    BY <2>1 DEF WriteHeader, Fresh
  <2>3. [w EXCEPT !.status = code].wire = 0
    BY <2>1 DEF Response, Fresh
  <2> QED
    BY <2>2, <2>3 DEF Commit
<1>2. /\ v \in Response /\ v.wire = code /\ v.status = code /\ v.size = noWritten
      /\ ~v.hijacked /\ v.broken = w.broken
  BY <1>1 DEF Response, Statuses, Sound, Fresh, Written
<1>3. n \in Response /\ n.wire = code /\ n.size = 0 /\ ~n.hijacked /\ n.broken = w.broken
  <2>1. n = WriteHeader([v EXCEPT !.size = 0], v.status)
    BY <1>2 DEF WriteHeaderNow, Written
  <2> HIDE DEF n, v
  <2>2. n = [v EXCEPT !.size = 0]
    BY <1>2, <2>1 DEF WriteHeader, Response
  <2> QED
    BY <1>2, <2>2 DEF Response
<1>4. u = n
  <2>1. code # 0
    BY DEF Statuses
  <2> QED
    BY <1>3, <2>1 DEF CommitOK
<1>5. Sound(Write(v, who)) /\ Written(Write(v, who)) /\ Write(v, who).wire = code
  <2>1. Sound(v)
    BY WriteHeaderSound
  <2>2. Sound(Write(v, who))
    BY <2>1, WriteSound
  <2>3. Write(v, who) = IF AcceptsBody(u) THEN [u EXCEPT !.body = Append(@, who), !.size = @ + 1] ELSE u
    BY DEF Write
  <2>4. Write(v, who).size \in {0, 1} /\ Write(v, who).wire = code
    <3> HIDE DEF u, v, n
    <3> QED
      BY <1>3, <1>4, <2>3 DEF Response
  <2> QED
    BY <2>2, <2>4 DEF Written, noWritten
<1>6. RenderOK(w, code) <=> ~w.broken
  BY <1>2 DEF RenderOK, AcceptsBody
<1> QED
  BY <1>5, <1>6 DEF Render

\* Nothing that follows changes a status that is written.
LEMMA WrittenStays ==
  ASSUME NEW w, Sound(w), Written(w)
  PROVE  WriteHeaderNow(w) = w
BY DEF WriteHeaderNow

\* A page that net/http refuses leaves the response refusing, with the
\* body it had.
LEMMA RenderRefused ==
  ASSUME NEW w, Sound(w), NEW code \in Statuses, NEW who, ~RenderOK(w, code)
  PROVE  /\ ~AcceptsBody(Render(w, code, who))
         /\ Render(w, code, who).body = w.body
<1> DEFINE v == WriteHeader(w, code)
           n == WriteHeaderNow(v)
           u == CommitOK(n)
<1>1. bodyAllowedForStatus(code) /\ ~AcceptsBody(v)
  BY DEF RenderOK
<1>2. Sound(v) /\ v.body = w.body
  BY WriteHeaderSound, StatusKeeps DEF Sound
<1>3. /\ Sound(n) /\ n \in Response /\ n.body = v.body /\ n.hijacked = v.hijacked
      /\ n.broken = v.broken /\ n.wire = v.wire
  <2>1. Sound(n)
    BY <1>2, WriteHeaderNowSound
  <2> HIDE DEF v
  <2> QED
    BY <1>2, <2>1 DEF WriteHeaderNow, WriteHeader, Response, Sound
<1>4. u.body = v.body /\ ~AcceptsBody(u)
  <2>1. /\ u.body = v.body /\ u.hijacked = v.hijacked /\ u.broken = v.broken
        /\ u.wire = IF v.wire = 0 /\ ~v.hijacked THEN StatusOK ELSE v.wire
    <3> HIDE DEF n, v
    <3> QED
      BY <1>3 DEF CommitOK, Response
  <2>2. v.wire = 0 => bodyAllowedForStatus(v.wire)
    BY DEF bodyAllowedForStatus, StatusNoContent, StatusNotModified
  <2> HIDE DEF u, n, v
  <2> QED
    BY <1>1, <2>1, <2>2 DEF AcceptsBody
<1>5. Write(v, who) = u
  BY <1>4 DEF Write
<1>6. Render(w, code, who) = u
  BY <1>1, <1>5 DEF Render
<1> HIDE DEF u, n, v
<1> QED
  BY <1>2, <1>4, <1>6

\* A response that was marked as written without a header, by a Hijack that
\* failed: an answer goes out under net/http's own 200.
LEMMA RenderMarked ==
  ASSUME NEW w, Sound(w), Written(w), w.wire = 0, ~w.hijacked, NEW who \in Authors,
         NEW code, bodyAllowedForStatus(code), RenderOK(w, code)
  PROVE  /\ Render(w, code, who).wire = StatusOK
         /\ Render(w, code, who).body = Append(w.body, who)
<1>1. w \in Response /\ WriteHeader(w, code) = w /\ WriteHeaderNow(w) = w
  BY DEF Sound, WriteHeader, WriteHeaderNow
<1>2. ~w.broken
  BY <1>1 DEF RenderOK, AcceptsBody
<1>3. CommitOK(w) = [w EXCEPT !.wire = StatusOK]
  BY DEF CommitOK
<1>4. AcceptsBody([w EXCEPT !.wire = StatusOK])
  BY <1>1, <1>2
  DEF AcceptsBody, Response, bodyAllowedForStatus, StatusOK, StatusNoContent, StatusNotModified
<1>5. Render(w, code, who) =
        [[w EXCEPT !.wire = StatusOK] EXCEPT !.body = Append(@, who), !.size = @ + 1]
  BY <1>1, <1>3, <1>4 DEF Render, Write
<1> QED
  BY <1>1, <1>5 DEF Response

\* After a hijack net/http sends nothing of an answer.
LEMMA RenderHijacked ==
  ASSUME NEW w, Sound(w), w.hijacked, NEW who, NEW code \in Statuses,
         bodyAllowedForStatus(code)
  PROVE  ~RenderOK(w, code) /\ Render(w, code, who).body = w.body
<1>1. WriteHeader(w, code).hijacked
  BY StatusKeeps DEF Sound
<1>2. ~RenderOK(w, code)
  BY <1>1 DEF RenderOK, AcceptsBody
<1> QED
  BY <1>2, RenderRefused

\* The end of a request changes no status that is on the wire, nor sends one.
LEMMA NowKeepsWire ==
  ASSUME NEW w, Sound(w)
  PROVE  WriteHeaderNow(w).wire = w.wire
<1>1. w \in Response
  BY DEF Sound
<1>2. CASE ~Written(w)
  <2>1. [w EXCEPT !.size = 0].status = w.status /\ [w EXCEPT !.size = 0].wire = w.wire
    BY <1>1 DEF Response
  <2>2. WriteHeaderNow(w) = [w EXCEPT !.size = 0]
    BY <1>2, <2>1 DEF WriteHeaderNow, WriteHeader
  <2> QED
    BY <2>1, <2>2
<1> QED
  BY <1>2 DEF WriteHeaderNow
=============================================================================
