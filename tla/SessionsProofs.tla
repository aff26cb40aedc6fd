--------------------------- MODULE SessionsProofs ---------------------------
(***************************************************************************)
(* The invariants of Sessions, for any clients, names, IDs and handlers    *)
(* and any number of requests and failures.                                *)
(***************************************************************************)
EXTENDS Sessions, FiniteSetTheorems, TLAPS

-----------------------------------------------------------------------------
(* The inductive invariant.                                                *)

\* The types of what the two properties are about.
Types ==
  /\ storeAge \in Int
  /\ redis \in [IDs \cup {NoID} -> Data \cup {None}]
  /\ jar \in [Clients -> [Names -> IDs \cup {None}]]
  /\ pc \in [Requests -> {"idle", "run", "dial", "load", "save", "delete"}]
  /\ client \in [Requests -> Clients \cup {None}]
  /\ work \in [Requests -> Seq(CallsOf)]
  /\ carried \in [Requests -> [Names -> IDs \cup {None}]]
  /\ session \in [Requests -> [Names -> Session]]
  /\ cookie \in [Requests -> [Names -> IDs \cup {NoID, None}]]
  /\ owner \in [IDs -> (Clients \X Names) \cup {None}]
  /\ took \subseteq IDs \cup {NoID}

\* The ID belongs to the client and the name, and Redis took it.
Owned(id, c, n)  == id \in IDs /\ owner[id] = <<c, n>>
Stored(id, c, n) == Owned(id, c, n) /\ id \in took

Owners ==
  /\ redis[NoID] = None
  /\ \A c \in Clients, n \in Names : jar[c][n] # None => Stored(jar[c][n], c, n)
  /\ \A r \in Requests, n \in Names :
       /\ carried[r][n] # None => Owned(carried[r][n], client[r], n)
       /\ session[r][n].id # NoID => Owned(session[r][n].id, client[r], n)
       /\ cookie[r][n] \notin {NoID, None} => Stored(cookie[r][n], client[r], n)

\* What the place of a request says of the session it works on.
PlacedAt(r) ==
  /\ pc[r] = "idle" => \A n \in Names : session[r][n] = Unopened /\ cookie[r][n] = None
                                       /\ carried[r][n] = None
  /\ \A n \in Names : session[r][n].written => session[r][n].opened
  /\ pc[r] # "idle" => client[r] \in Clients
  /\ pc[r] \notin {"idle", "run"} => work[r] # << >>
  /\ pc[r] = "dial" => IF This(r).opened THEN This(r).maxAge > 0 => This(r).id # NoID
                       ELSE carried[r][On(r)] # None
  /\ pc[r] = "load" => ~This(r).opened /\ carried[r][On(r)] # None
  /\ pc[r] = "save" => This(r).opened /\ This(r).maxAge > 0 /\ This(r).id # NoID
  /\ pc[r] = "delete" => This(r).opened

Placed == \A r \in Requests : PlacedAt(r)

IInv == Types /\ Owners /\ Placed

-----------------------------------------------------------------------------
(* Sessions and their values.                                              *)

\* The calls of a handler are calls.
LEMMA CallType ==
  ASSUME Types, NEW r \in Requests, work[r] # << >>
  PROVE  /\ Now(r) \in CallsOf /\ On(r) \in Names /\ This(r) \in Session
         /\ Tail(work[r]) \in Seq(CallsOf)
<1>1. work[r] \in Seq(CallsOf)
  BY DEF Types
<1>2. Head(work[r]) \in CallsOf /\ Tail(work[r]) \in Seq(CallsOf)
  BY <1>1
<1>3. On(r) \in Names
  BY <1>2, HandlersAssumption DEF On, Now
<1> QED
  BY <1>2, <1>3 DEF Now, This, Types

\* A map from keys to values is data.
LEMMA DataType ==
  ASSUME NEW f
  PROVE  f \in Data <=> \E K \in SUBSET Keys : f \in [K -> Values]
BY DEF Data

LEMMA EmptyData == Empty \in Data
<1>1. Empty \in [{} -> Values]
  BY DEF Empty
<1> QED
  BY <1>1, DataType

LEMMA PutData ==
  ASSUME NEW f \in Data, NEW k \in Keys, NEW v \in Values
  PROVE  Put(f, k, v) \in Data
<1>1. PICK K \in SUBSET Keys : f \in [K -> Values]
  BY DataType
<1>2. Put(f, k, v) \in [K \cup {k} -> Values]
  BY <1>1 DEF Put
<1> QED
  BY <1>2, DataType

LEMMA WithoutData ==
  ASSUME NEW f \in Data, NEW L
  PROVE  Without(f, L) \in Data
<1>1. PICK K \in SUBSET Keys : f \in [K -> Values]
  BY DataType
<1>2. Without(f, L) \in [K \ L -> Values]
  BY <1>1 DEF Without
<1> QED
  BY <1>2, DataType

LEMMA JSONData ==
  ASSUME NEW f \in Data
  PROVE  JSON(f) \in Data
<1>1. PICK K \in SUBSET Keys : f \in [K -> Values]
  BY DataType
<1>2. JSON(f) \in [K -> Values]
  BY <1>1, ValuesAssumption DEF JSON
<1> QED
  BY <1>2, DataType

\* What a call makes of data is data.
LEMMA ChangedData ==
  ASSUME NEW f \in Data, NEW call \in CallsOf, call.do \in Changes
  PROVE  Changed(f, call) \in Data
<1>1. CASE call.do \in {"Set", "AddFlash"}
  <2>1. call.arg[1] \in Keys /\ call.arg[2] \in Values
    BY <1>1, HandlersAssumption
  <2> QED
    BY <1>1, <2>1, PutData DEF Changed
<1>2. CASE call.do \in {"Delete", "Flashes"}
  BY <1>2, WithoutData DEF Changed
<1>3. CASE call.do = "Clear"
  BY <1>3, EmptyData DEF Changed
<1> QED
  BY <1>1, <1>2, <1>3 DEF Changes

\* A session that is opened, or not yet, is a session.
LEMMA SessionType ==
  ASSUME Types
  PROVE  /\ Unopened \in Session
         /\ \A id \in IDs \cup {NoID}, f \in Data, e \in BOOLEAN :
              Opened(id, f, e) \in Session
BY EmptyData DEF Types, Unopened, Opened, Session

\* The initial states satisfy the invariant.
LEMMA InitInv == Init => IInv
<1> SUFFICES ASSUME Init PROVE IInv
  OBVIOUS
<1>1. Unopened \in Session /\ Unopened.id = NoID /\ ~Unopened.written
  BY EmptyData DEF Unopened, Session
<1>2. Types
  BY <1>1, StoreAgesAssumption DEF Init, Types
<1>3. Owners
  BY <1>1 DEF Init, Owners
<1>4. Placed
  BY <1>1 DEF Init, Placed, PlacedAt
<1> QED
  BY <1>2, <1>3, <1>4 DEF IInv

\* What it is that a session becomes another one.
LEMMA BecomesKeeps ==
  ASSUME Types, NEW r \in Requests, On(r) \in Names, NEW x \in Session, Becomes(r, x)
  PROVE  /\ session' \in [Requests -> [Names -> Session]]
         /\ session'[r][On(r)] = x
         /\ \A q \in Requests,
            n \in Names : q # r \/ n # On(r) => session'[q][n] = session[q][n]
BY DEF Types, Becomes

\* The session a call works on, opened by now.
LEMMA HandedType ==
  ASSUME IInv, NEW r \in Requests, work[r] # << >>, Held(r)
  PROVE  /\ Handed(r) \in Session /\ Handed(r).opened
         /\ Handed(r).id = This(r).id \/ Handed(r).id = NoID
<1>1. This(r) \in Session
  BY CallType DEF IInv
<1>2. Opened(NoID, Empty, TRUE) \in Session
  BY EmptyData DEF IInv, Types, Opened, Session
<1> QED
  BY <1>1, <1>2 DEF Handed, Opened, Session

\* A request that a step leaves alone stays where it is.
LEMMA PlacedStays ==
  ASSUME NEW q, PlacedAt(q), pc'[q] = pc[q], work'[q] = work[q], session'[q] = session[q],
         carried'[q] = carried[q], cookie'[q] = cookie[q], client'[q] = client[q]
  PROVE  PlacedAt(q)'
BY DEF PlacedAt, This, On, Now

\* A request whose call has returned is anywhere in its handler.
LEMMA PlacedRuns ==
  ASSUME NEW q, pc'[q] = "run", client'[q] \in Clients,
         \A n \in Names : session'[q][n].written => session'[q][n].opened
  PROVE  PlacedAt(q)'
BY DEF PlacedAt

\* A step that only changes a session, to one that has no ID or its own.
LEMMA SessionOwned ==
  ASSUME IInv, NEW r \in Requests, NEW x \in Session,
         x.id # NoID => Owned(x.id, client[r], On(r)), session'[r][On(r)] = x,
         \A q \in Requests,
            n \in Names : q # r \/ n # On(r) => session'[q][n] = session[q][n],
         UNCHANGED <<redis, jar, client, carried, cookie, owner, took>>
  PROVE  Owners'
<1>1. Owners
  BY DEF IInv
<1>2. ASSUME NEW q \in Requests, NEW n \in Names, session'[q][n].id # NoID
      PROVE  Owned(session'[q][n].id, client[q], n)
  <2>1. CASE q = r /\ n = On(r)
    BY <1>2, <2>1
  <2>2. CASE q # r \/ n # On(r)
    BY <1>1, <1>2, <2>2 DEF Owners
  <2> QED
    BY <2>1, <2>2
<1> QED
  BY <1>1, <1>2 DEF Owners, Owned, Stored

-----------------------------------------------------------------------------
(* Steps of one request.                                                   *)

\* A request arrives with the cookies of its client.
LEMMA ArriveKeeps ==
  ASSUME IInv, NEW r \in Requests, Arrive(r)
  PROVE  IInv'
<1>1. Types /\ Owners /\ Placed
  BY DEF IInv
<1>2. PICK c \in Clients, h \in Handlers :
        client' = [client EXCEPT ![r] = c] /\ work' = [work EXCEPT ![r] = h]
        /\ carried' = [carried EXCEPT ![r] = jar[c]]
  BY DEF Arrive
<1>3. h \in Seq(CallsOf)
  BY HandlersAssumption
<1>4. Types'
  BY <1>1, <1>2, <1>3 DEF Types, Arrive, backend
<1>5. Owners'
  BY <1>1, <1>2
  DEF Types, Owners, Owned, Stored, Placed, PlacedAt, Unopened, Arrive, backend
<1>6. Placed'
  <2> SUFFICES ASSUME NEW q \in Requests PROVE PlacedAt(q)'
    BY DEF Placed
  <2>1. CASE q # r
    BY <1>1, <2>1, PlacedStays, <1>2
    DEF Types, Placed, backend, exchange, Arrive, Unopened
  <2>2. CASE q = r
    <3>1. /\ pc'[r] = "run" /\ client'[r] \in Clients
          /\ \A n \in Names : session'[r][n].written => session'[r][n].opened
      BY <1>1, <1>2 DEF Types, Placed, PlacedAt, backend, exchange, Arrive, Unopened
    <3> QED
      BY <2>2, <3>1, PlacedRuns
  <2> QED
    BY <2>1, <2>2
<1> QED
  BY <1>4, <1>5, <1>6 DEF IInv

\* The client keeps the cookies it gets.
LEMMA FinishKeeps ==
  ASSUME IInv, NEW r \in Requests, Finish(r)
  PROVE  IInv'
<1>1. Types /\ Owners /\ Placed
  BY DEF IInv
<1>2. Unopened \in Session /\ Unopened.id = NoID /\ ~Unopened.written
  BY <1>1, SessionType DEF Unopened
<1>3. Types'
  <2>1. jar' \in [Clients -> [Names -> IDs \cup {None}]]
    <3>1. [n \in Names |-> Keeps(r, n)] \in [Names -> IDs \cup {None}]
          \/ client[r] \notin Clients
      BY <1>1 DEF Types, Keeps
    <3>2. CASE client[r] \in Clients
      BY <1>1, <3>1, <3>2 DEF Types, Finish, Keeps
    <3>3. CASE client[r] \notin Clients
      BY <1>1, <3>3 DEF Types, Finish
    <3> QED
      BY <3>2, <3>3
  <2> QED
    BY <1>1, <1>2, <2>1 DEF Types, Finish, backend
<1>4. Owners'
  <2>1. UNCHANGED <<redis, owner, took>>
    BY DEF Finish, backend
  <2>2. ASSUME NEW c \in Clients, NEW n \in Names, jar'[c][n] # None
        PROVE  Stored(jar'[c][n], c, n)
    <3>1. jar'[c][n] = jar[c][n] \/ (c = client[r] /\ jar'[c][n] = Keeps(r, n))
      <4>1. jar' = [jar EXCEPT ![client[r]] = [m \in Names |-> Keeps(r, m)]]
        BY DEF Finish
      <4>2. jar'[c] = IF c = client[r] THEN [m \in Names |-> Keeps(r, m)] ELSE jar[c]
        BY <1>1, <4>1 DEF Types
      <4>3. CASE c = client[r]
        BY <4>2, <4>3
      <4>4. CASE c # client[r]
        BY <4>2, <4>4
      <4> QED
        BY <4>3, <4>4
    <3>2. CASE jar'[c][n] = jar[c][n]
      BY <1>1, <2>2, <3>2 DEF Owners
    <3>3. CASE c = client[r] /\ jar'[c][n] = Keeps(r, n)
      BY <1>1, <2>2, <3>3 DEF Owners, Keeps
    <3> QED
      BY <3>1, <3>2, <3>3
  <2>3. ASSUME NEW q \in Requests, NEW n \in Names
        PROVE  /\ carried'[q][n] # None => Owned(carried'[q][n], client'[q], n)
               /\ session'[q][n].id # NoID => Owned(session'[q][n].id, client'[q], n)
               /\ cookie'[q][n] \notin {NoID, None} => Stored(cookie'[q][n], client'[q], n)
    <3>1. CASE q = r
      BY <1>1, <1>2, <3>1 DEF Types, Finish
    <3>2. CASE q # r
      BY <1>1, <3>2 DEF Types, Owners, Finish
    <3> QED
      BY <3>1, <3>2
  <2> QED
    BY <1>1, <2>1, <2>2, <2>3 DEF Owners, Owned, Stored
<1>5. Placed'
  <2> SUFFICES ASSUME NEW q \in Requests PROVE PlacedAt(q)'
    BY DEF Placed
  <2>1. CASE q # r
    BY <1>1, <2>1, PlacedStays, <1>2 DEF Types, Placed, backend, exchange, Finish
  <2>2. CASE q = r
    <3>1. pc'[r] = "idle"
      BY <1>1 DEF Types, Finish
    <3>2. \A n \in Names : session'[r][n] = Unopened /\ cookie'[r][n] = None
                           /\ carried'[r][n] = None
      BY <1>1 DEF Types, Finish, Keeps
    <3>3. \A n \in Names : session'[r][n].written => session'[r][n].opened
      BY <1>2, <3>2
    <3> QED
      BY <2>2, <3>1, <3>2, <3>3 DEF PlacedAt
  <2> QED
    BY <2>1, <2>2
<1> QED
  BY <1>3, <1>4, <1>5 DEF IInv

\* An answer sends the head.
LEMMA RespondKeeps ==
  ASSUME IInv, NEW r \in Requests, Respond(r)
  PROVE  IInv'
<1>1. Types /\ Owners /\ Placed
  BY DEF IInv
<1>2. On(r) \in Names /\ This(r) \in Session /\ Tail(work[r]) \in Seq(CallsOf)
  BY <1>1, CallType DEF Respond, Does
<1>3. Types'
  BY <1>1, <1>2 DEF Types, backend, exchange, Respond, Does, Returns
<1>4. Owners'
  BY <1>1 DEF Types, Owners, Owned, Stored, backend, exchange, Respond, Does, Returns
<1>5. Placed'
  <2> SUFFICES ASSUME NEW q \in Requests PROVE PlacedAt(q)'
    BY DEF Placed
  <2>1. CASE q # r
    BY <1>1, <2>1, PlacedStays
    DEF Types, Placed, backend, exchange, Respond, Does, Returns
  <2>2. CASE q = r
    <3>1. /\ pc'[r] = "run" /\ client'[r] \in Clients
          /\ \A n \in Names : session'[r][n].written => session'[r][n].opened
      BY <1>1 DEF Types, Placed, PlacedAt, backend, exchange, Respond, Does, Returns
    <3> QED
      BY <2>2, <3>1, PlacedRuns
  <2> QED
    BY <2>1, <2>2
<1> QED
  BY <1>3, <1>4, <1>5 DEF IInv

\* A Save of a session without changes.
LEMMA SaveNothingKeeps ==
  ASSUME IInv, NEW r \in Requests, SaveNothing(r)
  PROVE  IInv'
<1>1. Types /\ Owners /\ Placed
  BY DEF IInv
<1>2. On(r) \in Names /\ This(r) \in Session /\ Tail(work[r]) \in Seq(CallsOf)
  BY <1>1, CallType DEF SaveNothing, Does
<1>3. Types'
  BY <1>1, <1>2 DEF Types, backend, exchange, SaveNothing, Does, Returns
<1>4. Owners'
  BY <1>1 DEF Types, Owners, Owned, Stored, backend, exchange, SaveNothing, Does, Returns
<1>5. Placed'
  <2> SUFFICES ASSUME NEW q \in Requests PROVE PlacedAt(q)'
    BY DEF Placed
  <2>1. CASE q # r
    BY <1>1, <2>1, PlacedStays
    DEF Types, Placed, backend, exchange, SaveNothing, Does, Returns
  <2>2. CASE q = r
    <3>1. /\ pc'[r] = "run" /\ client'[r] \in Clients
          /\ \A n \in Names : session'[r][n].written => session'[r][n].opened
      BY <1>1 DEF Types, Placed, PlacedAt, backend, exchange, SaveNothing, Does, Returns
    <3> QED
      BY <2>2, <3>1, PlacedRuns
  <2> QED
    BY <2>1, <2>2
<1> QED
  BY <1>3, <1>4, <1>5 DEF IInv

\* The store is asked for a session.
LEMMA FetchKeeps ==
  ASSUME IInv, NEW r \in Requests, Fetch(r)
  PROVE  IInv'
<1>1. Types /\ Owners /\ Placed
  BY DEF IInv
<1>2. On(r) \in Names /\ This(r) \in Session /\ Tail(work[r]) \in Seq(CallsOf)
  BY <1>1, CallType DEF Placed, PlacedAt, Fetch, Does
<1>3. Types'
  BY <1>1 DEF Types, backend, exchange, Fetch, Does
<1>4. Owners'
  BY <1>1 DEF Types, Owners, Owned, Stored, backend, exchange, Fetch, Does
<1>5. Placed'
  <2> SUFFICES ASSUME NEW q \in Requests PROVE PlacedAt(q)'
    BY DEF Placed
  <2>1. CASE q # r
    BY <1>1, <2>1, PlacedStays, <1>2 DEF Types, Placed, backend, exchange, Fetch, Does
  <2>2. CASE q = r
    <3>1. On(r)' = On(r) /\ This(r)' = This(r) /\ UNCHANGED <<work, session, carried,
       cookie, client>>
      BY DEF On, Now, This, backend, exchange, Fetch, Does
    <3>2. pc' = [pc EXCEPT ![r] = "dial"] /\ pc[r] \in {"run", "dial"}
      BY DEF Fetch, Does
    <3>3. PlacedAt(r) /\ pc'[r] = "dial"
      BY <1>1, <3>2 DEF Types, Placed
    <3>4. This(r).written => This(r).opened
      BY <1>2, <3>3 DEF PlacedAt, This
    <3> QED
      BY <1>2, <2>2, <3>1, <3>3, <3>4 DEF PlacedAt, Session, Fetch, Does
  <2> QED
    BY <2>1, <2>2
<1> QED
  BY <1>3, <1>4, <1>5 DEF IInv

\* The store is asked to delete a session.
LEMMA StartDeleteKeeps ==
  ASSUME IInv, NEW r \in Requests, StartDelete(r)
  PROVE  IInv'
<1>1. Types /\ Owners /\ Placed
  BY DEF IInv
<1>2. On(r) \in Names /\ This(r) \in Session /\ Tail(work[r]) \in Seq(CallsOf)
  BY <1>1, CallType DEF Placed, PlacedAt, StartDelete, Does
<1>3. Types'
  BY <1>1 DEF Types, backend, exchange, StartDelete, Does
<1>4. Owners'
  BY <1>1 DEF Types, Owners, Owned, Stored, backend, exchange, StartDelete, Does
<1>5. Placed'
  <2> SUFFICES ASSUME NEW q \in Requests PROVE PlacedAt(q)'
    BY DEF Placed
  <2>1. CASE q # r
    BY <1>1, <2>1, PlacedStays, <1>2
    DEF Types, Placed, backend, exchange, StartDelete, Does
  <2>2. CASE q = r
    <3>1. On(r)' = On(r) /\ This(r)' = This(r) /\ UNCHANGED <<work, session, carried,
       cookie, client>>
      BY DEF On, Now, This, backend, exchange, StartDelete, Does
    <3>2. pc' = [pc EXCEPT ![r] = "dial"] /\ pc[r] \in {"run", "dial"}
      BY DEF StartDelete, Does
    <3>3. PlacedAt(r) /\ pc'[r] = "dial"
      BY <1>1, <3>2 DEF Types, Placed
    <3>4. This(r).written => This(r).opened
      BY <1>2, <3>3 DEF PlacedAt, This
    <3> QED
      BY <1>2, <2>2, <3>1, <3>3, <3>4 DEF PlacedAt, Session, StartDelete, Does
  <2> QED
    BY <2>1, <2>2
<1> QED
  BY <1>3, <1>4, <1>5 DEF IInv

\* A client of Redis is made.
LEMMA PingKeeps ==
  ASSUME IInv, NEW r \in Requests, Ping(r)
  PROVE  IInv'
<1>1. Types /\ Owners /\ Placed
  BY DEF IInv
<1>2. On(r) \in Names /\ This(r) \in Session /\ Tail(work[r]) \in Seq(CallsOf)
  BY <1>1, CallType DEF Placed, PlacedAt, Ping, Command
<1>3. Types'
  BY <1>1 DEF Types, backend, exchange, Ping, Command
<1>4. Owners'
  BY <1>1 DEF Types, Owners, Owned, Stored, backend, exchange, Ping, Command
<1>5. Placed'
  <2> SUFFICES ASSUME NEW q \in Requests PROVE PlacedAt(q)'
    BY DEF Placed
  <2>1. CASE q # r
    BY <1>1, <2>1, PlacedStays, <1>2 DEF Types, Placed, backend, exchange, Ping, Command
  <2>2. CASE q = r
    <3>1. On(r)' = On(r) /\ This(r)' = This(r) /\ UNCHANGED <<work, session, carried,
       cookie, client>>
      BY DEF On, Now, This, backend, exchange, Ping, Command
    <3>2. pc' = [pc EXCEPT ![r] = Command(r)] /\ pc[r] \in {"run", "dial"}
      BY DEF Ping
    <3>3. PlacedAt(r) /\ pc'[r] = Command(r)
      BY <1>1, <3>2 DEF Types, Placed
    <3>4. This(r).written => This(r).opened
      BY <1>2, <3>3 DEF PlacedAt, This
    <3> QED
      BY <1>2, <2>2, <3>1, <3>3, <3>4 DEF PlacedAt, Session, Ping, Command
  <2> QED
    BY <2>1, <2>2
<1> QED
  BY <1>3, <1>4, <1>5 DEF IInv

\* A call changes a session.
LEMMA ChangeKeeps ==
  ASSUME IInv, NEW r \in Requests, Change(r)
  PROVE  IInv'
<1>1. Types /\ Owners /\ Placed
  BY DEF IInv
<1>2. On(r) \in Names /\ This(r) \in Session /\ Tail(work[r]) \in Seq(CallsOf)
  BY <1>1, CallType DEF Placed, PlacedAt, Change, Does, Returns
<1> DEFINE x == [Handed(r) EXCEPT !.values = Changed(@, Now(r)),
   !.written = Marks(Handed(r), Now(r))]
<1>3. x \in Session /\ (x.written => x.opened) /\ x.id \in {This(r).id, NoID}
  <2>1. Handed(r) \in Session /\ Handed(r).opened /\ Handed(r).id \in {This(r).id, NoID}
    BY <1>1, HandedType DEF IInv, Change, Does
  <2>2. Changed(Handed(r).values, Now(r)) \in Data
    BY <1>1, <2>1, CallType, ChangedData DEF Change, Does, Session
  <2>3. Marks(Handed(r), Now(r)) \in BOOLEAN
    BY <2>1 DEF Marks, Session
  <2> QED
    BY <2>1, <2>2, <2>3 DEF Session
<1>4. /\ session' \in [Requests -> [Names -> Session]] /\ session'[r][On(r)] = x
      /\ \A q \in Requests,
         n \in Names : q # r \/ n # On(r) => session'[q][n] = session[q][n]
  BY <1>1, <1>2, <1>3, BecomesKeeps DEF Change, Does, Returns
<1> HIDE DEF x
<1>5. Types'
  BY <1>1, <1>2, <1>3, <1>4 DEF Types, backend, exchange, Change, Does, Returns
<1>6. Owners'
  <2>1. Owned(carried[r][On(r)], client[r], On(r)) \/ carried[r][On(r)] = None
    BY <1>1, <1>2 DEF Owners
  <2>2. This(r).id # NoID => Owned(This(r).id, client[r], On(r))
    BY <1>1, <1>2 DEF Owners, This
  <2>3. UNCHANGED <<redis, jar, client, carried, cookie, owner, took>>
    BY DEF Change, backend, exchange
  <2> QED
    BY <1>1, <1>3, <1>4, <2>1, <2>2, <2>3, SessionOwned DEF Placed, PlacedAt, Change
<1>7. Placed'
  <2> SUFFICES ASSUME NEW q \in Requests PROVE PlacedAt(q)'
    BY DEF Placed
  <2>1. CASE q # r
    BY <1>1, <2>1, PlacedStays, <1>4 DEF Types, Placed, backend, exchange, Change, Returns
  <2>2. CASE q = r
    <3>1. pc'[r] = "run" /\ client'[r] = client[r] /\ pc[r] # "idle"
      BY <1>1, <1>2 DEF Types, backend, exchange, Does, Placed, PlacedAt, Change, Returns
    <3>2. \A n \in Names : session'[r][n].written => session'[r][n].opened
      BY <1>1, <1>3, <1>4 DEF Placed, PlacedAt
    <3> QED
      BY <1>1, <2>2, <3>1, <3>2, PlacedRuns DEF Placed, PlacedAt
  <2> QED
    BY <2>1, <2>2
<1> QED
  BY <1>5, <1>6, <1>7 DEF IInv

\* A call reads a session or replaces its options.
LEMMA LookKeeps ==
  ASSUME IInv, NEW r \in Requests, Look(r)
  PROVE  IInv'
<1>1. Types /\ Owners /\ Placed
  BY DEF IInv
<1>2. On(r) \in Names /\ This(r) \in Session /\ Tail(work[r]) \in Seq(CallsOf)
  BY <1>1, CallType DEF Placed, PlacedAt, Look, Does, Returns
<1> DEFINE x == [Handed(r) EXCEPT !.maxAge = IF Now(r).do = "Options" THEN Now(r).arg ELSE @]
<1>3. x \in Session /\ (x.written => x.opened) /\ x.id \in {This(r).id, NoID}
  <2>1. Handed(r) \in Session /\ Handed(r).opened /\ Handed(r).id \in {This(r).id, NoID}
    BY <1>1, HandedType DEF IInv, Look, Does
  <2>2. Now(r).do = "Options" => Now(r).arg \in Int
    BY <1>1, CallType, HandlersAssumption DEF Look, Does
  <2> QED
    BY <2>1, <2>2 DEF Session
<1>4. /\ session' \in [Requests -> [Names -> Session]] /\ session'[r][On(r)] = x
      /\ \A q \in Requests,
         n \in Names : q # r \/ n # On(r) => session'[q][n] = session[q][n]
  BY <1>1, <1>2, <1>3, BecomesKeeps DEF Look, Does, Returns
<1> HIDE DEF x
<1>5. Types'
  BY <1>1, <1>2, <1>3, <1>4 DEF Types, backend, exchange, Look, Does, Returns
<1>6. Owners'
  <2>1. Owned(carried[r][On(r)], client[r], On(r)) \/ carried[r][On(r)] = None
    BY <1>1, <1>2 DEF Owners
  <2>2. This(r).id # NoID => Owned(This(r).id, client[r], On(r))
    BY <1>1, <1>2 DEF Owners, This
  <2>3. UNCHANGED <<redis, jar, client, carried, cookie, owner, took>>
    BY DEF Look, backend, exchange
  <2> QED
    BY <1>1, <1>3, <1>4, <2>1, <2>2, <2>3, SessionOwned DEF Placed, PlacedAt, Look
<1>7. Placed'
  <2> SUFFICES ASSUME NEW q \in Requests PROVE PlacedAt(q)'
    BY DEF Placed
  <2>1. CASE q # r
    BY <1>1, <2>1, PlacedStays, <1>4 DEF Types, Placed, backend, exchange, Look, Returns
  <2>2. CASE q = r
    <3>1. pc'[r] = "run" /\ client'[r] = client[r] /\ pc[r] # "idle"
      BY <1>1, <1>2 DEF Types, backend, exchange, Does, Placed, PlacedAt, Look, Returns
    <3>2. \A n \in Names : session'[r][n].written => session'[r][n].opened
      BY <1>1, <1>3, <1>4 DEF Placed, PlacedAt
    <3> QED
      BY <1>1, <2>2, <3>1, <3>2, PlacedRuns DEF Placed, PlacedAt
  <2> QED
    BY <2>1, <2>2
<1> QED
  BY <1>5, <1>6, <1>7 DEF IInv

\* The store answers a load.
LEMMA LoadKeeps ==
  ASSUME IInv, NEW r \in Requests, Load(r)
  PROVE  IInv'
<1>1. Types /\ Owners /\ Placed
  BY DEF IInv
<1>2. On(r) \in Names /\ This(r) \in Session /\ Tail(work[r]) \in Seq(CallsOf)
  BY <1>1, CallType DEF Placed, PlacedAt, Load
<1> DEFINE x == Opened(Key(r), IF redis[Key(r)] = None THEN Empty ELSE redis[Key(r)], TRUE)
<1>3. x \in Session /\ (x.written => x.opened) /\ x.id = carried[r][On(r)]
  <2>1. Key(r) = carried[r][On(r)] /\ Key(r) \in IDs
    BY <1>1, <1>2 DEF Types, Placed, PlacedAt, Load, Key
  <2>2. (IF redis[Key(r)] = None THEN Empty ELSE redis[Key(r)]) \in Data
    BY <1>1, <2>1, EmptyData DEF Types
  <2> QED
    BY <1>1, <2>1, <2>2 DEF Types, Opened, Session
<1>4. /\ session' \in [Requests -> [Names -> Session]] /\ session'[r][On(r)] = x
      /\ \A q \in Requests,
         n \in Names : q # r \/ n # On(r) => session'[q][n] = session[q][n]
  BY <1>1, <1>2, <1>3, BecomesKeeps DEF Load
<1> HIDE DEF x
<1>5. Types'
  BY <1>1, <1>2, <1>3, <1>4 DEF Types, backend, exchange, Load
<1>6. Owners'
  <2>1. Owned(carried[r][On(r)], client[r], On(r)) \/ carried[r][On(r)] = None
    BY <1>1, <1>2 DEF Owners
  <2>2. This(r).id # NoID => Owned(This(r).id, client[r], On(r))
    BY <1>1, <1>2 DEF Owners, This
  <2>3. UNCHANGED <<redis, jar, client, carried, cookie, owner, took>>
    BY DEF Load, backend, exchange
  <2> QED
    BY <1>1, <1>3, <1>4, <2>1, <2>2, <2>3, SessionOwned DEF Placed, PlacedAt, Load
<1>7. Placed'
  <2> SUFFICES ASSUME NEW q \in Requests PROVE PlacedAt(q)'
    BY DEF Placed
  <2>1. CASE q # r
    BY <1>1, <2>1, PlacedStays, <1>4 DEF Types, Placed, backend, exchange, Load
  <2>2. CASE q = r
    <3>1. pc'[r] = "run" /\ client'[r] = client[r] /\ pc[r] # "idle"
      BY <1>1, <1>2 DEF Types, backend, exchange, Does, Placed, PlacedAt, Load
    <3>2. \A n \in Names : session'[r][n].written => session'[r][n].opened
      BY <1>1, <1>3, <1>4 DEF Placed, PlacedAt
    <3> QED
      BY <1>1, <2>2, <3>1, <3>2, PlacedRuns DEF Placed, PlacedAt
  <2> QED
    BY <2>1, <2>2
<1> QED
  BY <1>5, <1>6, <1>7 DEF IInv

\* The store is asked to keep a session, under a new ID if it has none.
LEMMA StartSaveKeeps ==
  ASSUME IInv, NEW r \in Requests, StartSave(r)
  PROVE  IInv'
<1>1. Types /\ Owners /\ Placed
  BY DEF IInv
<1>2. On(r) \in Names /\ This(r) \in Session /\ client[r] \in Clients /\ This(r).opened
  BY <1>1, CallType DEF StartSave, Does, Placed, PlacedAt, This
<1>3. CASE This(r).id # NoID
  <2>1. UNCHANGED <<session, owner, backend, exchange, jar, work, cookie>>
    BY <1>3 DEF StartSave, exchange
  <2>2. Types'
    BY <1>1, <2>1 DEF Types, StartSave, backend, exchange
  <2>3. Owners'
    BY <1>1, <2>1 DEF Owners, Owned, Stored, backend, exchange
  <2>4. ASSUME NEW q \in Requests PROVE PlacedAt(q)'
    <3>1. CASE q # r
      BY <1>1, <2>1, <3>1, PlacedStays DEF Types, Placed, StartSave, backend, exchange
    <3>2. CASE q = r
      <4>1. On(r)' = On(r) /\ This(r)' = This(r)
        BY <2>1 DEF On, Now, This
      <4>2. PlacedAt(r) /\ pc'[r] = "dial" /\ pc[r] = "run" /\ work[r] # << >>
        BY <1>1 DEF Types, Placed, StartSave, Does
      <4> QED
        BY <1>2, <1>3, <2>1, <3>2, <4>1, <4>2 DEF PlacedAt, exchange
    <3> QED
      BY <3>1, <3>2
  <2> QED
    BY <2>2, <2>3, <2>4 DEF IInv, Placed
<1>4. CASE This(r).id = NoID
  <2>1. PICK id \in IDs : /\ owner[id] = None
                          /\ Becomes(r, [This(r) EXCEPT !.id = id])
                          /\ owner' = [owner EXCEPT ![id] = <<client[r], On(r)>>]
    BY <1>4 DEF StartSave
  <2> DEFINE x == [This(r) EXCEPT !.id = id]
  <2>2. x \in Session /\ x.id = id /\ x.opened /\ x.id # NoID
    BY <1>2, IDsAssumption DEF Session
  <2>3. /\ session' \in [Requests -> [Names -> Session]] /\ session'[r][On(r)] = x
        /\ \A q \in Requests,
           n \in Names : q # r \/ n # On(r) => session'[q][n] = session[q][n]
    BY <1>1, <1>2, <2>1, <2>2, BecomesKeeps
  <2> HIDE DEF x
  <2>4. UNCHANGED <<backend, client, carried, jar, work, cookie>>
        /\ pc' = [pc EXCEPT ![r] = "dial"] /\ pc[r] = "run" /\ work[r] # << >>
    BY DEF StartSave, Does
  <2>5. Types'
    BY <1>1, <1>2, <2>1, <2>3, <2>4 DEF Types, backend
  <2>6. \A i : i # id => owner'[i] = owner[i]
    BY <1>1, <2>1 DEF Types
  <2>7. /\ \A c \in Clients, n \in Names : jar[c][n] # id
        /\ \A q \in Requests, n \in Names : pc[q] # "idle" =>
             carried[q][n] # id /\ session[q][n].id # id /\ cookie[q][n] # id
    <3>1. ASSUME NEW c \in Clients, NEW n \in Names PROVE ~Owned(id, c, n)
      BY <2>1, NoneAssumption DEF Owned
    <3>2. id # None /\ id # NoID
      BY IDsAssumption
    <3> QED
      BY <1>1, <3>1, <3>2 DEF Owners, Stored, Placed, PlacedAt
  <2>8. \A q \in Requests, n \in Names : pc[q] = "idle" =>
          carried[q][n] = None /\ session[q][n].id = NoID /\ cookie[q][n] = None
    BY <1>1 DEF Placed, PlacedAt, Unopened
  <2>9. owner'[id] = <<client[r], On(r)>>
    BY <1>1, <2>1 DEF Types
  <2>10. Owners'
    <3>1. redis'[NoID] = None /\ took' = took
      BY <1>1, <2>4 DEF Owners, backend
    <3>2. ASSUME NEW c \in Clients, NEW n \in Names, jar[c][n] # None
          PROVE  jar[c][n] \in IDs /\ owner'[jar[c][n]] = <<c, n>> /\ jar[c][n] \in took
      BY <1>1, <2>6, <2>7, <3>2 DEF Owners, Stored, Owned
    <3>3. ASSUME NEW q \in Requests, NEW n \in Names, carried[q][n] # None
          PROVE  carried[q][n] \in IDs /\ owner'[carried[q][n]] = <<client[q], n>>
      BY <1>1, <2>6, <2>7, <2>8, <3>3 DEF Owners, Owned
    <3>4. ASSUME NEW q \in Requests, NEW n \in Names, cookie[q][n] \notin {NoID, None}
          PROVE  cookie[q][n] \in IDs /\ owner'[cookie[q][n]] = <<client[q], n>>
                 /\ cookie[q][n] \in took
      BY <1>1, <2>6, <2>7, <2>8, <3>4 DEF Owners, Stored, Owned
    <3>5. ASSUME NEW q \in Requests, NEW n \in Names, session'[q][n].id # NoID
          PROVE  session'[q][n].id \in IDs /\ owner'[session'[q][n].id] = <<client[q], n>>
      <4>1. CASE q = r /\ n = On(r)
        BY <2>2, <2>3, <2>9, <4>1
      <4>2. CASE q # r \/ n # On(r)
        <5>1. session'[q][n] = session[q][n]
          BY <2>3, <4>2
        <5>2. session[q][n].id # id /\ Owned(session[q][n].id, client[q], n)
          BY <1>1, <2>7, <2>8, <3>5, <5>1 DEF Owners
        <5> QED
          BY <2>6, <5>1, <5>2 DEF Owned
      <4> QED
        BY <4>1, <4>2
    <3>6. jar' = jar /\ carried' = carried /\ cookie' = cookie /\ client' = client
      BY <2>4
    <3> QED
      BY <3>1, <3>2, <3>3, <3>4, <3>5, <3>6 DEF Owners, Stored, Owned
  <2>11. ASSUME NEW q \in Requests PROVE PlacedAt(q)'
    <3>1. CASE q # r
      <4>1. session'[q] = session[q]
        BY <1>1, <2>3, <3>1 DEF Types
      <4> QED
        BY <1>1, <2>4, <3>1, <4>1, PlacedStays DEF Types, Placed
    <3>2. CASE q = r
      <4>1. On(r)' = On(r) /\ This(r)' = x
        BY <2>3, <2>4 DEF On, Now, This
      <4>2. \A n \in Names : session'[r][n].written => session'[r][n].opened
        BY <1>1, <2>2, <2>3 DEF Placed, PlacedAt
      <4>3. pc'[r] = "dial" /\ client'[r] \in Clients /\ work'[r] # << >>
        BY <1>1, <1>2, <2>4 DEF Types
      <4> QED
        BY <2>2, <3>2, <4>1, <4>2, <4>3 DEF PlacedAt
    <3> QED
      BY <3>1, <3>2
  <2> QED
    BY <2>5, <2>10, <2>11 DEF IInv, Placed
<1> QED
  BY <1>3, <1>4

\* What a failing operation of the store leaves of a session and its request.
LEMMA FailsKeeps ==
  ASSUME IInv, NEW r \in Requests, pc[r] \in {"dial", "load", "save", "delete"}, Fails(r),
         UNCHANGED <<storeAge, jar, client, carried, cookie, owner>>,
         redis' \in [IDs \cup {NoID} -> Data \cup {None}], redis'[NoID] = None,
         took \subseteq took', took' \subseteq IDs \cup {NoID}
  PROVE  IInv'
<1>1. Types /\ Owners /\ Placed
  BY DEF IInv
<1>2. On(r) \in Names /\ This(r) \in Session /\ Tail(work[r]) \in Seq(CallsOf)
  BY <1>1, CallType DEF Placed, PlacedAt
<1>3. PlacedAt(r) /\ client[r] \in Clients
  BY <1>1 DEF Placed, PlacedAt
<1>4. /\ session' \in [Requests -> [Names -> Session]]
      /\ \A q \in Requests,
         n \in Names : q # r \/ n # On(r) => session'[q][n] = session[q][n]
      /\ session'[r][On(r)].written => session'[r][On(r)].opened
      /\ session'[r][On(r)].id # NoID => Owned(session'[r][On(r)].id, client[r], On(r))
  <2>1. CASE This(r).opened
    BY <1>1, <1>2, <2>1 DEF Types, Owners, Placed, PlacedAt, Fails
  <2>2. CASE ~This(r).opened
    <3>1. Key(r) = carried[r][On(r)] /\ Key(r) # None
      BY <1>3, <2>2 DEF Key, PlacedAt
    <3>2. Owned(Key(r), client[r], On(r))
      BY <1>1, <1>2, <3>1 DEF Owners
    <3>3. Opened(Key(r), Empty, FALSE) \in Session
      BY <1>1, <3>2, SessionType, EmptyData DEF Owned
    <3>4. Becomes(r, Opened(Key(r), Empty, FALSE))
      BY <2>2 DEF Fails
    <3> QED
      BY <1>1, <1>2, <3>2, <3>3, <3>4, BecomesKeeps DEF Opened
  <2> QED
    BY <2>1, <2>2
<1>5. pc' = [pc EXCEPT ![r] = "run"] /\ work' \in {work, [work EXCEPT ![r] = Tail(@)]}
  BY DEF Fails, Returns
<1>6. Types'
  BY <1>1, <1>2, <1>4, <1>5, ZenonT(30) DEF Types
<1>7. Owners'
  <2>1. ASSUME NEW q \in Requests, NEW n \in Names, session'[q][n].id # NoID
        PROVE  Owned(session'[q][n].id, client[q], n)
    <3>1. CASE q = r /\ n = On(r)
      BY <1>4, <2>1, <3>1
    <3>2. CASE q # r \/ n # On(r)
      BY <1>1, <1>4, <2>1, <3>2 DEF Owners
    <3> QED
      BY <3>1, <3>2
  <2> QED
    BY <1>1, <2>1 DEF Owners, Owned, Stored
<1>8. ASSUME NEW q \in Requests PROVE PlacedAt(q)'
  <2>1. CASE q # r
    <3>1. session'[q] = session[q] /\ pc'[q] = pc[q] /\ work'[q] = work[q]
      BY <1>1, <1>4, <1>5, <2>1 DEF Types
    <3> QED
      BY <1>1, <3>1, PlacedStays DEF Placed
  <2>2. CASE q = r
    <3>1. pc'[r] = "run"
      BY <1>1, <1>5 DEF Types
    <3>2. ASSUME NEW n \in Names PROVE session'[r][n].written => session'[r][n].opened
      <4>1. CASE n = On(r)
        BY <1>4, <4>1
      <4>2. CASE n # On(r)
        BY <1>3, <1>4, <4>2 DEF PlacedAt
      <4> QED
        BY <4>1, <4>2
    <3> QED
      BY <1>3, <2>2, <3>1, <3>2, PlacedRuns
  <2> QED
    BY <2>1, <2>2
<1> QED
  BY <1>6, <1>7, <1>8 DEF IInv, Placed

\* The Ping of a new client fails.
LEMMA PingFailsKeeps ==
  ASSUME IInv, NEW r \in Requests, PingFails(r)
  PROVE  IInv'
<1>1. /\ UNCHANGED <<storeAge, jar, client, carried, cookie, owner, redis, took>>
      /\ pc[r] = "dial" /\ Fails(r)
  BY DEF PingFails, exchange
<1>2. redis \in [IDs \cup {NoID} -> Data \cup {None}] /\ redis[NoID] = None
      /\ took \subseteq IDs \cup {NoID}
  BY DEF IInv, Types, Owners
<1> QED
  BY <1>1, <1>2, FailsKeeps

\* A command fails, whether it changed the store or not.
LEMMA CommandFailsKeeps ==
  ASSUME IInv, NEW r \in Requests, CommandFails(r)
  PROVE  IInv'
<1>1. /\ UNCHANGED <<storeAge, jar, client, carried, cookie, owner>>
      /\ pc[r] \in {"load", "save", "delete"} /\ Fails(r)
  BY DEF CommandFails, exchange
<1>2. redis \in [IDs \cup {NoID} -> Data \cup {None}] /\ redis[NoID] = None
      /\ took \subseteq IDs \cup {NoID}
  BY DEF IInv, Types, Owners
<1>3. /\ redis' \in [IDs \cup {NoID} -> Data \cup {None}] /\ redis'[NoID] = None
      /\ took \subseteq took' /\ took' \subseteq IDs \cup {NoID}
  <2>1. CASE UNCHANGED <<redis, took>>
    BY <1>2, <2>1
  <2>2. CASE /\ pc[r] = "save"
             /\ redis' = [redis EXCEPT ![Key(r)] = JSON(This(r).values)]
             /\ took' = took \cup {Key(r)}
    <3>1. Key(r) \in IDs /\ Key(r) # NoID /\ This(r).values \in Data
      BY <2>2, CallType DEF IInv, Placed, PlacedAt, Key, Session
    <3>2. JSON(This(r).values) \in Data
      BY <3>1, JSONData
    <3> QED
      BY <1>2, <2>2, <3>1, <3>2
  <2>3. CASE redis' = [redis EXCEPT ![Key(r)] = None] /\ UNCHANGED took
    BY <1>2, <2>3
  <2> QED
    BY <2>1, <2>2, <2>3 DEF CommandFails
<1> QED
  BY <1>1, <1>3, FailsKeeps

\* The serializer panics.
LEMMA SerializePanicsKeeps ==
  ASSUME IInv, NEW r \in Requests, SerializePanics(r)
  PROVE  IInv'
<1>1. Types /\ Owners /\ Placed
  BY DEF IInv
<1>2. Types'
  BY <1>1 DEF Types, SerializePanics, Panics
<1>3. Owners'
  BY <1>1 DEF Types, Owners, Owned, Stored, SerializePanics, Panics
<1>4. Placed'
  <2> SUFFICES ASSUME NEW q \in Requests PROVE PlacedAt(q)'
    BY DEF Placed
  <2>1. CASE q # r
    BY <1>1, <2>1, PlacedStays
    DEF Types, Placed, backend, exchange, SerializePanics, Panics
  <2>2. CASE q = r
    <3>1. /\ pc'[r] = "run" /\ client'[r] \in Clients
          /\ \A n \in Names : session'[r][n].written => session'[r][n].opened
      BY <1>1 DEF Types, Placed, PlacedAt, backend, exchange, SerializePanics, Panics
    <3> QED
      BY <2>2, <3>1, PlacedRuns
  <2> QED
    BY <2>1, <2>2
<1> QED
  BY <1>2, <1>3, <1>4 DEF IInv

\* The store keeps a session.
LEMMA SetEXKeeps ==
  ASSUME IInv, NEW r \in Requests, SetEX(r)
  PROVE  IInv'
<1>1. Types /\ Owners /\ Placed
  BY DEF IInv
<1>2. On(r) \in Names /\ This(r) \in Session /\ Tail(work[r]) \in Seq(CallsOf)
  BY <1>1, CallType DEF Placed, PlacedAt, SetEX, Saved, Returns
<1> DEFINE x == [This(r) EXCEPT !.written = FALSE, !.exact = Key(r) # NoID]
<1>3. x \in Session /\ (x.written => x.opened) /\ x.id = This(r).id
  BY <1>2 DEF Session
<1>4. /\ session' \in [Requests -> [Names -> Session]] /\ session'[r][On(r)] = x
      /\ \A q \in Requests,
         n \in Names : q # r \/ n # On(r) => session'[q][n] = session[q][n]
  BY <1>1, <1>2, <1>3, BecomesKeeps DEF SetEX, Saved, Returns
<1> HIDE DEF x
<1>5. Key(r) \in IDs /\ JSON(This(r).values) \in Data
  <2>1. Key(r) \in IDs
    BY <1>1, <1>2 DEF Placed, PlacedAt, Key, SetEX, Session
  <2> QED
    BY <1>2, <2>1, JSONData DEF Session
<1>6. Types'
  <2>1. redis' \in [IDs \cup {NoID} -> Data \cup {None}] /\ took' \subseteq IDs \cup {NoID}
    BY <1>1, <1>5 DEF Types, SetEX
  <2>2. cookie' \in [Requests -> [Names -> IDs \cup {NoID, None}]]
    BY <1>1, <1>2, <1>5 DEF Types, SetEX, Saved
  <2>3. /\ pc' \in [Requests -> {"idle", "run", "dial", "load", "save", "delete"}]
        /\ work' \in [Requests -> Seq(CallsOf)]
    BY <1>1, <1>2 DEF Types, SetEX, Saved, Returns
  <2> QED
    BY <1>1, <1>4, <2>1, <2>2, <2>3 DEF Types, exchange, SetEX
<1>7. Owners'
  <2>1. This(r).id # NoID => Owned(This(r).id, client[r], On(r))
    BY <1>1, <1>2 DEF Owners, This
  <2>2. Key(r) = This(r).id /\ Key(r) # NoID /\ Key(r) \in took'
    BY <1>1 DEF Placed, PlacedAt, Key, SetEX
  <2>3. UNCHANGED <<jar, client, carried, owner>> /\ took \subseteq took'
    BY DEF SetEX, exchange
  <2>4. redis'[NoID] = None
    BY <1>1, <2>2 DEF Types, Owners, SetEX
  <2>5. ASSUME NEW q \in Requests, NEW n \in Names, session'[q][n].id # NoID
        PROVE  Owned(session'[q][n].id, client[q], n)
    <3>1. CASE q = r /\ n = On(r)
      BY <1>3, <1>4, <2>1, <2>5, <3>1
    <3>2. CASE q # r \/ n # On(r)
      BY <1>1, <1>4, <2>5, <3>2 DEF Owners
    <3> QED
      BY <3>1, <3>2
  <2>6. ASSUME NEW q \in Requests, NEW n \in Names, cookie'[q][n] \notin {NoID, None}
        PROVE  Owned(cookie'[q][n], client[q], n) /\ cookie'[q][n] \in took'
    <3>1. CASE cookie'[q][n] = cookie[q][n]
      BY <1>1, <2>3, <2>6, <3>1 DEF Owners, Stored
    <3>2. CASE cookie'[q][n] # cookie[q][n]
      <4>1. q = r /\ n = On(r) /\ cookie'[q][n] = Key(r)
        BY <1>1, <1>2, <3>2 DEF Types, SetEX, Saved
      <4> QED
        BY <2>1, <2>2, <2>6, <4>1
    <3> QED
      BY <3>1, <3>2
  <2> QED
    BY <1>1, <2>3, <2>4, <2>5, <2>6 DEF Owners, Owned, Stored
<1>8. Placed'
  <2> SUFFICES ASSUME NEW q \in Requests PROVE PlacedAt(q)'
    BY DEF Placed
  <2>1. CASE q # r
    <3>1. session'[q] = session[q]
      BY <1>1, <1>4, <2>1 DEF Types
    <3>2. /\ pc'[q] = pc[q] /\ work'[q] = work[q] /\ cookie'[q] = cookie[q]
          /\ carried' = carried /\ client' = client
      BY <1>1, <2>1 DEF Types, exchange, SetEX, Saved, Returns
    <3> QED
      BY <1>1, <3>1, <3>2, PlacedStays DEF Placed
  <2>2. CASE q = r
    <3>1. pc'[r] = "run" /\ client'[r] = client[r] /\ pc[r] # "idle"
      BY <1>1, <1>2
      DEF Types, backend, exchange, Does, Placed, PlacedAt, SetEX, Saved, Returns
    <3>2. \A n \in Names : session'[r][n].written => session'[r][n].opened
      BY <1>1, <1>3, <1>4 DEF Placed, PlacedAt
    <3> QED
      BY <1>1, <2>2, <3>1, <3>2, PlacedRuns DEF Placed, PlacedAt
  <2> QED
    BY <2>1, <2>2
<1> QED
  BY <1>6, <1>7, <1>8 DEF IInv

\* The store deletes a session.
LEMMA DelKeeps ==
  ASSUME IInv, NEW r \in Requests, Del(r)
  PROVE  IInv'
<1>1. Types /\ Owners /\ Placed
  BY DEF IInv
<1>2. On(r) \in Names /\ This(r) \in Session /\ Tail(work[r]) \in Seq(CallsOf)
  BY <1>1, CallType DEF Placed, PlacedAt, Del, Saved, Returns
<1> DEFINE x == [This(r) EXCEPT !.written = FALSE, !.exact = NoID # NoID]
<1>3. x \in Session /\ (x.written => x.opened) /\ x.id = This(r).id
  BY <1>2 DEF Session
<1>4. /\ session' \in [Requests -> [Names -> Session]] /\ session'[r][On(r)] = x
      /\ \A q \in Requests,
         n \in Names : q # r \/ n # On(r) => session'[q][n] = session[q][n]
  BY <1>1, <1>2, <1>3, BecomesKeeps DEF Del, Saved, Returns
<1> HIDE DEF x
<1>5. Types'
  BY <1>1, <1>2, <1>3, <1>4 DEF Types, backend, exchange, Del, Saved, Returns
<1>6. Owners'
  <2>1. This(r).id # NoID => Owned(This(r).id, client[r], On(r))
    BY <1>1, <1>2 DEF Owners, This
  <2>2. UNCHANGED <<jar, client, carried, owner>> /\ took \subseteq took'
    BY DEF Del, exchange
  <2>3. redis'[NoID] = None
    BY <1>1 DEF Types, Owners, Del
  <2>4. ASSUME NEW q \in Requests, NEW n \in Names, session'[q][n].id # NoID
        PROVE  Owned(session'[q][n].id, client[q], n)
    <3>1. CASE q = r /\ n = On(r)
      BY <1>3, <1>4, <2>1, <2>4, <3>1
    <3>2. CASE q # r \/ n # On(r)
      BY <1>1, <1>4, <2>4, <3>2 DEF Owners
    <3> QED
      BY <3>1, <3>2
  <2>5. ASSUME NEW q \in Requests, NEW n \in Names, cookie'[q][n] \notin {NoID, None}
        PROVE  Owned(cookie'[q][n], client[q], n) /\ cookie'[q][n] \in took'
    <3>1. CASE cookie'[q][n] = cookie[q][n]
      BY <1>1, <2>2, <2>5, <3>1 DEF Owners, Stored
    <3>2. CASE cookie'[q][n] # cookie[q][n]
      <4>1. q = r /\ n = On(r) /\ cookie'[q][n] = NoID
        BY <1>1, <1>2, <3>2 DEF Types, Del, Saved
      <4> QED
        BY <2>5, <4>1
    <3> QED
      BY <3>1, <3>2
  <2> QED
    BY <1>1, <2>2, <2>3, <2>4, <2>5 DEF Owners, Owned, Stored
<1>7. Placed'
  <2> SUFFICES ASSUME NEW q \in Requests PROVE PlacedAt(q)'
    BY DEF Placed
  <2>1. CASE q # r
    <3>1. session'[q] = session[q]
      BY <1>1, <1>4, <2>1 DEF Types
    <3>2. /\ pc'[q] = pc[q] /\ work'[q] = work[q] /\ cookie'[q] = cookie[q]
          /\ carried' = carried /\ client' = client
      BY <1>1, <2>1 DEF Types, exchange, Del, Saved, Returns
    <3> QED
      BY <1>1, <3>1, <3>2, PlacedStays DEF Placed
  <2>2. CASE q = r
    <3>1. pc'[r] = "run" /\ client'[r] = client[r] /\ pc[r] # "idle"
      BY <1>1, <1>2
      DEF Types, backend, exchange, Does, Placed, PlacedAt, Del, Saved, Returns
    <3>2. \A n \in Names : session'[r][n].written => session'[r][n].opened
      BY <1>1, <1>3, <1>4 DEF Placed, PlacedAt
    <3> QED
      BY <1>1, <2>2, <3>1, <3>2, PlacedRuns DEF Placed, PlacedAt
  <2> QED
    BY <2>1, <2>2
<1> QED
  BY <1>5, <1>6, <1>7 DEF IInv

\* An entry of the store expires.
LEMMA ExpireKeeps ==
  ASSUME IInv, NEW id \in IDs, Expire(id)
  PROVE  IInv'
<1>1. Types /\ Owners /\ Placed
  BY DEF IInv
<1>2. UNCHANGED <<storeAge, took, client, carried, owner, jar, pc, work, session, cookie>>
  BY DEF Expire, exchange
<1>3. Types' /\ Owners'
  BY <1>1, <1>2 DEF Types, Owners, Owned, Stored, Expire
<1>4. Placed'
  BY <1>1, <1>2, PlacedStays DEF Placed
<1> QED
  BY <1>3, <1>4 DEF IInv

\* Every step keeps the invariant.
LEMMA NextInv == IInv /\ [Next]_vars => IInv'
<1>1. ASSUME IInv, UNCHANGED vars PROVE IInv'
  <2>1. UNCHANGED <<storeAge, redis, took, client, carried, owner, jar, pc, work, session,
     cookie>>
    BY <1>1 DEF vars, backend, exchange
  <2>2. Types' /\ Owners'
    BY <1>1, <2>1 DEF IInv, Types, Owners, Owned, Stored
  <2>3. Placed'
    BY <1>1, <2>1, PlacedStays DEF IInv, Placed
  <2> QED
    BY <2>2, <2>3 DEF IInv
<1>2. ASSUME IInv, NEW r \in Requests, Step(r) PROVE IInv'
  BY <1>2, FinishKeeps, RespondKeeps, FetchKeeps, ChangeKeeps, LookKeeps, SaveNothingKeeps,
     StartDeleteKeeps, StartSaveKeeps, PingKeeps, PingFailsKeeps, LoadKeeps,
     SerializePanicsKeeps, SetEXKeeps, DelKeeps, CommandFailsKeeps DEF Step
<1> QED
  BY <1>1, <1>2, ArriveKeeps, ExpireKeeps DEF Next, Terminated

-----------------------------------------------------------------------------
(* The theorems.                                                           *)

\* The invariant holds of every behaviour of the sessions and their store.
\* (sessions/session.go:49-146, sessions/redis/redis.go:157-277)
THEOREM SessionsInvariant == Spec => []IInv
<1> QED
  BY InitInv, NextInv, PTL DEF Spec

\* No request works on an ID drawn for another client or name, and nothing is
\* stored under the empty ID, for any number of clients, requests and failures.
\* (sessions/redis/redis.go:164-199, 275-277)
THEOREM SessionsIsolated == Spec => []Isolated
<1>1. IInv => Isolated
  BY DEF IInv, Owners, Owned, Isolated
<1> QED
  BY <1>1, SessionsInvariant, PTL

\* No client holds the ID of a session that Redis never took.
\* (sessions/redis/redis.go:186-196)
THEOREM CookiesNameStored == Spec => []CookieNamesStored
<1>1. IInv => CookieNamesStored
  BY DEF IInv, Owners, Stored, CookieNamesStored
<1> QED
  BY <1>1, SessionsInvariant, PTL

-----------------------------------------------------------------------------
(* The clients of Redis, and the types of what is left.                     *)

Rest ==
  /\ sent \in [Requests -> BOOLEAN]
  /\ requests \in 0..MaxRequests /\ faults \in 0..MaxFaults
  /\ expect \in [Clients -> [Names -> Data \cup {None}]]

\* Every command under way has its client, and only a Ping that fails leaves
\* one more.
Busy == {r \in Requests : pc[r] \in {"load", "save", "delete"}}

Counted ==
  /\ clients \in Nat /\ unpinged \in Nat
  /\ clients = Cardinality(Busy) + unpinged

CInv == IInv /\ Rest /\ Counted

\* How many commands are under way after a request has moved.
LEMMA BusyMoves ==
  ASSUME IInv, NEW r \in Requests, NEW p, pc' = [pc EXCEPT ![r] = p]
  PROVE  /\ Cardinality(Busy) \in Nat
         /\ r \in Busy => Cardinality(Busy) \in Nat \ {0}
         /\ Cardinality(Busy') =
              IF p \in {"load", "save", "delete"}
              THEN IF r \in Busy THEN Cardinality(Busy) ELSE Cardinality(Busy) + 1
              ELSE IF r \in Busy THEN Cardinality(Busy) - 1 ELSE Cardinality(Busy)
<1>1. IsFiniteSet(Busy) /\ Cardinality(Busy) \in Nat
  BY RequestsAssumption, FS_Subset, FS_CardinalityType DEF Busy
<1>2. /\ pc'[r] = p
      /\ \A q \in Requests : q # r => pc'[q] = pc[q]
  BY DEF IInv, Types
<1>3. CASE r \in Busy
  <2>1. Cardinality(Busy \ {r}) = Cardinality(Busy) - 1 /\ Cardinality(Busy) > 0
    <3>1. Busy # {}
      BY <1>3
    <3> QED
      BY <1>1, <1>3, <3>1, FS_RemoveElement, FS_EmptySet
  <2>2. Busy' = IF p \in {"load", "save", "delete"} THEN Busy ELSE Busy \ {r}
    BY <1>2, <1>3 DEF Busy
  <2> QED
    BY <1>1, <1>3, <2>1, <2>2
<1>4. CASE r \notin Busy
  <2>1. Cardinality(Busy \cup {r}) = Cardinality(Busy) + 1
    BY <1>1, <1>4, FS_AddElement
  <2>2. Busy' = IF p \in {"load", "save", "delete"} THEN Busy \cup {r} ELSE Busy
    BY <1>2, <1>4 DEF Busy
  <2> QED
    BY <1>1, <1>4, <2>1, <2>2
<1> QED
  BY <1>3, <1>4

\* What the client will find keeps its type.
LEMMA ExpectsType ==
  ASSUME Rest, NEW r \in Requests, NEW f \in Data, Expects(r, f)
  PROVE  expect' \in [Clients -> [Names -> Data \cup {None}]]
BY DEF Rest, Expects

\* Every step of a request counts its client right.
LEMMA StepCounts ==
  ASSUME CInv, NEW r \in Requests, Arrive(r) \/ Step(r)
  PROVE  Rest' /\ Counted'
<1> USE BoundsAssumption
<1>1. IInv /\ Rest /\ Counted
  BY DEF CInv
<1>2. ASSUME NEW p, pc' = [pc EXCEPT ![r] = p],
             p \notin {"load", "save", "delete"},
             pc[r] \notin {"load", "save", "delete"}, UNCHANGED <<clients, unpinged>>
      PROVE  Counted'
  BY <1>1, <1>2, BusyMoves DEF Counted, Busy
<1>3. ASSUME NEW p, pc' = [pc EXCEPT ![r] = p],
             p \notin {"load", "save", "delete"},
             pc[r] \in {"load", "save", "delete"}, Close,
             UNCHANGED unpinged
      PROVE  Counted'
  <2>1. /\ Cardinality(Busy) \in Nat \ {0} /\ Cardinality(Busy') = Cardinality(Busy) - 1
    BY <1>1, <1>3, BusyMoves DEF Busy
  <2> QED
    BY <1>1, <1>3, <2>1 DEF Counted, Close, Rest
<1>4. CASE Arrive(r)
  <2>1. requests' \in 0..MaxRequests
    BY <1>1, <1>4 DEF Arrive, Rest
  <2>2. expect' \in [Clients -> [Names -> Data \cup {None}]]
    BY <1>1, <1>4 DEF Arrive, Rest
  <2>3. Counted'
    BY <1>2, <1>4 DEF Arrive, backend
  <2> QED
    BY <1>1, <1>4, <2>1, <2>2, <2>3 DEF Arrive, Rest
<1>5. CASE Finish(r)
  BY <1>1, <1>2, <1>5 DEF Finish, backend, Rest
<1>6. CASE Respond(r)
  BY <1>1, <1>2, <1>6 DEF Respond, Does, Returns, backend, Rest
<1>7. CASE Fetch(r) \/ StartDelete(r) \/ SaveNothing(r) \/ Change(r) \/ Look(r)
  <2>1. UNCHANGED <<clients, unpinged, faults, sent, requests, expect>>
    BY <1>7 DEF Fetch, StartDelete, SaveNothing, Change, Look, backend, exchange
  <2>2. pc[r] = "run" /\ \E p \in {"run", "dial"} : pc' = [pc EXCEPT ![r] = p]
    BY <1>7 DEF Fetch, StartDelete, SaveNothing, Change, Look, Does, Returns
  <2> QED
    BY <1>1, <1>2, <2>1, <2>2 DEF Rest
<1>8. CASE StartSave(r)
  BY <1>1, <1>2, <1>8 DEF StartSave, Does, backend, Rest
<1>9. CASE Ping(r)
  <2>1. Counted'
    <3>1. Cardinality(Busy) \in Nat /\ Cardinality(Busy') = Cardinality(Busy) + 1
      BY <1>1, <1>9, BusyMoves DEF Ping, Command, Busy
    <3> QED
      BY <1>1, <1>9, <3>1 DEF Ping, Counted, Rest
  <2> QED
    BY <1>1, <1>9, <2>1 DEF Ping, exchange, Rest
<1>10. CASE PingFails(r)
  <2>1. pc' = [pc EXCEPT ![r] = "run"]
    BY <1>10 DEF PingFails, Fails, Returns
  <2>2. Counted'
    <3>1. Cardinality(Busy) \in Nat /\ Cardinality(Busy') = Cardinality(Busy)
      <4>1. r \notin Busy
        BY <1>10 DEF PingFails, Busy
      <4>2. ASSUME NEW p, p = "run" PROVE p \notin {"load", "save", "delete"}
        BY <4>2
      <4>3. ASSUME NEW p, p = "run" PROVE pc' = [pc EXCEPT ![r] = p]
        BY <2>1, <4>3
      <4> QED
        BY <1>1, <4>1, <4>2, <4>3, BusyMoves
    <3> QED
      BY <1>1, <1>10, <3>1 DEF PingFails, Counted, Rest
  <2> QED
    BY <1>1, <1>10, <2>2 DEF PingFails, exchange, Rest
<1>11. CASE Load(r)
  BY <1>1, <1>3, <1>11 DEF Load, exchange, Rest
<1>12. CASE SerializePanics(r)
  BY <1>1, <1>3, <1>12 DEF SerializePanics, Panics, Rest
<1>13. CASE SetEX(r) \/ Del(r)
  <2>1. /\ pc[r] \in {"save", "delete"} /\ pc' = [pc EXCEPT ![r] = "run"] /\ Close
        /\ UNCHANGED <<unpinged, faults, sent, requests>>
    BY <1>13 DEF SetEX, Del, Saved, Returns, exchange
  <2>2. PICK f \in Data : Expects(r, f)
    <3>1. This(r).values \in Data
      BY <1>1, <2>1, CallType DEF IInv, Placed, PlacedAt, Session
    <3> QED
      BY <1>13, <3>1, JSONData, EmptyData DEF SetEX, Del, Saved
  <2> QED
    BY <1>1, <1>3, <2>1, <2>2, ExpectsType DEF Rest
<1>14. CASE CommandFails(r)
  <2>1. pc' = [pc EXCEPT ![r] = "run"]
    BY <1>14 DEF CommandFails, Fails, Returns
  <2>2. expect' \in [Clients -> [Names -> Data \cup {None}]]
    BY <1>1, <1>14 DEF CommandFails, Rest
  <2>3. Counted'
    BY <1>3, <1>14, <2>1 DEF CommandFails
  <2> QED
    BY <1>1, <1>14, <2>2, <2>3 DEF CommandFails, exchange, Rest
<1> QED
  BY <1>4, <1>5, <1>6, <1>7, <1>8, <1>9, <1>10, <1>11, <1>12, <1>13, <1>14 DEF Step

\* The initial states have no client of Redis.
LEMMA InitCounts == Init => CInv
<1> SUFFICES ASSUME Init PROVE Rest /\ Counted
  BY InitInv DEF CInv
<1>1. Rest
  BY BoundsAssumption, EmptyData DEF Init, Rest
<1>2. Busy = {}
  BY DEF Init, Busy
<1> QED
  BY <1>1, <1>2, FS_EmptySet, BoundsAssumption DEF Init, Counted

\* Every step keeps the count.
LEMMA NextCounts == CInv /\ [Next]_vars => CInv'
<1> SUFFICES ASSUME CInv, [Next]_vars PROVE Rest' /\ Counted'
  BY NextInv DEF CInv
<1>1. ASSUME NEW id \in IDs, Expire(id) PROVE Rest' /\ Counted'
  <2>1. UNCHANGED <<sent, requests, clients, unpinged, pc>> /\ faults' = faults - 1 /\ faults > 0
    BY <1>1 DEF Expire, exchange
  <2>2. expect' \in [Clients -> [Names -> Data \cup {None}]]
    BY <1>1 DEF Expire, CInv, Rest
  <2>3. Busy' = Busy /\ Cardinality(Busy) \in Nat
    BY <2>1, RequestsAssumption, FS_Subset, FS_CardinalityType DEF Busy
  <2> QED
    BY <2>1, <2>2, <2>3, BoundsAssumption DEF CInv, Rest, Counted
<1>2. ASSUME UNCHANGED vars PROVE Rest' /\ Counted'
  BY <1>2 DEF vars, backend, exchange, CInv, Rest, Counted, Busy
<1> QED
  BY <1>1, <1>2, StepCounts DEF Next, Terminated

\* The counts hold throughout.
THEOREM CountInvariant == Spec => []CInv
BY InitCounts, NextCounts, PTL DEF Spec

\* Every variable keeps its type, the number of Redis clients among them: no
\* path closes one twice.
THEOREM SessionsTypes == Spec => []TypeOK
<1>1. CInv => TypeOK
  BY DEF CInv, IInv, Types, Rest, Counted, TypeOK
<1> QED
  BY <1>1, CountInvariant, PTL

\* The clients of Redis that are open are those of the commands under way, and
\* one for every Ping that failed: every other is closed, once, on every path
\* and for any number of requests under way.  (redis.go:203-273)
THEOREM ClientsAreClosed == Spec => []ClientsClosed
<1>1. CInv => ClientsClosed
  BY DEF CInv, Counted, Busy, ClientsClosed
<1> QED
  BY <1>1, CountInvariant, PTL

-----------------------------------------------------------------------------
(* What a request finds of the one before.                                  *)

\* What the store answers for an ID, or for no cookie.
Found(id) == IF id \in IDs /\ redis[id] # None THEN redis[id] ELSE Empty

\* The cookie that names the session.
Naming(id) == IF id = NoID THEN None ELSE id

\* While a client's one request is under way, what the client is known to have
\* is what the store holds under the cookie it will have; a session not opened
\* yet goes by the cookie the client has, and one opened and not written is what
\* the store holds, under the ID that the client's cookie will name.
InStep(r, n) ==
  /\ expect[client[r]][n] = Found(Keeps(r, n))
  /\ ~session[r][n].opened => carried[r][n] = jar[client[r]][n]
  /\ session[r][n].opened /\ session[r][n].exact /\ ~session[r][n].written =>
       /\ JSON(session[r][n].values) = Found(session[r][n].id)
       /\ ~sent[r] => Keeps(r, n) = Naming(session[r][n].id)

\* Between requests it is what the store holds under the cookie it has.  Nothing
\* is known while requests of the client overlap.
RecalledAt(c, n) ==
  expect[c][n] # None =>
    /\ Active(c) = {} => expect[c][n] = Found(jar[c][n])
    /\ \A r \in Active(c) : Active(c) = {r} /\ InStep(r, n)

\* What the store holds has been through the serializer.
Plain == \A id \in IDs : redis[id] # None => JSON(redis[id]) = redis[id]

Cookies == \A r \in Requests, n \in Names : cookie[r][n] # None => session[r][n].opened

Recalled == Plain /\ Cookies /\ \A c \in Clients, n \in Names : RecalledAt(c, n)

RInv == CInv /\ Recalled

\* A value that was serialized once is not changed by a second time.
LEMMA JSONTwice ==
  ASSUME NEW f \in Data
  PROVE  JSON(JSON(f)) = JSON(f)
<1>1. PICK K \in SUBSET Keys : f \in [K -> Values]
  BY DataType
<1>2. /\ JSON(f) = [k \in K |-> IF f[k] = "int" THEN "float64" ELSE f[k]]
      /\ DOMAIN JSON(f) = K
  BY <1>1 DEF JSON
<1>3. JSON(JSON(f)) = [k \in K |-> IF JSON(f)[k] = "int" THEN "float64" ELSE JSON(f)[k]]
  BY <1>2 DEF JSON
<1>4. ASSUME NEW k \in K PROVE JSON(f)[k] # "int"
  BY <1>2
<1>5. JSON(f) = [k \in K |-> JSON(f)[k]]
  BY <1>2
<1> QED
  BY <1>3, <1>4, <1>5

LEMMA JSONEmpty == JSON(Empty) = Empty
<1>1. DOMAIN Empty = {}
  BY DEF Empty
<1> QED
  BY <1>1 DEF JSON, Empty

\* The cookie a client will have is its own for the name.
LEMMA KeepsOwned ==
  ASSUME IInv, NEW r \in Requests, client[r] \in Clients, NEW n \in Names
  PROVE  Keeps(r, n) # None => Owned(Keeps(r, n), client[r], n)
BY IDsAssumption DEF IInv, Owners, Stored, Keeps

\* An ID belongs to one client and name.
LEMMA OwnedOnce ==
  ASSUME NEW id, NEW c, NEW n, NEW d, NEW m, Owned(id, c, n), Owned(id, d, m)
  PROVE  c = d /\ n = m
BY DEF Owned

\* What a step leaves as it is for a client and a name stays known, or nothing
\* is known any more.
LEMMA PairStays ==
  ASSUME IInv, NEW c \in Clients, NEW n \in Names, RecalledAt(c, n),
         expect'[c][n] \in {expect[c][n], None},
         Active(c)' = Active(c), jar'[c][n] = jar[c][n],
         \A q \in Active(c) :
           /\ client'[q] = client[q] /\ carried'[q][n] = carried[q][n]
           /\ cookie'[q][n] = cookie[q][n] /\ session'[q][n] = session[q][n]
           /\ sent[q] => sent'[q],
         \A id \in IDs : Owned(id, c, n) => redis'[id] = redis[id]
  PROVE  RecalledAt(c, n)'
<1> SUFFICES ASSUME expect'[c][n] # None, expect[c][n] # None,
                    expect'[c][n] = expect[c][n]
             PROVE  /\ Active(c) = {} => expect[c][n] = Found(jar[c][n])'
                    /\ \A r \in Active(c) : Active(c) = {r} /\ InStep(r, n)'
  BY DEF RecalledAt
<1>1. ASSUME NEW id, id \notin IDs \/ Owned(id, c, n)
      PROVE  Found(id)' = Found(id)
  BY <1>1 DEF Found
<1>2. Active(c) = {} => expect[c][n] = Found(jar[c][n])'
  <2>1. jar[c][n] \notin IDs \/ Owned(jar[c][n], c, n)
    BY IDsAssumption DEF IInv, Owners, Stored
  <2>2. IF jar[c][n] \in IDs /\ redis'[jar[c][n]] # None
        THEN redis'[jar[c][n]] = redis[jar[c][n]] ELSE TRUE
    BY <2>1
  <2> QED
    BY <1>1, <2>1, <2>2 DEF RecalledAt, Found
<1>3. ASSUME NEW r \in Active(c)
      PROVE  Active(c) = {r} /\ InStep(r, n)'
  <2>1. /\ r \in Requests /\ client[r] = c /\ InStep(r, n) /\ Active(c) = {r}
        /\ client'[r] = c /\ session'[r][n] = session[r][n]
    BY DEF RecalledAt, Active
  <2>2. Keeps(r, n)' = Keeps(r, n)
    BY <2>1 DEF Keeps
  <2>3. Keeps(r, n) \notin IDs \/ Owned(Keeps(r, n), c, n)
    BY <2>1, KeepsOwned, IDsAssumption
  <2>4. session[r][n].id \notin IDs \/ Owned(session[r][n].id, c, n)
    BY <2>1, IDsAssumption DEF IInv, Owners
  <2>5. /\ Found(Keeps(r, n))' = Found(Keeps(r, n))
        /\ Found(session[r][n].id)' = Found(session[r][n].id)
    BY <1>1, <2>1, <2>2, <2>3, <2>4 DEF Found
  <2>6. Naming(session[r][n].id)' = Naming(session[r][n].id)
    BY <2>1 DEF Naming
  <2> QED
    BY <2>1, <2>2, <2>5, <2>6 DEF InStep
<1> QED
  BY <1>2, <1>3

\* What is known of the name a request of one client works on.
LEMMA Recall ==
  ASSUME IInv, Recalled, NEW r \in Requests, pc[r] # "idle", NEW n \in Names,
         expect[client[r]][n] # None
  PROVE  Active(client[r]) = {r} /\ InStep(r, n)
<1>1. client[r] \in Clients /\ r \in Active(client[r])
  BY DEF IInv, Placed, PlacedAt, Active
<1> QED
  BY <1>1 DEF Recalled, RecalledAt

\* A step of a request that is under way changes one session and one entry of
\* the store: it is enough to look at those.
LEMMA StepRecalls ==
  ASSUME IInv, Recalled, NEW r \in Requests, pc[r] # "idle", NEW n \in Names,
         NEW p \in {"run", "dial", "load", "save", "delete"},
         pc' = [pc EXCEPT ![r] = p], UNCHANGED <<jar, client, carried>>,
         \A q \in Requests, m \in Names : q # r \/ m # n =>
           session'[q][m] = session[q][m] /\ cookie'[q][m] = cookie[q][m],
         \A q \in Requests : sent[q] => sent'[q],
         \A id \in IDs : redis'[id] = redis[id] \/ Owned(id, client[r], n),
         \A d \in Clients, m \in Names :
           d # client[r] \/ m # n => expect'[d][m] = expect[d][m],
         Plain', cookie'[r][n] # None => session'[r][n].opened,
         expect'[client[r]][n] # None => Active(client[r]) = {r} /\ InStep(r, n)'
  PROVE  Recalled'
<1>1. client[r] \in Clients
  BY DEF IInv, Placed, PlacedAt
<1>2. pc'[r] # "idle" /\ \A q \in Requests : q # r => pc'[q] = pc[q]
  BY DEF IInv, Types
<1>3. \A c \in Clients : Active(c)' = Active(c)
  BY <1>2 DEF Active
<1>4. Cookies'
  BY DEF Recalled, Cookies
<1>5. ASSUME NEW c \in Clients, NEW m \in Names
      PROVE  RecalledAt(c, m)'
  <2>1. CASE c = client[r] /\ m = n
    <3> SUFFICES ASSUME expect'[c][n] # None
                 PROVE  /\ Active(c)' = {} => expect'[c][n] = Found(jar[c][n])'
                        /\ \A q \in Active(c)' : Active(c)' = {q} /\ InStep(q, n)'
      BY <2>1 DEF RecalledAt
    <3>1. Active(c)' = {r} /\ InStep(r, n)'
      BY <1>3, <2>1
    <3> QED
      BY <3>1
  <2>2. CASE c # client[r] \/ m # n
    <3>1. RecalledAt(c, m)
      BY DEF Recalled
    <3>2. \A q \in Active(c) : q \in Requests /\ (q # r \/ m # n)
      BY <2>2 DEF Active
    <3>3. \A id \in IDs : Owned(id, c, m) => redis'[id] = redis[id]
      BY <2>2, OwnedOnce
    <3>4. /\ expect'[c][m] = expect[c][m] /\ jar'[c][m] = jar[c][m]
          /\ Active(c)' = Active(c)
      BY <1>3, <2>2
    <3>5. \A q \in Active(c) :
            /\ client'[q] = client[q] /\ carried'[q][m] = carried[q][m]
            /\ cookie'[q][m] = cookie[q][m] /\ session'[q][m] = session[q][m]
            /\ sent[q] => sent'[q]
      BY <3>2
    <3> QED
      BY <3>1, <3>3, <3>4, <3>5, PairStays
  <2> QED
    BY <2>1, <2>2
<1> QED
  BY <1>4, <1>5 DEF Recalled

\* A step that leaves a session, its cookie and the store alone.
LEMMA QuietRecalls ==
  ASSUME IInv, Recalled, NEW r \in Requests, pc[r] # "idle", NEW n \in Names,
         NEW p \in {"run", "dial", "load", "save", "delete"},
         pc' = [pc EXCEPT ![r] = p],
         UNCHANGED <<jar, client, carried, session, cookie, redis, expect>>,
         \A q \in Requests : sent[q] => sent'[q]
  PROVE  Recalled'
<1>1. Plain' /\ (cookie'[r][n] # None => session'[r][n].opened)
  BY DEF Recalled, Plain, Cookies
<1>2. ASSUME expect'[client[r]][n] # None
      PROVE  Active(client[r]) = {r} /\ InStep(r, n)'
  <2>1. Active(client[r]) = {r} /\ InStep(r, n)
    BY <1>2, Recall
  <2>2. /\ Found(Keeps(r, n))' = Found(Keeps(r, n))
        /\ Found(session[r][n].id)' = Found(session[r][n].id)
        /\ Keeps(r, n)' = Keeps(r, n)
    BY DEF Found, Keeps
  <2>3. Naming(session[r][n].id)' = Naming(session[r][n].id)
    BY DEF Naming
  <2> QED
    BY <2>1, <2>2, <2>3 DEF InStep
<1> QED
  BY <1>1, <1>2, StepRecalls

\* A request arrives: of a client that has no other, it goes by the cookies the
\* client has.
LEMMA ArriveRecalls ==
  ASSUME IInv, Rest, Recalled, NEW r \in Requests, Arrive(r)
  PROVE  Recalled'
<1>1. PICK c \in Clients :
        /\ client' = [client EXCEPT ![r] = c]
        /\ carried' = [carried EXCEPT ![r] = jar[c]]
        /\ expect' = IF Active(c) = {} THEN expect
                     ELSE [expect EXCEPT ![c] = [n \in Names |-> None]]
  BY DEF Arrive
<1>2. /\ pc[r] = "idle" /\ pc' = [pc EXCEPT ![r] = "run"]
      /\ UNCHANGED <<redis, jar, session, cookie, sent>>
  BY DEF Arrive, backend
<1>3. /\ pc'[r] = "run" /\ client'[r] = c /\ carried'[r] = jar[c]
      /\ \A q \in Requests : q # r =>
           pc'[q] = pc[q] /\ client'[q] = client[q] /\ carried'[q] = carried[q]
  BY <1>1, <1>2 DEF IInv, Types
<1>4. Plain' /\ Cookies'
  BY <1>2 DEF Recalled, Plain, Cookies
<1>5. /\ Active(c)' = Active(c) \cup {r}
      /\ \A d \in Clients : d # c => Active(d)' = Active(d)
      /\ \A d \in Clients : r \notin Active(d)
  BY <1>2, <1>3 DEF Active
<1>6. ASSUME NEW d \in Clients, NEW n \in Names
      PROVE  RecalledAt(d, n)'
  <2>1. RecalledAt(d, n)
    BY DEF Recalled
  <2>2. CASE d # c
    <3>1. expect'[d][n] = expect[d][n]
      BY <1>1, <2>2 DEF Rest
    <3>2. \A q \in Active(d) : q \in Requests /\ q # r
      BY <1>5 DEF Active
    <3> QED
      BY <1>2, <1>3, <1>5, <2>1, <2>2, <3>1, <3>2, PairStays
  <2>3. CASE d = c /\ Active(c) # {}
    <3>1. expect'[c][n] = None
      BY <1>1, <2>3 DEF Rest
    <3> QED
      BY <2>3, <3>1 DEF RecalledAt
  <2>4. CASE d = c /\ Active(c) = {}
    <3> SUFFICES ASSUME expect[c][n] # None PROVE RecalledAt(c, n)'
      BY <1>1, <2>4 DEF RecalledAt
    <3>1. expect[c][n] = Found(jar[c][n]) /\ expect' = expect /\ Active(c)' = {r}
      BY <1>1, <1>5, <2>1, <2>4 DEF RecalledAt
    <3>2. cookie[r][n] = None /\ session[r][n] = Unopened
      BY <1>2 DEF IInv, Placed, PlacedAt
    <3>3. Keeps(r, n)' = jar[c][n]
      BY <1>2, <1>3, <3>2, IDsAssumption DEF Keeps
    <3>4. Found(Keeps(r, n))' = Found(jar[c][n])
      BY <1>2, <3>3 DEF Found
    <3>5. InStep(r, n)'
      BY <1>2, <1>3, <3>1, <3>2, <3>4 DEF InStep, Unopened
    <3> QED
      BY <3>1, <3>5 DEF RecalledAt
  <2> QED
    BY <2>2, <2>3, <2>4
<1> QED
  BY <1>4, <1>6 DEF Recalled

\* A request ends: its client has the cookies, and no other request if anything
\* is known.
LEMMA FinishRecalls ==
  ASSUME IInv, Rest, Recalled, NEW r \in Requests, Finish(r)
  PROVE  Recalled'
<1>0. client[r] \in Clients
  BY DEF Finish, IInv, Placed, PlacedAt
<1> PICK c \in Clients : c = client[r]
  BY <1>0
<1>1. /\ pc[r] = "run" /\ pc' = [pc EXCEPT ![r] = "idle"]
      /\ jar' = [jar EXCEPT ![c] = [n \in Names |-> Keeps(r, n)]]
      /\ carried' = [carried EXCEPT ![r] = [n \in Names |-> None]]
      /\ session' = [session EXCEPT ![r] = [n \in Names |-> Unopened]]
      /\ cookie' = [cookie EXCEPT ![r] = [n \in Names |-> None]]
      /\ client' = [client EXCEPT ![r] = None]
      /\ sent' = [sent EXCEPT ![r] = FALSE]
      /\ UNCHANGED <<redis, expect>>
  BY DEF Finish, backend
<1>2. r \in Active(c)
  BY <1>1 DEF Active
<1>3. /\ pc'[r] = "idle" /\ \A n \in Names : cookie'[r][n] = None
      /\ \A q \in Requests : q # r =>
           /\ pc'[q] = pc[q] /\ client'[q] = client[q] /\ carried'[q] = carried[q]
           /\ session'[q] = session[q] /\ cookie'[q] = cookie[q] /\ sent'[q] = sent[q]
  BY <1>1 DEF IInv, Types, Rest
<1>4. /\ \A d \in Clients, n \in Names : d # c => jar'[d][n] = jar[d][n]
      /\ \A n \in Names : jar'[c][n] = Keeps(r, n)
  BY <1>1, <1>2 DEF IInv, Types
<1>5. Plain'
  BY <1>1 DEF Recalled, Plain
<1>6. Cookies'
  BY <1>3 DEF Recalled, Cookies
<1>7. /\ Active(c)' = Active(c) \ {r}
      /\ \A d \in Clients : d # c => Active(d)' = Active(d) /\ r \notin Active(d)
  <2>1. ASSUME NEW d \in Clients, NEW q \in Requests, q # r
        PROVE  q \in Active(d)' <=> q \in Active(d)
    BY <1>3, <2>1 DEF Active
  <2>2. \A d \in Clients : r \notin Active(d)' /\ (d # c => r \notin Active(d))
    BY <1>3 DEF Active
  <2>3. \A d \in Clients : Active(d) \subseteq Requests /\ Active(d)' \subseteq Requests
    BY DEF Active
  <2>4. Active(c)' = Active(c) \ {r}
    <3>1. \A q \in Requests : q \in Active(c)' <=> q \in Active(c) /\ q # r
      BY <1>2, <2>1, <2>2
    <3> QED
      BY <1>2, <2>3, <3>1
  <2>5. ASSUME NEW d \in Clients, d # c PROVE Active(d)' = Active(d)
    <3>1. \A q \in Requests : q \in Active(d)' <=> q \in Active(d)
      BY <2>1, <2>2, <2>5
    <3> QED
      BY <2>3, <3>1
  <2> QED
    BY <2>2, <2>4, <2>5
<1>8. ASSUME NEW d \in Clients, NEW n \in Names
      PROVE  RecalledAt(d, n)'
  <2>1. RecalledAt(d, n)
    BY DEF Recalled
  <2>2. CASE d # c
    <3>1. \A q \in Active(d) : q \in Requests /\ q # r
      BY <1>7, <2>2 DEF Active
    <3> QED
      BY <1>1, <1>3, <1>4, <1>7, <2>1, <2>2, <3>1, PairStays
  <2>3. CASE d = c
    <3> SUFFICES ASSUME expect[c][n] # None
                 PROVE  /\ expect'[c][n] = Found(jar[c][n])'
                        /\ Active(c)' = {}
      BY <1>1, <2>3 DEF RecalledAt
    <3>1. Active(c) = {r} /\ InStep(r, n)
      BY <1>1, Recall
    <3>2. Active(c)' = {} /\ expect'[c][n] = Found(Keeps(r, n))
      BY <1>1, <1>7, <3>1 DEF InStep
    <3>3. Found(jar[c][n])' = Found(Keeps(r, n))
      <4>1. jar'[c][n] = Keeps(r, n) /\ redis' = redis
        BY <1>1, <1>4
      <4> QED
        BY <4>1 DEF Found
    <3> QED
      BY <3>2, <3>3
  <2> QED
    BY <2>2, <2>3
<1> QED
  BY <1>5, <1>6, <1>8 DEF Recalled

\* A step of a call that leaves its session alone.
LEMMA QuietStepRecalls ==
  ASSUME IInv, Rest, Recalled, NEW r \in Requests,
         \/ Respond(r) \/ Fetch(r) \/ SaveNothing(r) \/ StartDelete(r) \/ Ping(r)
         \/ SerializePanics(r)
         \/ PingFails(r) /\ This(r).opened
  PROVE  Recalled'
<1>1. pc[r] # "idle" /\ work[r] # << >>
  BY DEF IInv, Placed, PlacedAt, Respond, Fetch, SaveNothing, StartDelete, Ping,
         SerializePanics, PingFails, Does
<1>2. PICK n \in Names : n = On(r)
  BY <1>1, CallType DEF IInv
<1>3. UNCHANGED <<jar, client, carried, session, cookie, redis, expect>>
  BY DEF Respond, Fetch, SaveNothing, StartDelete, Ping, SerializePanics, PingFails,
         Fails, backend, exchange
<1>4. \A q \in Requests : sent[q] => sent'[q]
  BY DEF Rest, Respond, Fetch, SaveNothing, StartDelete, Ping, SerializePanics, Panics,
         PingFails, backend, exchange
<1>5. PICK p \in {"run", "dial", "load", "save", "delete"} : pc' = [pc EXCEPT ![r] = p]
  BY DEF Respond, Fetch, SaveNothing, StartDelete, Ping, Command, SerializePanics,
         Panics, PingFails, Fails, Returns
<1> QED
  BY <1>1, <1>3, <1>4, <1>5, QuietRecalls

\* A step of a call that only makes its session another one: one that is opened
\* and, if it is not written, still what the store holds.
LEMMA SessionRecalls ==
  ASSUME IInv, Recalled, NEW r \in Requests, pc[r] # "idle",
         NEW n \in Names, n = On(r), NEW x \in Session, Becomes(r, x),
         NEW p \in {"run", "dial", "load", "save", "delete"},
         pc' = [pc EXCEPT ![r] = p],
         UNCHANGED <<jar, client, carried, sent, cookie, redis, expect>>,
         x.opened,
         InStep(r, n) /\ x.exact /\ ~x.written =>
           /\ JSON(x.values) = Found(x.id)
           /\ ~sent[r] => Keeps(r, n) = Naming(x.id)
  PROVE  Recalled'
<1>1. /\ session'[r][n] = x
      /\ \A q \in Requests, m \in Names : q # r \/ m # n => session'[q][m] = session[q][m]
  BY BecomesKeeps DEF IInv
<1>2. Plain'
  BY DEF Recalled, Plain
<1>3. ASSUME expect'[client[r]][n] # None
      PROVE  Active(client[r]) = {r} /\ InStep(r, n)'
  <2>1. Active(client[r]) = {r} /\ InStep(r, n)
    BY <1>3, Recall
  <2>2. Found(Keeps(r, n))' = Found(Keeps(r, n)) /\ Keeps(r, n)' = Keeps(r, n)
    BY DEF Found, Keeps
  <2>3. /\ Naming(session[r][n].id)' = Naming(x.id)
        /\ Found(session[r][n].id)' = Found(x.id)
    BY <1>1 DEF Naming, Found
  <2> QED
    BY <1>1, <2>1, <2>2, <2>3 DEF InStep
<1>4. cookie'[r][n] # None => session'[r][n].opened
  BY <1>1
<1>5. /\ \A q \in Requests, m \in Names : q # r \/ m # n =>
           session'[q][m] = session[q][m] /\ cookie'[q][m] = cookie[q][m]
      /\ \A q \in Requests : sent[q] => sent'[q]
      /\ \A id \in IDs : redis'[id] = redis[id] \/ Owned(id, client[r], n)
      /\ \A d \in Clients, m \in Names :
           d # client[r] \/ m # n => expect'[d][m] = expect[d][m]
  BY <1>1
<1> QED
  BY <1>2, <1>3, <1>4, <1>5, StepRecalls

\* The session a call is handed is what the client's cookie names, if it is not
\* written: a new one for a client without a cookie.
LEMMA HandedInStep ==
  ASSUME IInv, Recalled, NEW r \in Requests, work[r] # << >>, Held(r),
         NEW n \in Names, n = On(r), InStep(r, n), Handed(r).exact, ~Handed(r).written
  PROVE  /\ JSON(Handed(r).values) = Found(Handed(r).id)
         /\ ~sent[r] => Keeps(r, n) = Naming(Handed(r).id)
<1>1. CASE This(r).opened
  BY <1>1 DEF Handed, This, InStep
<1>2. CASE ~This(r).opened
  <2>1. /\ Handed(r).values = Empty /\ Handed(r).id = NoID
        /\ jar[client[r]][n] = None
    BY <1>2 DEF Handed, Opened, InStep, Held, This
  <2>2. cookie[r][n] = None
    BY <1>2 DEF Recalled, Cookies, This
  <2>3. Keeps(r, n) = Naming(NoID) /\ Found(NoID) = Empty
    BY <2>1, <2>2, IDsAssumption DEF Keeps, Naming, Found
  <2> QED
    BY <2>1, <2>3, JSONEmpty
<1> QED
  BY <1>1, <1>2

\* What a call changes it marks, unless there is nothing to change.
LEMMA ChangeRecalls ==
  ASSUME IInv, Recalled, NEW r \in Requests, Change(r)
  PROVE  Recalled'
<1>1. pc[r] = "run" /\ work[r] # << >> /\ Held(r) /\ Now(r).do \in Changes
  BY DEF Change, Does
<1>2. PICK n \in Names : n = On(r)
  BY <1>1, CallType DEF IInv
<1>3. Handed(r) \in Session /\ Handed(r).opened /\ Now(r) \in CallsOf
  BY <1>1, HandedType, CallType DEF IInv
<1>4. PICK x : /\ x = [Handed(r) EXCEPT !.values = Changed(@, Now(r)),
                                        !.written = Marks(Handed(r), Now(r))]
               /\ Becomes(r, x)
  BY DEF Change
<1>5. Changed(Handed(r).values, Now(r)) \in Data
  BY <1>1, <1>3, ChangedData DEF Session
<1>6. Marks(Handed(r), Now(r)) \in BOOLEAN
  BY <1>3 DEF Marks, Session
<1>7. /\ x \in Session /\ x.opened /\ x.exact = Handed(r).exact /\ x.id = Handed(r).id
      /\ x.written = Marks(Handed(r), Now(r))
      /\ x.values = Changed(Handed(r).values, Now(r))
  BY <1>3, <1>4, <1>5, <1>6 DEF Session
<1>8. ASSUME InStep(r, n), x.exact, ~x.written
      PROVE  /\ JSON(x.values) = Found(x.id)
             /\ ~sent[r] => Keeps(r, n) = Naming(x.id)
  <2>1. ~Handed(r).written /\ Now(r).do = "Clear" /\ Handed(r).values = Empty
    BY <1>7, <1>8 DEF Marks
  <2>2. x.values = Handed(r).values
    BY <1>7, <2>1 DEF Changed
  <2> QED
    BY <1>1, <1>2, <1>7, <1>8, <2>1, <2>2, HandedInStep
<1>9. /\ pc' = [pc EXCEPT ![r] = "run"]
      /\ UNCHANGED <<jar, client, carried, sent, cookie, redis, expect>>
  BY DEF Change, Returns, backend, exchange
<1> QED
  BY <1>1, <1>2, <1>4, <1>7, <1>8, <1>9, SessionRecalls

\* A look changes no value.
LEMMA LookRecalls ==
  ASSUME IInv, Recalled, NEW r \in Requests, Look(r)
  PROVE  Recalled'
<1>1. pc[r] = "run" /\ work[r] # << >> /\ Held(r)
  BY DEF Look, Does
<1>2. PICK n \in Names : n = On(r)
  BY <1>1, CallType DEF IInv
<1>3. Handed(r) \in Session /\ Handed(r).opened /\ Now(r) \in CallsOf
  BY <1>1, HandedType, CallType DEF IInv
<1>4. PICK x : /\ x = [Handed(r) EXCEPT !.maxAge =
                          IF Now(r).do = "Options" THEN Now(r).arg ELSE @]
               /\ Becomes(r, x)
  BY DEF Look
<1>5. /\ x \in Session /\ x.opened /\ x.exact = Handed(r).exact /\ x.id = Handed(r).id
      /\ x.written = Handed(r).written /\ x.values = Handed(r).values
  BY <1>3, <1>4, HandlersAssumption DEF Session
<1>6. InStep(r, n) /\ x.exact /\ ~x.written =>
        /\ JSON(x.values) = Found(x.id)
        /\ ~sent[r] => Keeps(r, n) = Naming(x.id)
  BY <1>1, <1>2, <1>5, HandedInStep
<1>7. /\ pc' = [pc EXCEPT ![r] = "run"]
      /\ UNCHANGED <<jar, client, carried, sent, cookie, redis, expect>>
  BY DEF Look, Returns, backend, exchange
<1> QED
  BY <1>1, <1>2, <1>4, <1>5, <1>6, <1>7, SessionRecalls

\* A Save draws the ID of a session that is written.
LEMMA StartSaveRecalls ==
  ASSUME IInv, Recalled, NEW r \in Requests, StartSave(r)
  PROVE  Recalled'
<1>1. /\ pc[r] = "run" /\ work[r] # << >> /\ This(r).written
      /\ pc' = [pc EXCEPT ![r] = "dial"]
      /\ UNCHANGED <<jar, client, carried, sent, cookie, redis, expect>>
  BY DEF StartSave, Does, backend
<1>2. PICK n \in Names : n = On(r)
  BY <1>1, CallType DEF IInv
<1>3. CASE This(r).id # NoID
  <2>1. session' = session
    BY <1>3 DEF StartSave
  <2> QED
    BY <1>1, <2>1, QuietRecalls
<1>4. CASE This(r).id = NoID
  <2>1. PICK id \in IDs : Becomes(r, [This(r) EXCEPT !.id = id])
    BY <1>4 DEF StartSave
  <2>2. PICK x : x = [This(r) EXCEPT !.id = id] /\ Becomes(r, x)
    BY <2>1
  <2>3. This(r) \in Session /\ This(r).opened
    BY <1>1, <1>2, CallType DEF IInv, Placed, PlacedAt, This
  <2>4. x \in Session /\ x.opened /\ x.written
    BY <1>1, <2>2, <2>3 DEF Session
  <2> QED
    BY <1>1, <1>2, <2>2, <2>4, SessionRecalls
<1> QED
  BY <1>3, <1>4

\* A session that is loaded is what the store holds under the cookie.
LEMMA LoadRecalls ==
  ASSUME IInv, Recalled, NEW r \in Requests, Load(r)
  PROVE  Recalled'
<1>1. /\ pc[r] = "load" /\ work[r] # << >> /\ ~This(r).opened /\ carried[r][On(r)] # None
      /\ pc' = [pc EXCEPT ![r] = "run"]
      /\ UNCHANGED <<jar, client, carried, sent, cookie, redis, expect>>
  BY DEF Load, IInv, Placed, PlacedAt, exchange
<1>2. PICK n \in Names : n = On(r)
  BY <1>1, CallType DEF IInv
<1>3. PICK id \in IDs : id = carried[r][n]
  BY <1>1, <1>2 DEF IInv, Types
<1>4. Found(id) \in Data /\ Key(r) = id
  BY <1>1, <1>2, <1>3, EmptyData DEF IInv, Types, Found, Key
<1>5. PICK x : x = Opened(id, Found(id), TRUE) /\ Becomes(r, x)
  BY <1>4 DEF Load, Found
<1>6. x \in Session /\ x.opened /\ x.id = id /\ x.values = Found(id)
  BY <1>4, <1>5, SessionType DEF IInv, Opened
<1>7. JSON(Found(id)) = Found(id)
  BY JSONEmpty DEF Recalled, Plain, Found
<1>8. InStep(r, n) => Keeps(r, n) = Naming(id)
  <2>1. cookie[r][n] = None
    BY <1>1, <1>2 DEF Recalled, Cookies, This
  <2> QED
    BY <1>1, <1>2, <1>3, <2>1, IDsAssumption DEF InStep, This, Keeps, Naming
<1> QED
  BY <1>1, <1>2, <1>5, <1>6, <1>7, <1>8, SessionRecalls

\* A session that could not be loaded is not what the store holds, and says so.
LEMMA FailedLoadRecalls ==
  ASSUME IInv, Recalled, NEW r \in Requests, pc[r] # "idle", work[r] # << >>,
         ~This(r).opened, carried[r][On(r)] # None, Fails(r),
         UNCHANGED <<jar, client, carried, sent, cookie, redis, expect>>
  PROVE  Recalled'
<1>1. PICK n \in Names : n = On(r)
  BY CallType DEF IInv
<1>2. PICK x : x = Opened(Key(r), Empty, FALSE) /\ Becomes(r, x)
  BY DEF Fails
<1>3. Key(r) \in IDs
  BY <1>1 DEF IInv, Types, Key
<1>4. x \in Session /\ x.opened /\ ~x.exact
  BY <1>2, <1>3, EmptyData, SessionType DEF IInv, Opened
<1>5. pc' = [pc EXCEPT ![r] = "run"]
  BY DEF Fails
<1> QED
  BY <1>1, <1>2, <1>4, <1>5, SessionRecalls

\* A step of a call that keeps the values and the ID of its session and says
\* that they are saved, or that they are gone.
LEMMA SavedSession ==
  ASSUME IInv, NEW r \in Requests, work[r] # << >>, This(r).opened,
         NEW id, NEW values, Saved(r, id, values), NEW n \in Names, n = On(r)
  PROVE  /\ session'[r][n].opened /\ session'[r][n].id = session[r][n].id
         /\ session'[r][n].values = session[r][n].values
         /\ session'[r][n].exact = (id # NoID)
         /\ \A q \in Requests, m \in Names : q # r \/ m # n =>
              session'[q][m] = session[q][m] /\ cookie'[q][m] = cookie[q][m]
         /\ cookie'[r][n] = IF sent[r] THEN cookie[r][n] ELSE id
<1>1. This(r) \in Session
  BY CallType DEF IInv
<1>2. PICK x : x = [This(r) EXCEPT !.written = FALSE, !.exact = id # NoID] /\ Becomes(r, x)
  BY DEF Saved
<1>3. /\ x \in Session /\ x.opened /\ x.id = This(r).id /\ x.values = This(r).values
      /\ x.exact = (id # NoID)
  BY <1>1, <1>2 DEF Session
<1>4. /\ session'[r][n] = x
      /\ \A q \in Requests, m \in Names : q # r \/ m # n => session'[q][m] = session[q][m]
  BY <1>2, <1>3, BecomesKeeps DEF IInv
<1>5. /\ cookie'[r][n] = IF sent[r] THEN cookie[r][n] ELSE id
      /\ \A q \in Requests, m \in Names : q # r \/ m # n => cookie'[q][m] = cookie[q][m]
  BY DEF Saved, IInv, Types
<1> QED
  BY <1>3, <1>4, <1>5 DEF This

\* What is stored is what the session holds, under its own ID.
LEMMA SetEXRecalls ==
  ASSUME IInv, Rest, Recalled, NEW r \in Requests, SetEX(r)
  PROVE  Recalled'
<1>1. /\ pc[r] = "save" /\ work[r] # << >> /\ This(r).opened /\ This(r).id # NoID
      /\ client[r] \in Clients
  BY DEF SetEX, IInv, Placed, PlacedAt
<1>2. PICK n \in Names : n = On(r)
  BY <1>1, CallType DEF IInv
<1>3. PICK id : id = Key(r)
  OBVIOUS
<1>4. /\ session[r][n].id = id /\ id # NoID /\ session[r][n].opened
      /\ Owned(id, client[r], n) /\ id \in IDs
  BY <1>1, <1>2, <1>3 DEF Key, This, IInv, Owners, Owned
<1>5. PICK f : f = JSON(session[r][n].values)
  OBVIOUS
<1>6. session[r][n].values \in Data /\ f \in Data /\ JSON(f) = f
  BY <1>5, JSONData, JSONTwice DEF IInv, Types, Session
<1>7. /\ redis' = [redis EXCEPT ![id] = f] /\ Saved(r, id, f)
      /\ UNCHANGED <<jar, client, carried, sent>>
      /\ pc' = [pc EXCEPT ![r] = "run"]
  BY <1>2, <1>3, <1>5 DEF SetEX, This, exchange, Saved, Returns
<1>8. redis'[id] = f /\ \A d \in IDs : d # id => redis'[d] = redis[d]
  BY <1>4, <1>7 DEF IInv, Types
<1>9. Plain'
  BY <1>6, <1>8 DEF Recalled, Plain
<1>10. /\ session'[r][n].opened /\ session'[r][n].id = id
       /\ session'[r][n].values = session[r][n].values
       /\ \A q \in Requests, m \in Names : q # r \/ m # n =>
            session'[q][m] = session[q][m] /\ cookie'[q][m] = cookie[q][m]
       /\ cookie'[r][n] = IF sent[r] THEN cookie[r][n] ELSE id
  BY <1>1, <1>2, <1>4, <1>7, SavedSession
<1>11. /\ \A d \in Clients, m \in Names :
            d # client[r] \/ m # n => expect'[d][m] = expect[d][m]
       /\ IF Active(client[r]) = {r} /\ (sent[r] => Keeps(r, n) = id)
          THEN expect'[client[r]][n] = f
          ELSE expect'[client[r]][n] = expect[client[r]][n]
  <2>1. This(r).id = id /\ Expects(r, f)
    BY <1>2, <1>4, <1>7 DEF Saved, This
  <2>2. /\ \A d \in Clients, m \in Names :
             d # client[r] \/ m # n => expect'[d][m] = expect[d][m]
        /\ IF Active(client[r]) = {r} /\ (sent[r] => Keeps(r, n) = This(r).id)
           THEN expect'[client[r]][n] = f
           ELSE expect'[client[r]][n] = expect[client[r]][n]
    BY <1>1, <1>2, <2>1 DEF Expects, Rest
  <2> QED
    BY <2>1, <2>2
<1>12. Found(id)' = f
  <2>1. redis'[id] # None
    BY <1>6, <1>8, DataAssumption
  <2> QED
    BY <1>4, <1>8, <2>1 DEF Found
<1>13. Keeps(r, n)' = IF sent[r] THEN Keeps(r, n) ELSE id
  BY <1>4, <1>7, <1>10, IDsAssumption DEF Keeps
<1>14. ASSUME expect'[client[r]][n] # None
       PROVE  Active(client[r]) = {r} /\ InStep(r, n)'
  <2>1. Active(client[r]) = {r}
    BY <1>1, <1>11, <1>14, Recall
  <2>2. expect'[client'[r]][n] = Found(Keeps(r, n))'
    <3>1. CASE sent[r] => Keeps(r, n) = id
      <4>1. Keeps(r, n)' = id
        BY <1>13, <3>1
      <4>2. Found(Keeps(r, n))' = f
        BY <1>12, <4>1 DEF Found
      <4> QED
        BY <1>7, <1>11, <2>1, <3>1, <4>2
    <3>2. CASE sent[r] /\ Keeps(r, n) # id
      <4>1. expect'[client[r]][n] = Found(Keeps(r, n))
        BY <1>1, <1>11, <1>14, <3>2, Recall DEF InStep
      <4>2. Keeps(r, n)' = Keeps(r, n)
        BY <1>13, <3>2
      <4>3. Found(Keeps(r, n))' = Found(Keeps(r, n))
        BY <1>8, <3>2, <4>2 DEF Found
      <4> QED
        BY <1>7, <4>1, <4>3
    <3> QED
      BY <3>1, <3>2
  <2>3. JSON(session'[r][n].values) = Found(session[r][n].id)'
    <3>1. Found(session[r][n].id)' = f
      BY <1>10, <1>12 DEF Found
    <3> QED
      BY <1>5, <1>10, <3>1
  <2>4. ~sent'[r] => Keeps(r, n)' = Naming(session[r][n].id)'
    BY <1>4, <1>7, <1>10, <1>13 DEF Naming
  <2> QED
    BY <1>10, <2>1, <2>2, <2>3, <2>4 DEF InStep
<1>15. \A d \in IDs : redis'[d] = redis[d] \/ Owned(d, client[r], n)
  BY <1>4, <1>8
<1> QED
  BY <1>1, <1>7, <1>9, <1>10, <1>11, <1>14, <1>15, StepRecalls

\* A session that is deleted is found empty, and so is one that never was.
LEMMA DelRecalls ==
  ASSUME IInv, Rest, Recalled, NEW r \in Requests, Del(r)
  PROVE  Recalled'
<1>1. pc[r] = "delete" /\ work[r] # << >> /\ This(r).opened /\ client[r] \in Clients
  BY DEF Del, IInv, Placed, PlacedAt
<1>2. PICK n \in Names : n = On(r)
  BY <1>1, CallType DEF IInv
<1>3. PICK id : id = Key(r)
  OBVIOUS
<1>4. /\ session[r][n].id = id /\ session[r][n].opened
      /\ id \in IDs => Owned(id, client[r], n)
      /\ id \in IDs \cup {NoID}
  BY <1>1, <1>2, <1>3, IDsAssumption DEF Key, This, IInv, Owners, Types, Session
<1>5. /\ redis' = [redis EXCEPT ![id] = None] /\ Saved(r, NoID, Empty)
      /\ UNCHANGED <<jar, client, carried, sent>>
      /\ pc' = [pc EXCEPT ![r] = "run"]
  BY <1>3 DEF Del, exchange, Saved, Returns
<1>6. redis'[id] = None /\ \A d \in IDs : d # id => redis'[d] = redis[d]
  BY <1>4, <1>5 DEF IInv, Types
<1>7. Plain'
  BY <1>6 DEF Recalled, Plain
<1>8. /\ session'[r][n].opened /\ session'[r][n].id = id /\ session'[r][n].exact = FALSE
      /\ \A q \in Requests, m \in Names : q # r \/ m # n =>
           session'[q][m] = session[q][m] /\ cookie'[q][m] = cookie[q][m]
      /\ cookie'[r][n] = IF sent[r] THEN cookie[r][n] ELSE NoID
  <2>1. session'[r][n].exact = (NoID # NoID)
    BY <1>1, <1>2, <1>5, SavedSession
  <2>2. /\ session'[r][n].opened /\ session'[r][n].id = session[r][n].id
        /\ \A q \in Requests, m \in Names : q # r \/ m # n =>
             session'[q][m] = session[q][m] /\ cookie'[q][m] = cookie[q][m]
        /\ cookie'[r][n] = IF sent[r] THEN cookie[r][n] ELSE NoID
    BY <1>1, <1>2, <1>5, SavedSession
  <2> QED
    BY <1>4, <2>1, <2>2
<1>9. /\ \A d \in Clients, m \in Names :
           d # client[r] \/ m # n => expect'[d][m] = expect[d][m]
      /\ IF Active(client[r]) = {r} /\ (sent[r] => Keeps(r, n) = id)
         THEN expect'[client[r]][n] = Empty
         ELSE expect'[client[r]][n] = expect[client[r]][n]
  <2>1. This(r).id = id /\ Expects(r, Empty)
    BY <1>2, <1>4, <1>5 DEF Saved, This
  <2>2. /\ \A d \in Clients, m \in Names :
             d # client[r] \/ m # n => expect'[d][m] = expect[d][m]
        /\ IF Active(client[r]) = {r} /\ (sent[r] => Keeps(r, n) = This(r).id)
           THEN expect'[client[r]][n] = Empty
           ELSE expect'[client[r]][n] = expect[client[r]][n]
    BY <1>1, <1>2, <2>1 DEF Expects, Rest
  <2> QED
    BY <2>1, <2>2
<1>10. Keeps(r, n)' = IF sent[r] THEN Keeps(r, n) ELSE None
  BY <1>5, <1>8, IDsAssumption DEF Keeps
<1>11. ASSUME expect'[client[r]][n] # None
       PROVE  Active(client[r]) = {r} /\ InStep(r, n)'
  <2>1. Active(client[r]) = {r}
    BY <1>1, <1>9, <1>11, Recall
  <2>2. expect'[client'[r]][n] = Found(Keeps(r, n))'
    <3>1. CASE sent[r] => Keeps(r, n) = id
      <4>1. Keeps(r, n)' \in {id, None}
        BY <1>10, <3>1
      <4>2. Found(Keeps(r, n))' = Empty
        BY <1>6, <4>1, IDsAssumption DEF Found
      <4> QED
        BY <1>5, <1>9, <2>1, <3>1, <4>2
    <3>2. CASE sent[r] /\ Keeps(r, n) # id
      <4>1. expect'[client[r]][n] = Found(Keeps(r, n))
        BY <1>1, <1>9, <1>11, <3>2, Recall DEF InStep
      <4>2. Keeps(r, n)' = Keeps(r, n)
        BY <1>10, <3>2
      <4>3. Found(Keeps(r, n))' = Found(Keeps(r, n))
        BY <1>6, <3>2, <4>2 DEF Found
      <4> QED
        BY <1>5, <4>1, <4>3
    <3> QED
      BY <3>1, <3>2
  <2> QED
    BY <1>8, <2>1, <2>2 DEF InStep
<1>12. \A d \in IDs : redis'[d] = redis[d] \/ Owned(d, client[r], n)
  BY <1>4, <1>6
<1> QED
  BY <1>1, <1>5, <1>7, <1>8, <1>9, <1>11, <1>12, StepRecalls

\* Whether a command that failed was done is not known.
LEMMA FailedCommandRecalls ==
  ASSUME IInv, Rest, Recalled, NEW r \in Requests, CommandFails(r), pc[r] # "load"
  PROVE  Recalled'
<1>1. /\ pc[r] \in {"save", "delete"} /\ work[r] # << >> /\ This(r).opened
      /\ client[r] \in Clients
  BY DEF CommandFails, IInv, Placed, PlacedAt
<1>2. PICK n \in Names : n = On(r)
  BY <1>1, CallType DEF IInv
<1>3. PICK id : id = Key(r)
  OBVIOUS
<1>4. /\ session[r][n].id = id /\ session[r][n].opened
      /\ id \in IDs => Owned(id, client[r], n)
      /\ id \in IDs \cup {NoID}
  BY <1>1, <1>2, <1>3, IDsAssumption DEF Key, This, IInv, Owners, Types, Session
<1>5. PICK f : f = JSON(session[r][n].values)
  OBVIOUS
<1>6. session[r][n].values \in Data /\ f \in Data /\ JSON(f) = f
  BY <1>5, JSONData, JSONTwice DEF IInv, Types, Session
<1>7. /\ \/ redis' = redis
         \/ redis' = [redis EXCEPT ![id] = f]
         \/ redis' = [redis EXCEPT ![id] = None]
      /\ expect' = [expect EXCEPT ![client[r]][n] = None]
      /\ UNCHANGED <<jar, client, carried, sent, session, cookie>>
      /\ pc' = [pc EXCEPT ![r] = "run"]
  BY <1>1, <1>2, <1>3, <1>5 DEF CommandFails, This, exchange, Fails, Returns
<1>8. /\ redis'[id] \in {redis[id], f, None}
      /\ \A d \in IDs : d # id => redis'[d] = redis[d]
  BY <1>4, <1>7 DEF IInv, Types
<1>9. Plain'
  BY <1>6, <1>8 DEF Recalled, Plain
<1>10. /\ expect'[client[r]][n] = None
       /\ \A d \in Clients, m \in Names :
            d # client[r] \/ m # n => expect'[d][m] = expect[d][m]
  BY <1>1, <1>7 DEF Rest
<1>11. \A d \in IDs : redis'[d] = redis[d] \/ Owned(d, client[r], n)
  BY <1>4, <1>8
<1>12. cookie'[r][n] # None => session'[r][n].opened
  BY <1>4, <1>7
<1> QED
  BY <1>1, <1>7, <1>9, <1>10, <1>11, <1>12, StepRecalls

\* An entry that reaches its age: nothing is known of its owner's session.
LEMMA ExpireRecalls ==
  ASSUME IInv, Rest, Recalled, NEW id \in IDs, Expire(id)
  PROVE  Recalled'
<1>1. /\ redis' = [redis EXCEPT ![id] = None]
      /\ expect' = [expect EXCEPT ![owner[id][1]][owner[id][2]] = None]
      /\ UNCHANGED <<jar, pc, client, carried, sent, session, cookie>>
  BY DEF Expire, exchange
<1>2. redis'[id] = None /\ \A d \in IDs : d # id => redis'[d] = redis[d]
  BY <1>1 DEF IInv, Types
<1>3. Plain'
  BY <1>2 DEF Recalled, Plain
<1>4. Cookies'
  BY <1>1 DEF Recalled, Cookies
<1>5. ASSUME NEW c \in Clients, NEW n \in Names
      PROVE  RecalledAt(c, n)'
  <2>1. RecalledAt(c, n)
    BY DEF Recalled
  <2>2. Active(c)' = Active(c)
    BY <1>1 DEF Active
  <2>3. CASE Owned(id, c, n)
    <3>1. expect'[c][n] = None
      BY <1>1, <2>3 DEF Owned, Rest
    <3> QED
      BY <3>1 DEF RecalledAt
  <2>4. CASE ~Owned(id, c, n)
    <3>1. expect'[c][n] \in {expect[c][n], None}
      BY <1>1 DEF Rest
    <3>2. \A d \in IDs : Owned(d, c, n) => redis'[d] = redis[d]
      BY <1>2, <2>4
    <3>3. \A q \in Active(c) :
            /\ client'[q] = client[q] /\ carried'[q][n] = carried[q][n]
            /\ cookie'[q][n] = cookie[q][n] /\ session'[q][n] = session[q][n]
            /\ sent[q] => sent'[q]
      BY <1>1
    <3>4. jar'[c][n] = jar[c][n]
      BY <1>1
    <3> QED
      BY <2>1, <2>2, <3>1, <3>2, <3>3, <3>4, PairStays
  <2> QED
    BY <2>3, <2>4
<1> QED
  BY <1>3, <1>4, <1>5 DEF Recalled

\* The initial states: nothing is stored and nothing expected.
LEMMA InitRecalls == Init => Recalled
<1> SUFFICES ASSUME Init PROVE Recalled
  OBVIOUS
<1>1. Plain /\ Cookies
  BY DEF Init, Plain, Cookies
<1>2. ASSUME NEW c \in Clients, NEW n \in Names PROVE RecalledAt(c, n)
  <2>1. Active(c) = {} /\ expect[c][n] = Empty /\ jar[c][n] = None
    BY DEF Init, Active
  <2>2. Found(jar[c][n]) = Empty
    BY <2>1, IDsAssumption DEF Found
  <2> QED
    BY <2>1, <2>2 DEF RecalledAt
<1> QED
  BY <1>1, <1>2 DEF Recalled

\* Every step keeps it.
LEMMA NextRecalls == RInv /\ [Next]_vars => Recalled'
<1> SUFFICES ASSUME IInv, Rest, Recalled, [Next]_vars PROVE Recalled'
  BY DEF RInv, CInv
<1>1. ASSUME NEW r \in Requests, Step(r) PROVE Recalled'
  <2>1. CASE Finish(r)
    BY <2>1, FinishRecalls
  <2>2. CASE \/ Respond(r) \/ Fetch(r) \/ SaveNothing(r) \/ StartDelete(r) \/ Ping(r)
             \/ SerializePanics(r)
    BY <2>2, QuietStepRecalls
  <2>3. CASE Change(r)
    BY <2>3, ChangeRecalls
  <2>4. CASE Look(r)
    BY <2>4, LookRecalls
  <2>5. CASE StartSave(r)
    BY <2>5, StartSaveRecalls
  <2>6. CASE PingFails(r)
    <3>1. CASE This(r).opened
      BY <2>6, <3>1, QuietStepRecalls
    <3>2. CASE ~This(r).opened
      <4>1. /\ pc[r] # "idle" /\ work[r] # << >> /\ carried[r][On(r)] # None
            /\ Fails(r) /\ UNCHANGED <<jar, client, carried, sent, cookie, redis, expect>>
        BY <2>6, <3>2 DEF PingFails, IInv, Placed, PlacedAt, exchange
      <4> QED
        BY <3>2, <4>1, FailedLoadRecalls
    <3> QED
      BY <3>1, <3>2
  <2>7. CASE Load(r)
    BY <2>7, LoadRecalls
  <2>8. CASE SetEX(r)
    BY <2>8, SetEXRecalls
  <2>9. CASE Del(r)
    BY <2>9, DelRecalls
  <2>10. CASE CommandFails(r)
    <3>1. CASE pc[r] = "load"
      <4>1. /\ pc[r] # "idle" /\ work[r] # << >> /\ ~This(r).opened
            /\ carried[r][On(r)] # None /\ Fails(r)
        BY <2>10, <3>1 DEF CommandFails, IInv, Placed, PlacedAt
      <4>2. UNCHANGED <<jar, client, carried, sent, cookie, redis, expect>>
        BY <2>10, <3>1 DEF CommandFails, exchange
      <4> QED
        BY <4>1, <4>2, FailedLoadRecalls
    <3>2. CASE pc[r] # "load"
      BY <2>10, <3>2, FailedCommandRecalls
    <3> QED
      BY <3>1, <3>2
  <2> QED
    BY <1>1, <2>1, <2>2, <2>3, <2>4, <2>5, <2>6, <2>7, <2>8, <2>9, <2>10 DEF Step
<1>2. CASE UNCHANGED vars
  <2>1. Plain' /\ Cookies'
    BY <1>2 DEF vars, backend, Recalled, Plain, Cookies
  <2>2. ASSUME NEW c \in Clients, NEW n \in Names PROVE RecalledAt(c, n)'
    <3>1. RecalledAt(c, n) /\ Active(c)' = Active(c)
      BY <1>2 DEF vars, exchange, Recalled, Active
    <3>2. /\ expect'[c][n] = expect[c][n] /\ jar'[c][n] = jar[c][n] /\ redis' = redis
          /\ \A q \in Active(c) :
               /\ client'[q] = client[q] /\ carried'[q][n] = carried[q][n]
               /\ cookie'[q][n] = cookie[q][n] /\ session'[q][n] = session[q][n]
               /\ sent[q] => sent'[q]
      BY <1>2 DEF vars, backend, exchange
    <3> QED
      BY <3>1, <3>2, PairStays
  <2> QED
    BY <2>1, <2>2 DEF Recalled
<1>3. CASE Terminated
  BY <1>2, <1>3 DEF Terminated
<1>4. ASSUME NEW r \in Requests, Arrive(r) PROVE Recalled'
  BY <1>4, ArriveRecalls
<1>5. ASSUME NEW id \in IDs, Expire(id) PROVE Recalled'
  BY <1>5, ExpireRecalls
<1> QED
  BY <1>1, <1>2, <1>3, <1>4, <1>5 DEF Next

\* While a client has one request at a time, what is expected of its session is
\* what the store holds under the cookie it will have.
THEOREM RecallInvariant == Spec => []RInv
<1>1. Init => Recalled
  BY InitRecalls
<1>2. RInv /\ [Next]_vars => Recalled'
  BY NextRecalls
<1>3. Init => RInv
  BY <1>1, InitCounts DEF RInv
<1>4. CInv' /\ Recalled' => RInv'
  BY DEF RInv
<1> QED
  BY <1>2, <1>3, <1>4, CountInvariant, PTL DEF Spec

\* What a session that is not written holds is what the last Save stored, for
\* any clients, requests, handlers and failures.
THEOREM FindsLastSave == Spec => []ReadsLastSave
<1>1. RInv => ReadsLastSave
  <2> SUFFICES ASSUME RInv, NEW r \in Requests, NEW n \in Names,
                      pc[r] = "run", session[r][n].opened, session[r][n].exact,
                      ~session[r][n].written, expect[client[r]][n] # None,
                      sent[r] => Keeps(r, n) = Naming(session[r][n].id)
               PROVE  JSON(session[r][n].values) = expect[client[r]][n]
    BY DEF ReadsLastSave, Naming
  <2>1. InStep(r, n)
    BY Recall DEF RInv, CInv
  <2>2. Keeps(r, n) = Naming(session[r][n].id)
    BY <2>1 DEF InStep, RInv, CInv, Rest
  <2>3. Found(Naming(session[r][n].id)) = Found(session[r][n].id)
    BY IDsAssumption DEF Found, Naming
  <2> QED
    BY <2>1, <2>2, <2>3 DEF InStep
<1> QED
  BY <1>1, RecallInvariant, PTL
=============================================================================
