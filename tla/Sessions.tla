------------------------------ MODULE Sessions ------------------------------
(***************************************************************************)
(* The session middleware and its Redis store: requests of several clients *)
(* that open their sessions, change them and save them, each step on the   *)
(* store apart, with failures of the store, entries that expire, and       *)
(* cookies that only reach the client while the head is not sent.          *)
(*                                                                         *)
(* A handler is the list of session calls it makes.  Keys are abstracted   *)
(* to a few, values to their JSON type.                                    *)
(***************************************************************************)
EXTENDS Integers, FiniteSets, Sequences

CONSTANTS
  Requests,     \* the requests that may be under way at once
  Clients,      \* the browsers
  Names,        \* the names the middleware is given
  IDs,          \* the session IDs the generator draws, each once; bound: their
                \* number
  NoID,         \* the ID "" of a session never stored
  Keys,         \* the keys of a session: key, flash, and others
  Values,       \* the values: text, int, float64
  Handlers,     \* the handlers of the routes
  StoreAges,    \* MaxAge of the store's options
  MaxRequests,  \* bound: the requests of a behaviour
  MaxFaults,    \* bound: the failures of the store in a behaviour
  None          \* no cookie, no entry, nothing known

ASSUME IDsAssumption    == NoID \notin IDs /\ None \notin IDs \cup {NoID}
ASSUME NoneAssumption   == None \notin Clients \cup (Clients \X Names)
ASSUME RequestsAssumption == IsFiniteSet(Requests)
ASSUME BoundsAssumption == MaxRequests \in Nat /\ MaxFaults \in Nat

VARIABLES
  storeAge,  \* RedisStore.options.MaxAge
  redis,     \* what Redis holds under keyPrefix and the ID
  clients,   \* the Redis clients made and not closed
  jar,       \* the cookies of every browser
  pc,        \* where a request is
  client,    \* who sent it
  work,      \* the session calls its handler has still to make
  carried,   \* the cookies of the request
  session,   \* its session of every name
  cookie,    \* the Set-Cookie headers of its response
  sent,      \* the head of its response is sent
  requests,  \* the requests still to come
  faults,    \* the failures still to come
  owner,     \* history: the client and name an ID was drawn for
  unpinged,  \* history: how many clients did not answer their Ping
  took,      \* history: the IDs that Redis once took
  expect     \* history: what the client's session holds after the last Save
             \* that returned nil; None when requests overlapped since

backend  == <<storeAge, redis, clients, unpinged, took>>
exchange == <<client, carried, sent, requests, owner>>
vars     == <<backend, exchange, jar, pc, work, session, cookie, faults, expect>>

-----------------------------------------------------------------------------
Data  == UNION {[K -> Values] : K \in SUBSET Keys}
Empty == [k \in {} |-> None]

ASSUME DataAssumption == None \notin Data

Default == 30

\* NewStore replaces an age that is not positive; Store.Options does not.
NewStore(age) == IF age <= 0 THEN Default ELSE age

\* A session of the middleware before its first use.
Unopened == [opened |-> FALSE, id |-> NoID, values |-> Empty, maxAge |-> 0,
             written |-> FALSE, exact |-> TRUE]

\* New: a copy of the store's options, the ID of a cookie that decodes, and
\* what load found.  "exact" is history: the store told what it holds, and was
\* not told to delete it since.
Opened(id, values, exact) ==
  [opened |-> TRUE, id |-> id, values |-> values, maxAge |-> storeAge,
   written |-> FALSE, exact |-> exact]

\* A call of a session: what it does, on which session, with what.
Call(do, on, arg) == [do |-> do, on |-> on, arg |-> arg]

CallsOf == UNION {{h[k] : k \in DOMAIN h} : h \in Handlers}

ASSUME HandlersAssumption ==
  /\ \A h \in Handlers : h \in Seq(CallsOf)
  /\ \A call \in CallsOf :
       /\ call.on \in Names
       /\ call.do \in {"Set", "AddFlash", "Delete", "Flashes"} => call.arg \in Keys \X Values
       /\ call.do = "Options" => call.arg \in Int
ASSUME ValuesAssumption == "int" \in Values => "float64" \in Values
ASSUME StoreAgesAssumption == StoreAges \subseteq Int

Session ==
  [ opened: BOOLEAN, id: IDs \cup {NoID}, values: Data, maxAge: Int, written: BOOLEAN,
    exact: BOOLEAN ]

\* Every variable has its type. (sessions/session.go:78-86, redis.go:86-99)
TypeOK ==
  /\ storeAge \in Int
  /\ redis \in [IDs \cup {NoID} -> Data \cup {None}]
  /\ clients \in Nat /\ unpinged \in Nat
  /\ jar \in [Clients -> [Names -> IDs \cup {None}]]
  /\ pc \in [Requests -> {"idle", "run", "dial", "load", "save", "delete"}]
  /\ client \in [Requests -> Clients \cup {None}]
  /\ work \in [Requests -> Seq(CallsOf)]
  /\ carried \in [Requests -> [Names -> IDs \cup {None}]]
  /\ session \in [Requests -> [Names -> Session]]
  /\ cookie \in [Requests -> [Names -> IDs \cup {NoID, None}]]
  /\ sent \in [Requests -> BOOLEAN]
  /\ requests \in 0..MaxRequests /\ faults \in 0..MaxFaults
  /\ owner \in [IDs -> (Clients \X Names) \cup {None}]
  /\ took \subseteq IDs \cup {NoID}
  /\ expect \in [Clients -> [Names -> Data \cup {None}]]

Init ==
  /\ storeAge \in StoreAges
  /\ redis = [id \in IDs \cup {NoID} |-> None]
  /\ clients = 0 /\ unpinged = 0
  /\ jar = [c \in Clients |-> [n \in Names |-> None]]
  /\ pc = [r \in Requests |-> "idle"]
  /\ client = [r \in Requests |-> None]
  /\ work = [r \in Requests |-> << >>]
  /\ carried = [r \in Requests |-> [n \in Names |-> None]]
  /\ session = [r \in Requests |-> [n \in Names |-> Unopened]]
  /\ cookie = carried
  /\ sent = [r \in Requests |-> FALSE]
  /\ requests = MaxRequests /\ faults = MaxFaults
  /\ owner = [id \in IDs |-> None]
  /\ took = {}
  /\ expect = [c \in Clients |-> [n \in Names |-> Empty]]

-----------------------------------------------------------------------------
(* A request begins and ends.                                              *)

Active(c) == {r \in Requests : pc[r] # "idle" /\ client[r] = c}

\* Sessions and SessionsMany put unopened sessions into the context and go on.
\* Of two requests of one client under way at once, the sessions are anyone's.
Arrive(r) ==
  /\ pc[r] = "idle" /\ requests > 0
  /\ requests' = requests - 1
  /\ pc' = [pc EXCEPT ![r] = "run"]
  /\ \E c \in Clients, h \in Handlers :
       /\ client' = [client EXCEPT ![r] = c]
       /\ work' = [work EXCEPT ![r] = h]
       /\ carried' = [carried EXCEPT ![r] = jar[c]]
       /\ expect' = IF Active(c) = {} THEN expect
                    ELSE [expect EXCEPT ![c] = [n \in Names |-> None]]
  /\ UNCHANGED <<backend, jar, session, cookie, sent, owner, faults>>

\* The cookie the client has once it has the head of the response; an empty
\* one names no session.
Keeps(r, n) == CASE cookie[r][n] = None -> jar[client[r]][n]
                 [] cookie[r][n] = NoID -> None
                 [] OTHER -> cookie[r][n]

\* The client keeps the cookies of the head.
Finish(r) ==
  /\ pc[r] = "run" /\ work[r] = << >>
  /\ jar' = [jar EXCEPT ![client[r]] = [n \in Names |-> Keeps(r, n)]]
  /\ pc' = [pc EXCEPT ![r] = "idle"]
  /\ carried' = [carried EXCEPT ![r] = [n \in Names |-> None]]
  /\ session' = [session EXCEPT ![r] = [n \in Names |-> Unopened]]
  /\ cookie' = [cookie EXCEPT ![r] = [n \in Names |-> None]]
  /\ client' = [client EXCEPT ![r] = None]
  /\ sent' = [sent EXCEPT ![r] = FALSE]
  /\ UNCHANGED <<backend, work, requests, owner, faults, expect>>

-----------------------------------------------------------------------------
(* The calls of a handler.                                                 *)

Now(r)  == Head(work[r])
On(r)     == Now(r).on
Does(r, S) == pc[r] = "run" /\ work[r] # << >> /\ Now(r).do \in S

\* The session of the call under way, and its next state.
This(r)      == session[r][On(r)]
Becomes(r, s) == session' = [session EXCEPT ![r][On(r)] = s]

\* The call returns to the handler.
Returns(r) ==
  /\ work' = [work EXCEPT ![r] = Tail(@)]
  /\ pc' = [pc EXCEPT ![r] = "run"]

\* The handler panics; Recovery sends the head of its error page.
Panics(r) ==
  /\ work' = [work EXCEPT ![r] = << >>]
  /\ pc' = [pc EXCEPT ![r] = "run"]
  /\ sent' = [sent EXCEPT ![r] = TRUE]

Changes == {"Set", "Delete", "Clear", "AddFlash", "Flashes"}
Uses    == Changes \cup {"Get", "Options"}

\* c.String and the like: the head is sent with the cookies it has by now.
Respond(r) ==
  /\ Does(r, {"Respond"})
  /\ Returns(r)
  /\ sent' = [sent EXCEPT ![r] = TRUE]
  /\ UNCHANGED <<backend, client, carried, requests, owner, jar, session, cookie,
                 faults, expect>>

\* Session(): the first use of a session asks the store for it, which without
\* a cookie makes a new one at once.
Fetch(r) ==
  /\ Does(r, Uses) /\ ~This(r).opened
  /\ carried[r][On(r)] # None
  /\ pc' = [pc EXCEPT ![r] = "dial"]
  /\ UNCHANGED <<backend, exchange, jar, work, session, cookie, faults, expect>>

Held(r)   == This(r).opened \/ carried[r][On(r)] = None
Handed(r) == IF This(r).opened THEN This(r) ELSE Opened(NoID, Empty, TRUE)

Put(f, k, v) == [j \in DOMAIN f \cup {k} |-> IF j = k THEN v ELSE f[j]]
Without(f, K) == [j \in DOMAIN f \ K |-> f[j]]

\* What a call makes of the values; a flash is the value of the key "flash".
Changed(f, call) ==
  CASE call.do \in {"Set", "AddFlash"} -> Put(f, call.arg[1], call.arg[2])
    [] call.do \in {"Delete", "Flashes"} -> Without(f, {call.arg[1]})
    [] call.do = "Clear" -> Empty

\* A slip: a deletion is not a change.
MarksAdditions(s, call) == s.written \/ call.do \in {"Set", "AddFlash"}

\* Clear deletes key by key: of an empty session nothing, not even written.
Marks(s, call) == s.written \/ call.do # "Clear" \/ s.values # Empty

Change(r) ==
  /\ Does(r, Changes) /\ Held(r)
  /\ Becomes(r, [Handed(r) EXCEPT !.values = Changed(@, Now(r)),
                                  !.written = Marks(Handed(r), Now(r))])
  /\ Returns(r)
  /\ UNCHANGED <<backend, exchange, jar, cookie, faults, expect>>

\* Get changes nothing; Options replaces all the options and marks nothing.
Look(r) ==
  /\ Does(r, {"Get", "Options"}) /\ Held(r)
  /\ Becomes(r, [Handed(r) EXCEPT !.maxAge = IF Now(r).do = "Options" THEN Now(r).arg ELSE @])
  /\ Returns(r)
  /\ UNCHANGED <<backend, exchange, jar, cookie, faults, expect>>

-----------------------------------------------------------------------------
(* Save.                                                                   *)

SaveNothing(r) ==
  /\ Does(r, {"Save"}) /\ ~This(r).written
  /\ Returns(r)
  /\ UNCHANGED <<backend, exchange, jar, session, cookie, faults, expect>>

\* An age that is not positive deletes the session.
StartDelete(r) ==
  /\ Does(r, {"Save"}) /\ This(r).written
  /\ This(r).maxAge <= 0
  /\ pc' = [pc EXCEPT ![r] = "dial"]
  /\ UNCHANGED <<backend, exchange, jar, work, session, cookie, faults, expect>>

\* A slip: the new session is stored under the empty ID.
SaveWithoutID(r) ==
  /\ Does(r, {"Save"}) /\ This(r).written
  /\ This(r).maxAge > 0
  /\ pc' = [pc EXCEPT ![r] = "dial"]
  /\ UNCHANGED <<backend, exchange, jar, work, session, cookie, faults, expect>>

\* The ID drawn is kept when the store then fails.
StartSave(r) ==
  /\ Does(r, {"Save"}) /\ This(r).written
  /\ This(r).maxAge > 0
  /\ IF This(r).id # NoID THEN UNCHANGED <<session, owner>>
     ELSE LET id == CHOOSE d \in IDs : owner[d] = None
          IN  /\ \E d \in IDs : owner[d] = None
              /\ Becomes(r, [This(r) EXCEPT !.id = id])
              /\ owner' = [owner EXCEPT ![id] = <<client[r], On(r)>>]
  /\ pc' = [pc EXCEPT ![r] = "dial"]
  /\ UNCHANGED <<backend, client, carried, sent, requests, jar, work, cookie,
                 faults, expect>>

\* What the request wants of Redis.
Command(r) == IF ~This(r).opened THEN "load"
              ELSE IF This(r).maxAge <= 0 THEN "delete" ELSE "save"

\* The ID it names.
Key(r) == IF This(r).opened THEN This(r).id ELSE carried[r][On(r)]

\* load swallows its error: the session is new, with the ID of the cookie.
Fails(r) ==
  IF This(r).opened THEN Returns(r) /\ UNCHANGED session
  ELSE /\ Becomes(r, Opened(Key(r), Empty, FALSE))
       /\ pc' = [pc EXCEPT ![r] = "run"]
       /\ UNCHANGED work

\* A slip: the cookie first, then the store.
CookieFirst(r) ==
  /\ pc[r] = "dial"
  /\ clients' = clients + 1
  /\ pc' = [pc EXCEPT ![r] = Command(r)]
  /\ cookie' = IF sent[r] THEN cookie ELSE [cookie EXCEPT ![r][On(r)] = Key(r)]
  /\ UNCHANGED <<storeAge, redis, unpinged, took, exchange, jar, work, session, faults, expect>>

\* getClient makes a client for every operation and pings; a client whose Ping
\* fails is not closed.
Ping(r) ==
  /\ pc[r] = "dial"
  /\ clients' = clients + 1
  /\ pc' = [pc EXCEPT ![r] = Command(r)]
  /\ UNCHANGED <<storeAge, redis, unpinged, took, exchange, jar, work, session, cookie,
                 faults, expect>>

PingFails(r) ==
  /\ pc[r] = "dial"
  /\ faults > 0 /\ faults' = faults - 1
  /\ clients' = clients + 1 /\ unpinged' = unpinged + 1
  /\ Fails(r)
  /\ UNCHANGED <<storeAge, redis, took, exchange, jar, cookie, expect>>

\* encoding/json: a number comes back as float64.
JSON(f) == [k \in DOMAIN f |-> IF f[k] = "int" THEN "float64" ELSE f[k]]

\* A slip: closed on the way out, and by the defer.
CloseTwice == clients' = clients - 2

Close == clients' = clients - 1

\* What the client will find: the values, once its cookie names them.
Expects(r, values) ==
  expect' = IF Active(client[r]) = {r}
               /\ (sent[r] => Keeps(r, On(r)) = This(r).id)
            THEN [expect EXCEPT ![client[r]][On(r)] = values]
            ELSE expect

\* Save is done: the cookie is added to a head that is not sent.
Saved(r, id, values) ==
  /\ Becomes(r, [This(r) EXCEPT !.written = FALSE, !.exact = id # NoID])
  /\ cookie' = IF sent[r] THEN cookie ELSE [cookie EXCEPT ![r][On(r)] = id]
  /\ Expects(r, values)
  /\ Returns(r)

\* load: GET and Deserialize; an entry that is not there is an error too.
Load(r) ==
  /\ pc[r] = "load"
  /\ Close
  /\ Becomes(r, Opened(Key(r), IF redis[Key(r)] = None THEN Empty ELSE redis[Key(r)], TRUE))
  /\ pc' = [pc EXCEPT ![r] = "run"]
  /\ UNCHANGED <<storeAge, redis, unpinged, took, exchange, jar, work, cookie, faults, expect>>

\* A key that is no string: Serialize reports it to a logger that is nil.
Serializable(f) == "odd" \notin DOMAIN f

\* A slip: the panic passes a Close that is not deferred.
SerializeLeaks(r) ==
  /\ pc[r] = "save" /\ ~Serializable(This(r).values)
  /\ Panics(r)
  /\ UNCHANGED <<backend, client, carried, requests, owner, jar, session, cookie,
                 faults, expect>>

SerializePanics(r) ==
  /\ pc[r] = "save" /\ ~Serializable(This(r).values)
  /\ Close
  /\ Panics(r)
  /\ UNCHANGED <<storeAge, redis, unpinged, took, client, carried, requests, owner, jar,
                 session, cookie, faults, expect>>

SetEX(r) ==
  /\ pc[r] = "save" /\ Serializable(This(r).values)
  /\ Close
  /\ redis' = [redis EXCEPT ![Key(r)] = JSON(This(r).values)]
  /\ took' = took \cup {Key(r)}
  /\ Saved(r, Key(r), JSON(This(r).values))
  /\ UNCHANGED <<storeAge, unpinged, exchange, jar, faults>>

Del(r) ==
  /\ pc[r] = "delete"
  /\ Close
  /\ redis' = [redis EXCEPT ![Key(r)] = None]
  /\ Saved(r, NoID, Empty)
  /\ UNCHANGED <<storeAge, unpinged, took, exchange, jar, faults>>

\* A command fails, and what it would have changed may be changed or not.
CommandFails(r) ==
  /\ pc[r] \in {"load", "save", "delete"}
  /\ pc[r] = "save" => Serializable(This(r).values)
  /\ faults > 0 /\ faults' = faults - 1
  /\ Close
  /\ Fails(r)
  /\ \/ UNCHANGED <<redis, took>>
     \/ /\ pc[r] = "save"
        /\ redis' = [redis EXCEPT ![Key(r)] = JSON(This(r).values)]
        /\ took' = took \cup {Key(r)}
     \/ pc[r] = "delete" /\ redis' = [redis EXCEPT ![Key(r)] = None] /\ UNCHANGED took
  /\ expect' = IF pc[r] = "load" THEN expect ELSE [expect EXCEPT ![client[r]][On(r)] = None]
  /\ UNCHANGED <<storeAge, unpinged, exchange, jar, cookie>>

\* An entry reaches its age.
Expire(id) ==
  /\ redis[id] # None
  /\ faults > 0 /\ faults' = faults - 1
  /\ redis' = [redis EXCEPT ![id] = None]
  /\ expect' = [expect EXCEPT ![owner[id][1]][owner[id][2]] = None]
  /\ UNCHANGED <<storeAge, clients, unpinged, took, exchange, jar, pc, work, session, cookie>>

-----------------------------------------------------------------------------
Step(r) ==
  \/ Finish(r) \/ Respond(r) \/ Fetch(r) \/ Change(r) \/ Look(r)
  \/ SaveNothing(r) \/ StartDelete(r) \/ StartSave(r) \/ Ping(r) \/ PingFails(r)
  \/ Load(r) \/ SerializePanics(r) \/ SetEX(r) \/ Del(r) \/ CommandFails(r)

\* The bound MaxRequests is used up.
Terminated ==
  /\ requests = 0 /\ \A r \in Requests : pc[r] = "idle"
  /\ UNCHANGED vars

Next ==
  \/ \E r \in Requests : Arrive(r) \/ Step(r)
  \/ \E id \in IDs : Expire(id)
  \/ Terminated

Spec == Init /\ [][Next]_vars

-----------------------------------------------------------------------------
(* Properties.                                                             *)

\* A session that is not marked written is what the store holds for the next
\* request of the client: it was loaded whole, or the Save that cleared the
\* mark stored all of it.  So a Save that does nothing loses nothing, a Save
\* that failed can be repeated, and of requests that do not overlap each finds
\* what the last one saved, also after a load or a Save that failed.
\* (sessions/session.go:96-135, redis.go:164-199)
ReadsLastSave ==
  \A r \in Requests, n \in Names :
    LET this == session[r][n]
        known == expect[client[r]][n]
    IN  pc[r] = "run" /\ this.opened /\ this.exact /\ ~this.written /\ known # None
        /\ (sent[r] => Keeps(r, n) = (IF this.id = NoID THEN None ELSE this.id))
          => JSON(this.values) = known

\* A session belongs to one client and one name: whatever fails in between,
\* no request works on an ID drawn for another, and nothing is ever stored
\* under the empty ID that all new sessions have. (redis.go:164-199, 275-277)
Isolated ==
  /\ redis[NoID] = None
  /\ \A r \in Requests, n \in Names :
       session[r][n].id # NoID => owner[session[r][n].id] = <<client[r], n>>

\* A client only ever gets the ID of a session that Redis took: when the save
\* fails no cookie is sent, also not with the error page. (redis.go:186-196)
CookieNamesStored ==
  \A c \in Clients, n \in Names : jar[c][n] # None => jar[c][n] \in took

\* Every client of Redis is closed, on the paths where the command or the
\* serializer fails or panics too, and no client twice: open are those of the
\* commands under way, and one for every Ping that failed.  (redis.go:203-273)
ClientsClosed ==
  clients = Cardinality({r \in Requests : pc[r] \in {"load", "save", "delete"}}) + unpinged

-----------------------------------------------------------------------------
(* The handlers of the store's own tests, on the session n.  The response    *)
(* that ends a handler goes with Finish.                                   *)

KeyArg(v)   == <<"key", v>>
FlashArg    == <<"flash", "text">>
SaveOf(n)   == Call("Save", n, 0)
RespondOf(n) == Call("Respond", n, 0)

GetSet(n) ==
  { <<Call("Set", n, KeyArg("text")), SaveOf(n)>>,
    <<Call("Get", n, KeyArg("text")), SaveOf(n)>> }

DeleteKey(n) == { <<Call("Delete", n, KeyArg("text")), SaveOf(n)>> }

Flashes(n) ==
  { <<Call("AddFlash", n, FlashArg), SaveOf(n)>>,
    <<Call("Flashes", n, FlashArg), SaveOf(n)>> }

Clear(n) ==
  { <<Call("Set", n, KeyArg("text")), Call("Clear", n, 0), SaveOf(n)>> }

\* sessions.Options{Path: ...} leaves MaxAge zero: the Save deletes.
Options(n) ==
  { <<Call("Set", n, KeyArg("text")), Call("Options", n, 0), SaveOf(n)>> }

Many(m, n) ==
  { <<Call("Set", m, KeyArg("text")), SaveOf(m),
      Call("Set", n, KeyArg("text")), SaveOf(n)>>,
    <<Call("Get", m, KeyArg("text")), SaveOf(m),
      Call("Get", n, KeyArg("text")), SaveOf(n)>> }
=============================================================================
