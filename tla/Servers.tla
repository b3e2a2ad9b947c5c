-------------------------------- MODULE Servers --------------------------------
(***************************************************************************)
(* Saphira.listen and close (src/src/index.ts) with AdaptersManager.connect *)
(* and the static registry of connections (src/src/adapter/adapters.ts):   *)
(* several servers may live in one process, and all of them share          *)
(* Adapters.connections and the Vault.                                     *)
(*                                                                         *)
(* A connection is a WebClient; that of server s for the service n is      *)
(* <<s, n>>, made when s sets up n, and kept only if the registry has no   *)
(* other under that name.  The services are remote: their state changes at *)
(* any time, and what a client knows of it are its fields.                 *)
(***************************************************************************)
EXTENDS Naturals, Sequences, SequencesExt

CONSTANTS
  Servers,         \* Saphira instances in the process
  Names,           \* services: names of connections
  None,            \* no server
  Uses,            \* Uses[s]: the web services of s, in the order of its options
  Requires,        \* Requires[s]: those configured as required
  Misconfigured,   \* servers that lack the environment variable of one of them
  Key,             \* the name of the OAuth2 server: OAUTH2_SERVER
  Steady,          \* services that are assumed to stay healthy
  Test             \* Saphira.TEST

ASSUME ServersAssumption ==
  /\ None \notin Servers
  /\ Uses \in [Servers -> Seq(Names)]
  /\ Requires \in [Servers -> SUBSET Names]
  /\ \A s \in Servers : Requires[s] \subseteq ToSet(Uses[s]) /\ IsInjective(Uses[s])
  /\ Misconfigured \subseteq {s \in Servers : Uses[s] # <<>>}
  /\ Key \in Names /\ Steady \subseteq Names /\ Test \in BOOLEAN

VARIABLES
  phase,        \* phase[s]: how far listen() of s is
  close,        \* close[s]: how far close() of s is
  registered,   \* Adapters.connections: the server whose client has the name, or None
  connected,    \* connected[s][n]: _connected of the client of s for n
  erred,        \* erred[s][n]: a connect() left that client a lastError (other calls may too)
  calling,      \* calling[s][n]: the client on which s awaits connect(), or None
  failed,       \* failed[s]: services whose connect() rejected for s
  key,          \* the Vault holds the JWT_KEY
  health        \* health[n]: what the health check of the service would answer

vars == <<phase, close, registered, connected, erred, calling, failed, key, health>>

Healths == {"healthy", "unhealthy", "offline"}

Oauth(s) == Key \in ToSet(Uses[s])

To(s, p) == phase' = [phase EXCEPT ![s] = p]

-------------------------------------------------------------------------------
Init ==
  /\ phase = [s \in Servers |-> "new"]
  /\ close = [s \in Servers |-> "no"]
  /\ registered = [n \in Names |-> None]
  /\ connected = [s \in Servers |-> [n \in Names |-> FALSE]]
  /\ erred = [s \in Servers |-> [n \in Names |-> FALSE]]
  /\ calling = [s \in Servers |-> [n \in Names |-> None]]
  /\ failed = [s \in Servers |-> {}]
  /\ key = FALSE
  /\ health \in [Names -> Healths] /\ \A n \in Steady : health[n] = "healthy"

(* setupWebConnection and connect() for each service of ns: a client that   *)
(* is registered under the name wins over the new one.                      *)
Registered(s, ns) == [n \in Names |-> IF n \in ns /\ registered[n] = None THEN s
                                      ELSE registered[n]]

Connect(s, ns) ==
  /\ registered' = Registered(s, ns)
  /\ calling' = [calling EXCEPT ![s] = [n \in Names |-> IF n \in ns THEN Registered(s, ns)[n]
                                                        ELSE None]]
  /\ UNCHANGED <<close, connected, erred, failed, key, health>>

Listen(s) ==
  /\ phase[s] = "new" /\ s \notin Misconfigured
  /\ Connect(s, ToSet(Uses[s]))
  /\ To(s, "connecting")

\* A variable is missing: the services before it are registered, and their
\* connect() goes on, when listen() rejects.
ListenMisconfigured(s) ==
  /\ phase[s] = "new" /\ s \in Misconfigured
  /\ \E k \in 0..(Len(Uses[s]) - 1) : Connect(s, ToSet(SubSeq(Uses[s], 1, k)))
  /\ To(s, "failed")

-------------------------------------------------------------------------------
(* connect(): the health check of the service is answered, or cannot be.    *)

Returns(s, n) ==
  /\ calling[s][n] # None
  /\ calling' = [calling EXCEPT ![s][n] = None]
  /\ UNCHANGED <<phase, close, registered, key, health>>

ConnectHealthy(s, n) ==
  /\ Returns(s, n) /\ health[n] = "healthy"
  /\ connected' = [connected EXCEPT ![calling[s][n]][n] = TRUE]
  /\ UNCHANGED <<erred, failed>>

\* Rejected: the error is kept as lastError, and the service counts as failed.
FailsUnnoticed(s, n) == /\ erred' = [erred EXCEPT ![calling[s][n]][n] = TRUE]
                        /\ UNCHANGED failed
FailsMisplaced(s, n) == /\ erred' = [erred EXCEPT ![calling[s][n]][n] = TRUE]
                        /\ failed' = [failed EXCEPT ![s] = @ \cup {s}]
FailsUnrecorded(s, n) == /\ failed' = [failed EXCEPT ![s] = @ \cup {n}]
                         /\ UNCHANGED erred
Fails(s, n) == /\ erred' = [erred EXCEPT ![calling[s][n]][n] = TRUE]
               /\ failed' = [failed EXCEPT ![s] = @ \cup {n}]

\* A status out of 200..205 leaves _connected as it was.
ConnectUnhealthyHanging(s, n) ==
  /\ calling[s][n] # None /\ health[n] = "unhealthy"
  /\ Fails(s, n)
  /\ UNCHANGED <<phase, close, registered, connected, calling, key, health>>
ConnectUnhealthy(s, n) ==
  /\ Returns(s, n) /\ health[n] = "unhealthy"
  /\ Fails(s, n)
  /\ UNCHANGED connected

ConnectOffline(s, n) ==
  /\ Returns(s, n) /\ health[n] = "offline"
  /\ Fails(s, n)
  /\ connected' = [connected EXCEPT ![calling[s][n]][n] = FALSE]

ConnectSettles(s, n) == ConnectHealthy(s, n) \/ ConnectUnhealthy(s, n) \/ ConnectOffline(s, n)

-------------------------------------------------------------------------------
(* listen(), once every connect() is settled.                               *)

AllSettled(s) == phase[s] = "connecting" /\ \A n \in Names : calling[s][n] = None

Skip(s) == /\ AllSettled(s) /\ ~Oauth(s)
           /\ To(s, "deciding")
           /\ UNCHANGED <<close, registered, connected, erred, calling, failed, key, health>>

\* The key is asked for through the connection registered as OAUTH2_SERVER ...
FetchClosing(s) ==
  /\ AllSettled(s) /\ Oauth(s)
  /\ To(s, IF registered[Key] # None THEN "fetching" ELSE "deciding")
  /\ registered' = [registered EXCEPT ![Key] = None]
  /\ UNCHANGED <<close, connected, erred, calling, failed, key, health>>
Fetch(s) ==
  /\ AllSettled(s) /\ Oauth(s)
  /\ To(s, IF registered[Key] # None THEN "fetching" ELSE "deciding")
  /\ UNCHANGED <<close, registered, connected, erred, calling, failed, key, health>>

\* ... which is closed when the key is there, whoever else awaits it.
KeyArrives(s) ==
  /\ phase[s] = "fetching" /\ health[Key] = "healthy"
  /\ key' = TRUE
  /\ registered' = [registered EXCEPT ![Key] = None]
  /\ To(s, "deciding")
  /\ UNCHANGED <<close, connected, erred, calling, failed, health>>

\* No key is logged, and the server starts without one.
KeyFails(s) ==
  /\ phase[s] = "fetching" /\ health[Key] # "healthy"
  /\ To(s, "deciding")
  /\ UNCHANGED <<close, registered, connected, erred, calling, failed, key, health>>

Success(s) == failed[s] \cap Requires[s] = {}

\* Routing constructs the controllers, and listen() rejects when one throws.
Decide(s) ==
  /\ phase[s] = "deciding"
  /\ (Success(s) /\ To(s, "binding")) \/ To(s, "failed")
  /\ UNCHANGED <<close, registered, connected, erred, calling, failed, key, health>>

\* expressListen: 'listening', or 'error' when the port is taken.
Bind(s) ==
  /\ phase[s] = "binding"
  /\ To(s, "up") \/ To(s, "failed")
  /\ UNCHANGED <<close, registered, connected, erred, calling, failed, key, health>>

Start(s) == Skip(s) \/ Fetch(s) \/ KeyArrives(s) \/ KeyFails(s) \/ Decide(s) \/ Bind(s)

-------------------------------------------------------------------------------
(* close().                                                                 *)

Closing(s, p) == /\ close' = [close EXCEPT ![s] = p]
                 /\ UNCHANGED <<connected, erred, calling, failed, key, health>>

\* The server listens: it takes no more connections and waits for those it has.
CloseUp(s) ==
  /\ close[s] = "no" /\ phase[s] = "up"
  /\ Closing(s, "draining") /\ To(s, "down")
  /\ UNCHANGED registered

\* Before it listens `this.server` is a stub that never calls back; before
\* listen() there is none, and close() rejects.
CloseEarly(s) ==
  /\ close[s] = "no" /\ phase[s] \notin {"up", "down"}
  /\ Closing(s, IF phase[s] = "new" THEN "rejected" ELSE "pending")
  /\ UNCHANGED <<phase, registered>>

\* closeAll: under test it resolves at once; otherwise every connection is
\* terminated, those of other servers too ...
DrainedClearing(s) ==
  /\ close[s] = "draining"
  /\ Closing(s, IF Test THEN "closed" ELSE "terminating")
  /\ registered' = [n \in Names |-> None]
  /\ UNCHANGED phase
DrainedUnanswered(s) ==
  /\ close[s] = "draining"
  /\ Closing(s, "pending")
  /\ UNCHANGED <<phase, registered>>
Drained(s) ==
  /\ close[s] = "draining"
  /\ Closing(s, IF Test THEN "closed" ELSE "terminating")
  /\ UNCHANGED <<phase, registered>>

\* ... and the registry is cleared, of what was set up since as well.
Cleared(s) ==
  /\ close[s] = "terminating"
  /\ Closing(s, "closed")
  /\ registered' = [n \in Names |-> None]
  /\ UNCHANGED phase

Stop(s) == Drained(s) \/ Cleared(s)

\* The world: a service comes and goes.  No call made after connect() tells
\* the client of it.
Change(n) ==
  /\ n \notin Steady
  /\ \E h \in Healths \ {health[n]} : health' = [health EXCEPT ![n] = h]
  /\ UNCHANGED <<phase, close, registered, connected, erred, calling, failed, key>>

-------------------------------------------------------------------------------
Server(s) == \/ Listen(s) \/ ListenMisconfigured(s)
             \/ \E n \in Names : ConnectSettles(s, n)
             \/ Start(s)
             \/ CloseUp(s) \/ CloseEarly(s) \/ Stop(s)

Next == (\E s \in Servers : Server(s)) \/ (\E n \in Names : Change(n))

Spec == Init /\ [][Next]_vars

(* A health check is answered or fails, the network says whether the port   *)
(* is taken, and the connections of a closing server end.                   *)
FairSpec == /\ Spec
            /\ \A s \in Servers :
                 /\ WF_vars(Start(s)) /\ WF_vars(Stop(s))
                 /\ \A n \in Names : WF_vars(ConnectSettles(s, n))

-------------------------------------------------------------------------------
Phases == {"new", "connecting", "fetching", "deciding", "binding", "up", "down", "failed"}
Closes == {"no", "draining", "pending", "rejected", "terminating", "closed"}

TypeOK ==
  /\ phase \in [Servers -> Phases] /\ close \in [Servers -> Closes]
  /\ registered \in [Names -> Servers \cup {None}]
  /\ connected \in [Servers -> [Names -> BOOLEAN]]
  /\ erred \in [Servers -> [Names -> BOOLEAN]]
  /\ calling \in [Servers -> [Names -> Servers \cup {None}]]
  /\ failed \in [Servers -> SUBSET Names]
  /\ key \in BOOLEAN /\ health \in [Names -> Healths]

\* allConnected: the answer of the health check of any server of the process.
AllConnected ==
  \A n \in Names : LET s == registered[n] IN
    s # None /\ n \in Requires[s] => connected[s][n]

(* A server that shares the process with no other reports good health from  *)
(* the moment it is up, whatever its services do: it starts only when those *)
(* it requires are connected, and nothing disconnects them afterwards.      *)
HealthyWhenAlone ==
  \A s \in Servers :
    phase[s] = "up" /\ (\A t \in Servers \ {s} : phase[t] = "new") => AllConnected

(* The status of a connection (ENDPOINT_INFO) reads the lastError of those  *)
(* that are not connected: it can, unless the first connect() is under way. *)
StatusReadable ==
  \A n \in Names : LET c == registered[n] IN
    c # None /\ (\A s \in Servers : calling[s][n] # c) => connected[c][n] \/ erred[c][n]

\* No server has cleared the registry: under test they never do.
NoneCleared == Test \/ \A s \in Servers : close[s] # "closed"

(* While no server has cleared the registry, each one that is up finds a    *)
(* connection for every service it uses (but the key's, closed on purpose), *)
(* whichever server registered it, and whatever became of that one.         *)
UpFindsServices ==
  NoneCleared => \A s \in Servers : phase[s] = "up" =>
                   \A n \in ToSet(Uses[s]) \ {Key} : registered[n] # None

(* When the OAuth2 server stays healthy, a server that uses it is up only   *)
(* with the key in the Vault, although another one may close the shared     *)
(* connection before it asked for the key.                                  *)
AlwaysKeyed ==
  NoneCleared /\ Key \in Steady =>
    \A s \in Servers : Oauth(s) /\ phase[s] = "up" => key

(* listen() settles, whatever the services answer.                          *)
ListenSettles ==
  \A s \in Servers : phase[s] = "connecting" ~> phase[s] \in {"up", "failed", "down"}

(* The close() of a server that is up resolves.                             *)
CloseSettles == \A s \in Servers : close[s] = "draining" ~> close[s] = "closed"

(* "Required connections, whe offline, influence the server's health"       *)
(* (base-adapter.ts): a service that is required and stays offline shows in *)
(* the health of the server that is up.                                     *)
OfflineShows ==
  \A s \in Servers : \A n \in Requires[s] :
    (phase[s] = "up" /\ health[n] = "offline")
      ~> (~AllConnected \/ phase[s] # "up" \/ health[n] # "offline")
===============================================================================
