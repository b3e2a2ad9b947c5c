----------------------------- MODULE ServersProofs -----------------------------
(***************************************************************************)
(* Theorems of Servers for any number of servers and services.             *)
(***************************************************************************)
EXTENDS Servers, TLAPS

-------------------------------------------------------------------------------
(* Types.                                                                  *)

\* The services of a server are names.
LEMMA UsesNames == ASSUME NEW s \in Servers PROVE ToSet(Uses[s]) \subseteq Names
<1>1. Uses[s] \in Seq(Names)
  BY ServersAssumption
<1> QED
  BY <1>1 DEF ToSet

\* Registration leaves what is registered, and adds the services it is given.
LEMMA RegisteredEffect ==
  ASSUME TypeOK, NEW s \in Servers, NEW ns
  PROVE  /\ Registered(s, ns) \in [Names -> Servers \cup {None}]
         /\ \A n \in Names : registered[n] # None => Registered(s, ns)[n] = registered[n]
         /\ \A n \in Names : n \in ns => Registered(s, ns)[n] # None
         /\ \A n \in Names : Registered(s, ns)[n] \in {registered[n], s}
         /\ \A n \in Names : n \notin ns => Registered(s, ns)[n] = registered[n]
  BY ServersAssumption DEF TypeOK, Registered

\* The initial states are well typed.
LEMMA TypeInit == Init => TypeOK
<1> SUFFICES ASSUME Init PROVE TypeOK
  OBVIOUS
<1>1. phase \in [Servers -> Phases] /\ close \in [Servers -> Closes]
  BY DEF Init, Phases, Closes
<1>2. registered \in [Names -> Servers \cup {None}]
      /\ calling \in [Servers -> [Names -> Servers \cup {None}]]
  BY DEF Init
<1>3. connected \in [Servers -> [Names -> BOOLEAN]] /\ erred \in [Servers -> [Names -> BOOLEAN]]
  BY DEF Init
<1>4. failed \in [Servers -> SUBSET Names]
  BY DEF Init
<1>5. key \in BOOLEAN /\ health \in [Names -> Healths]
  BY DEF Init
<1> QED
  BY <1>1, <1>2, <1>3, <1>4, <1>5 DEF TypeOK

\* Setting up connections keeps the types.
LEMMA TypeConnect ==
  ASSUME TypeOK, NEW s \in Servers, NEW p \in Phases, NEW ns, Connect(s, ns), To(s, p)
  PROVE  TypeOK'
<1>1. registered' \in [Names -> Servers \cup {None}]
  BY RegisteredEffect DEF Connect
<1>2. calling' \in [Servers -> [Names -> Servers \cup {None}]]
  <2>1. [n \in Names |-> IF n \in ns THEN Registered(s, ns)[n] ELSE None]
          \in [Names -> Servers \cup {None}]
    BY RegisteredEffect
  <2> QED
    BY <2>1 DEF Connect, TypeOK
<1> QED
  BY <1>1, <1>2 DEF TypeOK, Connect, To

\* Setting a Boolean field of one client.
LEMMA SetField ==
  ASSUME NEW f \in [Servers -> [Names -> BOOLEAN]], NEW o \in Servers, NEW n \in Names,
         NEW b \in BOOLEAN
  PROVE  [f EXCEPT ![o][n] = b] \in [Servers -> [Names -> BOOLEAN]]
<1>1. [f[o] EXCEPT ![n] = b] \in [Names -> BOOLEAN]
  BY Zenon
<1> QED
  BY <1>1, Zenon

\* A connect() that settles keeps the types.
LEMMA TypeSettles ==
  ASSUME TypeOK, NEW s \in Servers, NEW n \in Names, ConnectSettles(s, n)
  PROVE  TypeOK'
<1>1. calling[s][n] \in Servers
  BY DEF TypeOK, ConnectSettles, ConnectHealthy, ConnectUnhealthy, ConnectOffline, Returns
<1>2. calling' = [calling EXCEPT ![s][n] = None]
      /\ UNCHANGED <<phase, close, registered, key, health>>
  BY DEF ConnectSettles, ConnectHealthy, ConnectUnhealthy, ConnectOffline, Returns
<1>3. calling' \in [Servers -> [Names -> Servers \cup {None}]]
  BY <1>2 DEF TypeOK
<1> DEFINE o == calling[s][n]
<1>4. connected' \in [Servers -> [Names -> BOOLEAN]]
  <2>1. connected \in [Servers -> [Names -> BOOLEAN]] /\ o \in Servers
    BY <1>1 DEF TypeOK
  <2>2. \/ connected' = connected
        \/ connected' = [connected EXCEPT ![o][n] = TRUE]
        \/ connected' = [connected EXCEPT ![o][n] = FALSE]
    BY DEF ConnectSettles, ConnectHealthy, ConnectUnhealthy, ConnectOffline
  <2> HIDE DEF o
  <2>3. [connected EXCEPT ![o][n] = TRUE] \in [Servers -> [Names -> BOOLEAN]]
    BY <2>1, SetField
  <2>4. [connected EXCEPT ![o][n] = FALSE] \in [Servers -> [Names -> BOOLEAN]]
    BY <2>1, SetField
  <2> QED
    BY <2>1, <2>2, <2>3, <2>4, Zenon
<1>5. erred' \in [Servers -> [Names -> BOOLEAN]]
  <2>1. erred \in [Servers -> [Names -> BOOLEAN]] /\ o \in Servers
    BY <1>1 DEF TypeOK
  <2>2. erred' = erred \/ erred' = [erred EXCEPT ![o][n] = TRUE]
    BY DEF ConnectSettles, ConnectHealthy, ConnectUnhealthy, ConnectOffline, Fails
  <2> HIDE DEF o
  <2>3. [erred EXCEPT ![o][n] = TRUE] \in [Servers -> [Names -> BOOLEAN]]
    BY <2>1, SetField
  <2> QED
    BY <2>1, <2>2, <2>3, Zenon
<1>6. failed' \in [Servers -> SUBSET Names]
  BY DEF TypeOK, ConnectSettles, ConnectHealthy, ConnectUnhealthy, ConnectOffline, Fails
<1> QED
  BY <1>2, <1>3, <1>4, <1>5, <1>6 DEF TypeOK

\* Every step keeps the types.
LEMMA TypeStep == TypeOK /\ [Next]_vars => TypeOK'
<1> SUFFICES ASSUME TypeOK, [Next]_vars PROVE TypeOK'
  OBVIOUS
<1>1. ASSUME NEW s \in Servers, Listen(s) \/ ListenMisconfigured(s) PROVE TypeOK'
  BY <1>1, TypeConnect DEF Listen, ListenMisconfigured, Phases
<1>2. ASSUME NEW s \in Servers, NEW n \in Names, ConnectSettles(s, n) PROVE TypeOK'
  BY <1>2, TypeSettles
<1>3. ASSUME NEW s \in Servers, Start(s) PROVE TypeOK'
  <2>1. CASE KeyArrives(s)
    BY <2>1 DEF KeyArrives, To, TypeOK, Phases
  <2>2. CASE Skip(s) \/ Fetch(s) \/ KeyFails(s) \/ Decide(s) \/ Bind(s)
    BY <2>2 DEF Skip, Fetch, KeyFails, Decide, Bind, To, TypeOK, Phases
  <2> QED
    BY <1>3, <2>1, <2>2 DEF Start
<1>4. ASSUME NEW s \in Servers, CloseUp(s) \/ CloseEarly(s) \/ Stop(s) PROVE TypeOK'
  BY <1>4 DEF CloseUp, CloseEarly, Stop, Drained, Cleared, Closing, To, TypeOK, Phases, Closes
<1>5. ASSUME NEW n \in Names, Change(n) PROVE TypeOK'
  BY <1>5 DEF Change, TypeOK
<1>6. CASE UNCHANGED vars
  BY <1>6 DEF TypeOK, vars
<1> QED
  BY <1>1, <1>2, <1>3, <1>4, <1>5, <1>6 DEF Next, Server

(* The types of Servers hold for any number of servers and services: every  *)
(* name of the registry leads to the client of a server, or to none.        *)
THEOREM TypeCorrect == Spec => []TypeOK
  BY TypeInit, TypeStep, PTL DEF Spec

-------------------------------------------------------------------------------
(* What a server finds in the registry.                                    *)

\* Under test no server terminates the connections, so none clears them.
TestInv == Test => \A s \in Servers : close[s] # "terminating"

LEMMA TestStep == TypeOK /\ TestInv /\ [Next]_vars => TestInv'
<1> SUFFICES ASSUME TypeOK, TestInv, [Next]_vars, Test,
                    NEW s \in Servers, close'[s] = "terminating"
             PROVE  FALSE
  BY DEF TestInv
<1>1. close[s] # "terminating"
  BY DEF TestInv
<1>2. ASSUME NEW t \in Servers, Listen(t) \/ ListenMisconfigured(t) PROVE close' = close
  BY <1>2 DEF Listen, ListenMisconfigured, Connect
<1>3. ASSUME NEW t \in Servers, NEW n \in Names, ConnectSettles(t, n) PROVE close' = close
  BY <1>3 DEF ConnectSettles, ConnectHealthy, ConnectUnhealthy, ConnectOffline, Returns
<1>4. ASSUME NEW t \in Servers, Start(t) PROVE close' = close
  BY <1>4 DEF Start, Skip, Fetch, KeyArrives, KeyFails, Decide, Bind
<1>5. ASSUME NEW t \in Servers, CloseUp(t) \/ CloseEarly(t) \/ Stop(t)
      PROVE  close'[s] # "terminating"
  BY <1>1, <1>5 DEF CloseUp, CloseEarly, Stop, Drained, Cleared, Closing, TypeOK
<1>6. ASSUME NEW n \in Names, Change(n) PROVE close' = close
  BY <1>6 DEF Change
<1>7. CASE UNCHANGED vars
  BY <1>1, <1>7 DEF vars
<1> QED
  BY <1>1, <1>2, <1>3, <1>4, <1>5, <1>6, <1>7 DEF Next, Server

\* Unless a server clears the registry, a name that leads to a client does so
\* for good; only the key's is given up, and then the key is there.
LEMMA RegistryStep ==
  ASSUME TypeOK, TestInv, [Next]_vars, NoneCleared'
  PROVE  /\ NoneCleared
         /\ key => key'
         /\ \A n \in Names : registered[n] # None =>
              registered'[n] # None \/ (n = Key /\ key')
<1> DEFINE Keeps == \A n \in Names : registered[n] # None =>
                      registered'[n] # None \/ (n = Key /\ key')
<1>1. ASSUME NEW s \in Servers, Listen(s) \/ ListenMisconfigured(s)
      PROVE  close' = close /\ key' = key /\ Keeps
  <2>1. PICK ns : Connect(s, ns)
    BY <1>1 DEF Listen, ListenMisconfigured
  <2> QED
    BY <2>1, RegisteredEffect DEF Connect
<1>2. ASSUME NEW s \in Servers, NEW n \in Names, ConnectSettles(s, n)
      PROVE  close' = close /\ key' = key /\ Keeps
  BY <1>2 DEF ConnectSettles, ConnectHealthy, ConnectUnhealthy, ConnectOffline, Returns
<1>3. ASSUME NEW s \in Servers, Start(s)
      PROVE  close' = close /\ (key => key') /\ Keeps
  <2>1. CASE KeyArrives(s)
    BY <2>1 DEF KeyArrives, TypeOK
  <2>2. CASE Skip(s) \/ Fetch(s) \/ KeyFails(s) \/ Decide(s) \/ Bind(s)
    BY <2>2 DEF Skip, Fetch, KeyFails, Decide, Bind
  <2> QED
    BY <1>3, <2>1, <2>2 DEF Start
<1>4. ASSUME NEW s \in Servers, CloseUp(s) \/ CloseEarly(s) \/ Drained(s)
      PROVE  NoneCleared /\ key' = key /\ Keeps
  <2>1. key' = key /\ registered' = registered
    BY <1>4 DEF CloseUp, CloseEarly, Drained, Closing
  <2>2. \A t \in Servers : close[t] = "closed" => close'[t] = "closed"
    BY <1>4 DEF CloseUp, CloseEarly, Drained, Closing, TypeOK
  <2> QED
    BY <2>1, <2>2 DEF NoneCleared
<1>5. ASSUME NEW s \in Servers, Cleared(s)
      PROVE  FALSE
  <2>1. ~Test
    BY <1>5 DEF Cleared, TestInv
  <2>2. close'[s] = "closed"
    BY <1>5 DEF Cleared, Closing, TypeOK
  <2> QED
    BY <2>1, <2>2 DEF NoneCleared
<1>6. ASSUME NEW n \in Names, Change(n)
      PROVE  close' = close /\ key' = key /\ Keeps
  BY <1>6 DEF Change
<1>7. CASE UNCHANGED vars
  BY <1>7 DEF vars, NoneCleared
<1>8. ASSUME close' = close PROVE NoneCleared
  BY <1>8 DEF NoneCleared
<1> QED
  BY <1>1, <1>2, <1>3, <1>4, <1>5, <1>6, <1>7, <1>8 DEF Next, Server, Stop

\* A server that has begun to connect has a client under each name it uses ...
Busy(s) == phase[s] \in {"connecting", "fetching", "deciding", "binding", "up"}

FindInv == NoneCleared => \A s \in Servers : Busy(s) =>
             \A n \in ToSet(Uses[s]) \ {Key} : registered[n] # None

\* ... and, where that of the key is missing, the key; the key of a healthy
\* OAuth2 server is there from when it is asked for.
KeyInv == NoneCleared /\ Key \in Steady =>
  /\ health[Key] = "healthy"
  /\ \A s \in Servers : Oauth(s) /\ Busy(s) =>
       IF phase[s] \in {"connecting", "fetching"} THEN registered[Key] # None \/ key ELSE key

\* A step of listen() leads a server on by what it finds: either it was busy,
\* or all the names it uses have a client now.
LEMMA BusyStep ==
  ASSUME TypeOK, [Next]_vars, NEW s \in Servers, Busy(s)'
  PROVE  Busy(s) \/ (phase'[s] = "connecting" /\ \A n \in ToSet(Uses[s]) : registered'[n] # None)
<1>1. ASSUME NEW t \in Servers, Listen(t)
      PROVE  \/ Busy(s)
             \/ phase'[s] = "connecting" /\ \A n \in ToSet(Uses[s]) : registered'[n] # None
  <2>1. CASE t = s
    <3>1. registered' = Registered(s, ToSet(Uses[s])) /\ phase'[s] = "connecting"
      BY <1>1, <2>1 DEF Listen, Connect, To, TypeOK
    <3> QED
      BY <3>1, UsesNames, RegisteredEffect
  <2>2. CASE t # s
    BY <1>1, <2>2 DEF Listen, To, TypeOK, Busy
  <2> QED
    BY <2>1, <2>2
<1>2. ASSUME NEW t \in Servers, ListenMisconfigured(t) PROVE Busy(s)
  BY <1>2 DEF ListenMisconfigured, To, TypeOK, Busy
<1>3. ASSUME NEW t \in Servers, NEW n \in Names, ConnectSettles(t, n) PROVE Busy(s)
  BY <1>3 DEF ConnectSettles, ConnectHealthy, ConnectUnhealthy, ConnectOffline, Returns, Busy
<1>4. ASSUME NEW t \in Servers, Start(t) PROVE Busy(s)
  <2>1. CASE Skip(t)
    BY <2>1 DEF Skip, AllSettled, To, TypeOK, Busy
  <2>2. CASE Fetch(t)
    BY <2>2 DEF Fetch, AllSettled, To, TypeOK, Busy
  <2>3. CASE KeyArrives(t) \/ KeyFails(t) \/ Decide(t) \/ Bind(t)
    BY <2>3 DEF KeyArrives, KeyFails, Decide, Bind, To, TypeOK, Busy
  <2> QED
    BY <1>4, <2>1, <2>2, <2>3 DEF Start
<1>5. ASSUME NEW t \in Servers, CloseUp(t) \/ CloseEarly(t) \/ Stop(t) PROVE Busy(s)
  BY <1>5 DEF CloseUp, CloseEarly, Stop, Drained, Cleared, To, TypeOK, Busy
<1>6. ASSUME NEW n \in Names, Change(n) PROVE Busy(s)
  BY <1>6 DEF Change, Busy
<1>7. CASE UNCHANGED vars
  BY <1>7 DEF vars, Busy
<1> QED
  BY <1>1, <1>2, <1>3, <1>4, <1>5, <1>6, <1>7 DEF Next, Server

\* What a server finds it keeps finding.
LEMMA FindStep == TypeOK /\ TestInv /\ FindInv /\ [Next]_vars => FindInv'
<1> SUFFICES ASSUME TypeOK, TestInv, FindInv, [Next]_vars, NoneCleared',
                    NEW s \in Servers, Busy(s)', NEW n \in ToSet(Uses[s]) \ {Key}
             PROVE  registered'[n] # None
  BY DEF FindInv
<1>1. n \in Names /\ n # Key
  BY UsesNames
<1>2. CASE Busy(s)
  BY <1>1, <1>2, RegistryStep DEF FindInv
<1>3. CASE ~Busy(s)
  BY <1>3, BusyStep
<1> QED
  BY <1>2, <1>3

(* While no server has cleared the registry, each one that is up finds a    *)
(* connection for every service it uses but the key's.                      *)
THEOREM ServicesFound == Spec => []UpFindsServices
<1> DEFINE I == TypeOK /\ TestInv /\ FindInv
<1>1. Init => I
  BY TypeInit DEF Init, TestInv, FindInv, Busy
<1>2. I /\ [Next]_vars => I'
  BY TypeStep, TestStep, FindStep
<1>3. I => UpFindsServices
  BY DEF FindInv, UpFindsServices, Busy
<1> QED
  BY <1>1, <1>2, <1>3, PTL DEF Spec

\* A healthy OAuth2 server stays so.
LEMMA SteadyStep ==
  ASSUME TypeOK, [Next]_vars, Key \in Steady, health[Key] = "healthy"
  PROVE  health'[Key] = "healthy"
<1>1. ASSUME NEW s \in Servers, Listen(s) \/ ListenMisconfigured(s) PROVE health' = health
  BY <1>1 DEF Listen, ListenMisconfigured, Connect
<1>2. ASSUME NEW s \in Servers, NEW n \in Names, ConnectSettles(s, n) PROVE health' = health
  BY <1>2 DEF ConnectSettles, ConnectHealthy, ConnectUnhealthy, ConnectOffline, Returns
<1>3. ASSUME NEW s \in Servers, Start(s) PROVE health' = health
  BY <1>3 DEF Start, Skip, Fetch, KeyArrives, KeyFails, Decide, Bind
<1>4. ASSUME NEW s \in Servers, CloseUp(s) \/ CloseEarly(s) \/ Stop(s) PROVE health' = health
  BY <1>4 DEF CloseUp, CloseEarly, Stop, Drained, Cleared, Closing
<1>5. ASSUME NEW n \in Names, Change(n) PROVE health'[Key] = "healthy"
  BY <1>5 DEF Change, TypeOK
<1>6. CASE UNCHANGED vars
  BY <1>6 DEF vars
<1> QED
  BY <1>1, <1>2, <1>3, <1>4, <1>5, <1>6 DEF Next, Server

\* A server that uses the OAuth2 server leaves the asking for the key only
\* with it.
LEMMA AskStep ==
  ASSUME TypeOK, [Next]_vars, NEW s \in Servers, Oauth(s), health[Key] = "healthy",
         phase[s] \in {"connecting", "fetching"}, ~(phase'[s] \in {"connecting", "fetching"})
  PROVE  key' \/ (registered[Key] = None /\ phase[s] = "connecting")
<1>1. ASSUME NEW t \in Servers, Listen(t) \/ ListenMisconfigured(t) PROVE phase'[s] = phase[s]
  BY <1>1 DEF Listen, ListenMisconfigured, To, TypeOK
<1>2. ASSUME NEW t \in Servers, NEW n \in Names, ConnectSettles(t, n) PROVE phase' = phase
  BY <1>2 DEF ConnectSettles, ConnectHealthy, ConnectUnhealthy, ConnectOffline, Returns
<1>3. ASSUME NEW t \in Servers, Start(t)
      PROVE  key' \/ (registered[Key] = None /\ phase[s] = "connecting") \/ phase'[s] = phase[s]
  <2>1. CASE Skip(t)
    BY <2>1 DEF Skip, To, TypeOK
  <2>2. CASE Fetch(t)
    BY <2>2 DEF Fetch, AllSettled, To, TypeOK
  <2>3. CASE KeyArrives(t)
    BY <2>3 DEF KeyArrives
  <2>4. CASE KeyFails(t)
    BY <2>4 DEF KeyFails
  <2>5. CASE Decide(t) \/ Bind(t)
    BY <2>5 DEF Decide, Bind, To, TypeOK
  <2> QED
    BY <1>3, <2>1, <2>2, <2>3, <2>4, <2>5 DEF Start
<1>4. ASSUME NEW t \in Servers, CloseUp(t) \/ CloseEarly(t) \/ Stop(t) PROVE phase'[s] = phase[s]
  BY <1>4 DEF CloseUp, CloseEarly, Stop, Drained, Cleared, To, TypeOK
<1>5. ASSUME NEW n \in Names, Change(n) PROVE phase' = phase
  BY <1>5 DEF Change
<1>6. CASE UNCHANGED vars
  BY <1>6 DEF vars
<1> QED
  BY <1>1, <1>2, <1>3, <1>4, <1>5, <1>6 DEF Next, Server

\* A server that is past the asking does not go back to it.
LEMMA NoReturn ==
  ASSUME TypeOK, [Next]_vars, NEW s \in Servers,
         phase[s] \in {"deciding", "binding", "up"}
  PROVE  ~(phase'[s] \in {"connecting", "fetching"})
<1>1. ASSUME NEW t \in Servers, Listen(t) \/ ListenMisconfigured(t) PROVE phase'[s] = phase[s]
  BY <1>1 DEF Listen, ListenMisconfigured, To, TypeOK
<1>2. ASSUME NEW t \in Servers, NEW n \in Names, ConnectSettles(t, n) PROVE phase' = phase
  BY <1>2 DEF ConnectSettles, ConnectHealthy, ConnectUnhealthy, ConnectOffline, Returns
<1>3. ASSUME NEW t \in Servers, Start(t) PROVE ~(phase'[s] \in {"connecting", "fetching"})
  <2>1. CASE Skip(t) \/ Fetch(t)
    BY <2>1 DEF Skip, Fetch, AllSettled, To, TypeOK
  <2>2. CASE KeyArrives(t) \/ KeyFails(t)
    BY <2>2 DEF KeyArrives, KeyFails, To, TypeOK
  <2>3. CASE Decide(t) \/ Bind(t)
    BY <2>3 DEF Decide, Bind, To, TypeOK
  <2> QED
    BY <1>3, <2>1, <2>2, <2>3 DEF Start
<1>4. ASSUME NEW t \in Servers, CloseUp(t) \/ CloseEarly(t) \/ Stop(t)
      PROVE  ~(phase'[s] \in {"connecting", "fetching"})
  BY <1>4 DEF CloseUp, CloseEarly, Stop, Drained, Cleared, To, TypeOK
<1>5. ASSUME NEW n \in Names, Change(n) PROVE phase' = phase
  BY <1>5 DEF Change
<1>6. CASE UNCHANGED vars
  BY <1>6 DEF vars
<1> QED
  BY <1>1, <1>2, <1>3, <1>4, <1>5, <1>6 DEF Next, Server

\* The key, or the connection to ask for it, does not get lost.
LEMMA KeyStep == TypeOK /\ TestInv /\ KeyInv /\ [Next]_vars => KeyInv'
<1> SUFFICES ASSUME TypeOK, TestInv, KeyInv, [Next]_vars, NoneCleared', Key \in Steady
             PROVE  /\ health'[Key] = "healthy"
                    /\ \A s \in Servers : Oauth(s) /\ Busy(s)' =>
                         IF phase'[s] \in {"connecting", "fetching"}
                         THEN registered'[Key] # None \/ key' ELSE key'
  BY DEF KeyInv, Oauth
<1>1. NoneCleared /\ (key => key') /\ (registered[Key] # None => registered'[Key] # None \/ key')
  BY RegistryStep, ServersAssumption
<1>2. health[Key] = "healthy"
  BY <1>1 DEF KeyInv
<1>3. health'[Key] = "healthy"
  BY <1>2, SteadyStep
<1>4. ASSUME NEW s \in Servers, Oauth(s), Busy(s)'
      PROVE  IF phase'[s] \in {"connecting", "fetching"}
             THEN registered'[Key] # None \/ key' ELSE key'
  <2>1. CASE ~Busy(s)
    BY <1>4, <2>1, BusyStep DEF Oauth
  <2>2. CASE Busy(s) /\ phase[s] \in {"connecting", "fetching"}
    <3>1. registered[Key] # None \/ key
      BY <1>1, <1>4, <2>2 DEF KeyInv
    <3>2. CASE phase'[s] \in {"connecting", "fetching"}
      BY <1>1, <3>1, <3>2
    <3>3. CASE ~(phase'[s] \in {"connecting", "fetching"})
      BY <1>1, <1>2, <1>4, <2>2, <3>1, <3>3, AskStep
    <3> QED
      BY <3>2, <3>3
  <2>3. CASE Busy(s) /\ ~(phase[s] \in {"connecting", "fetching"})
    <3>1. key
      BY <1>1, <1>4, <2>3 DEF KeyInv
    <3>2. ~(phase'[s] \in {"connecting", "fetching"})
      BY <2>3, NoReturn DEF Busy
    <3> QED
      BY <1>1, <3>1, <3>2
  <2> QED
    BY <2>1, <2>2, <2>3
<1> QED
  BY <1>3, <1>4

(* When the OAuth2 server stays healthy, a server that uses it is up only   *)
(* with the key in the Vault, however many servers ask for it at once.      *)
THEOREM KeyThere == Spec => []AlwaysKeyed
<1> DEFINE I == TypeOK /\ TestInv /\ KeyInv
<1>1. Init => I
  BY TypeInit, ServersAssumption DEF Init, TestInv, KeyInv, Busy
<1>2. I /\ [Next]_vars => I'
  BY TypeStep, TestStep, KeyStep
<1>3. I => AlwaysKeyed
  BY DEF KeyInv, AlwaysKeyed, Busy
<1> QED
  BY <1>1, <1>2, <1>3, PTL DEF Spec

-------------------------------------------------------------------------------
(* What is known of a registered client.                                   *)

\* A server that has not begun to listen calls no client; a registered client
\* is being called for the first time, or something is known of it.
Known(c, n) == (\E s \in Servers : calling[s][n] = c) \/ connected[c][n] \/ erred[c][n]

StatusInv ==
  /\ \A s \in Servers, n \in Names : phase[s] = "new" => calling[s][n] = None
  /\ \A n \in Names : registered[n] # None => Known(registered[n], n)

\* Registering clients and calling them.
LEMMA StatusConnect ==
  ASSUME TypeOK, StatusInv, NEW s \in Servers, NEW p \in Phases, NEW ns,
         phase[s] = "new", p # "new", Connect(s, ns), To(s, p)
  PROVE  StatusInv'
<1>1. ASSUME NEW t \in Servers, NEW n \in Names, phase'[t] = "new" PROVE calling'[t][n] = None
  <2>1. t # s /\ phase[t] = "new"
    BY <1>1 DEF To, TypeOK
  <2> QED
    BY <1>1, <2>1 DEF Connect, TypeOK, StatusInv
<1>2. ASSUME NEW n \in Names, registered'[n] # None PROVE Known(registered[n], n)'
  <2>1. registered' = Registered(s, ns) /\ connected' = connected /\ erred' = erred
    BY DEF Connect
  <2>2. calling'[s][n] = IF n \in ns THEN Registered(s, ns)[n] ELSE None
    BY DEF Connect, TypeOK
  <2>3. CASE n \in ns
    BY <2>1, <2>2, <2>3 DEF Known
  <2>4. CASE n \notin ns
    <3>1. registered'[n] = registered[n]
      BY <2>1, <2>4, RegisteredEffect
    <3>2. Known(registered[n], n)
      BY <1>2, <3>1 DEF StatusInv
    <3>3. \A t \in Servers : calling[t][n] = registered[n] => calling'[t][n] = registered[n]
      BY <1>2, <3>1 DEF Connect, TypeOK, StatusInv
    <3> QED
      BY <2>1, <3>1, <3>2, <3>3 DEF Known
  <2> QED
    BY <2>3, <2>4
<1> QED
  BY <1>1, <1>2 DEF StatusInv

\* The end of a connect() tells of the client it was made on.
LEMMA StatusSettles ==
  ASSUME TypeOK, StatusInv, NEW s \in Servers, NEW m \in Names, ConnectSettles(s, m)
  PROVE  StatusInv'
<1> DEFINE o == calling[s][m]
<1>1. o \in Servers
  BY DEF TypeOK, ConnectSettles, ConnectHealthy, ConnectUnhealthy, ConnectOffline, Returns
<1>2. calling' = [calling EXCEPT ![s][m] = None] /\ UNCHANGED <<phase, registered>>
  BY DEF ConnectSettles, ConnectHealthy, ConnectUnhealthy, ConnectOffline, Returns
<1>3. connected'[o][m] \/ erred'[o][m]
  BY <1>1 DEF TypeOK, ConnectSettles, ConnectHealthy, ConnectUnhealthy, ConnectOffline, Fails
<1>4. \A c \in Servers, n \in Names : (c # o \/ n # m) =>
        connected'[c][n] = connected[c][n] /\ erred'[c][n] = erred[c][n]
  BY <1>1 DEF TypeOK, ConnectSettles, ConnectHealthy, ConnectUnhealthy, ConnectOffline, Fails
<1>5. \A t \in Servers, n \in Names : (t # s \/ n # m) => calling'[t][n] = calling[t][n]
  BY <1>2 DEF TypeOK
<1>6. \A t \in Servers, n \in Names : calling'[t][n] \in {None, calling[t][n]}
  BY <1>2 DEF TypeOK
<1>7. ASSUME NEW n \in Names, registered'[n] # None PROVE Known(registered[n], n)'
  <2>1. registered[n] \in Servers /\ Known(registered[n], n) /\ registered'[n] = registered[n]
    BY <1>2, <1>7 DEF StatusInv, TypeOK
  <2>2. CASE registered[n] = o /\ n = m
    BY <1>3, <2>1, <2>2 DEF Known
  <2>3. CASE registered[n] # o \/ n # m
    <3>1. \A t \in Servers : calling[t][n] = registered[n] => calling'[t][n] = registered[n]
      BY <1>5, <2>3
    <3> QED
      BY <1>4, <2>1, <2>3, <3>1 DEF Known
  <2> QED
    BY <2>2, <2>3
<1> QED
  BY <1>2, <1>6, <1>7 DEF StatusInv

\* The other steps leave the clients alone: some names may lead nowhere then.
LEMMA StatusKept ==
  ASSUME TypeOK, StatusInv, UNCHANGED <<connected, erred, calling>>,
         \A n \in Names : registered'[n] \in {None, registered[n]},
         \A s \in Servers : phase'[s] = "new" => phase[s] = "new"
  PROVE  StatusInv'
<1>1. \A s \in Servers, n \in Names : phase'[s] = "new" => calling'[s][n] = None
  BY DEF StatusInv
<1>2. ASSUME NEW n \in Names, registered'[n] # None PROVE Known(registered[n], n)'
  <2>1. registered'[n] = registered[n]
    BY <1>2
  <2>2. Known(registered[n], n)
    BY <1>2, <2>1 DEF StatusInv
  <2> QED
    BY <2>1, <2>2 DEF Known
<1> QED
  BY <1>1, <1>2 DEF StatusInv

LEMMA StatusStep == TypeOK /\ StatusInv /\ [Next]_vars => StatusInv'
<1> SUFFICES ASSUME TypeOK, StatusInv, [Next]_vars PROVE StatusInv'
  OBVIOUS
<1>1. ASSUME NEW s \in Servers, Listen(s) \/ ListenMisconfigured(s) PROVE StatusInv'
  BY <1>1, StatusConnect DEF Listen, ListenMisconfigured, Phases
<1>2. ASSUME NEW s \in Servers, NEW n \in Names, ConnectSettles(s, n) PROVE StatusInv'
  BY <1>2, StatusSettles
<1>3. ASSUME NEW s \in Servers, Start(s) PROVE StatusInv'
  <2>1. UNCHANGED <<connected, erred, calling>>
    BY <1>3 DEF Start, Skip, Fetch, KeyArrives, KeyFails, Decide, Bind
  <2>2. \A n \in Names : registered'[n] \in {None, registered[n]}
    BY <1>3 DEF Start, Skip, Fetch, KeyArrives, KeyFails, Decide, Bind, TypeOK
  <2>3. \A t \in Servers : phase'[t] = "new" => phase[t] = "new"
    BY <1>3 DEF Start, Skip, Fetch, KeyArrives, KeyFails, Decide, Bind, To, TypeOK
  <2> QED
    BY <2>1, <2>2, <2>3, StatusKept
<1>4. ASSUME NEW s \in Servers, CloseUp(s) \/ CloseEarly(s) \/ Stop(s) PROVE StatusInv'
  <2>1. UNCHANGED <<connected, erred, calling>>
    BY <1>4 DEF CloseUp, CloseEarly, Stop, Drained, Cleared, Closing
  <2>2. \A n \in Names : registered'[n] \in {None, registered[n]}
    BY <1>4 DEF CloseUp, CloseEarly, Stop, Drained, Cleared, TypeOK
  <2>3. \A t \in Servers : phase'[t] = "new" => phase[t] = "new"
    BY <1>4 DEF CloseUp, CloseEarly, Stop, Drained, Cleared, To, TypeOK
  <2> QED
    BY <2>1, <2>2, <2>3, StatusKept
<1>5. ASSUME NEW n \in Names, Change(n) PROVE StatusInv'
  BY <1>5, StatusKept DEF Change
<1>6. CASE UNCHANGED vars
  BY <1>6, StatusKept DEF vars
<1> QED
  BY <1>1, <1>2, <1>3, <1>4, <1>5, <1>6 DEF Next, Server

(* The status of a registered connection can be read unless its first       *)
(* connect() is under way.                                                  *)
THEOREM StatusRead == Spec => []StatusReadable
<1>1. Init => TypeOK /\ StatusInv
  BY TypeInit DEF Init, StatusInv
<1>2. TypeOK /\ StatusInv /\ [Next]_vars => (TypeOK /\ StatusInv)'
  BY TypeStep, StatusStep
<1>3. StatusInv => StatusReadable
  BY DEF StatusInv, StatusReadable, Known
<1> QED
  BY <1>1, <1>2, <1>3, PTL DEF Spec

-------------------------------------------------------------------------------
(* The health of a server that is alone.                                   *)

Alone(s) == \A t \in Servers \ {s} : phase[t] = "new"

\* Then the clients are its own, and once listen() knows the fate of a service
\* it is either connected or failed; those it requires have not failed when it
\* takes the port.
AloneState(s) ==
  /\ \A t \in Servers \ {s}, n \in Names : calling[t][n] = None
  /\ \A n \in Names : registered[n] \in {None, s} /\ calling[s][n] \in {None, s}
  /\ Busy(s) => \A n \in ToSet(Uses[s]) :
                  calling[s][n] = s \/ connected[s][n] \/ n \in failed[s]
  /\ phase[s] \in {"fetching", "deciding", "binding", "up"} =>
       \A n \in Names : calling[s][n] = None
  /\ phase[s] \in {"binding", "up"} => Success(s)

AloneInv == \A s \in Servers : Alone(s) => AloneState(s)

\* A server that is not new has been alone only if the others stay new.
LEMMA AloneBefore ==
  ASSUME TypeOK, [Next]_vars, NEW s \in Servers, Alone(s)'
  PROVE  Alone(s)
<1> SUFFICES ASSUME NEW t \in Servers \ {s}, phase'[t] = "new" PROVE phase[t] = "new"
  BY DEF Alone
<1>1. ASSUME NEW u \in Servers, Listen(u) \/ ListenMisconfigured(u) PROVE phase[t] = "new"
  BY <1>1 DEF Listen, ListenMisconfigured, To, TypeOK
<1>2. ASSUME NEW u \in Servers, NEW n \in Names, ConnectSettles(u, n) PROVE phase' = phase
  BY <1>2 DEF ConnectSettles, ConnectHealthy, ConnectUnhealthy, ConnectOffline, Returns
<1>3. ASSUME NEW u \in Servers, Start(u) PROVE phase[t] = "new"
  BY <1>3 DEF Start, Skip, Fetch, KeyArrives, KeyFails, Decide, Bind, To, TypeOK
<1>4. ASSUME NEW u \in Servers, CloseUp(u) \/ CloseEarly(u) \/ Stop(u) PROVE phase[t] = "new"
  BY <1>4 DEF CloseUp, CloseEarly, Stop, Drained, Cleared, To, TypeOK
<1>5. ASSUME NEW n \in Names, Change(n) PROVE phase' = phase
  BY <1>5 DEF Change
<1>6. CASE UNCHANGED vars
  BY <1>6 DEF vars
<1> QED
  BY <1>1, <1>2, <1>3, <1>4, <1>5, <1>6 DEF Next, Server

\* Registering the clients of the server.
LEMMA AloneConnect ==
  ASSUME TypeOK, NEW s \in Servers, AloneState(s), NEW p \in Phases, NEW ns,
         Connect(s, ns), To(s, p),
         \/ p = "connecting" /\ ToSet(Uses[s]) \subseteq ns
         \/ p = "failed"
  PROVE  AloneState(s)'
<1>1. phase'[s] = p
  BY DEF To, TypeOK
<1>2. \A t \in Servers \ {s}, n \in Names : calling'[t][n] = None
  BY DEF Connect, TypeOK, AloneState
<1>3. \A n \in Names : Registered(s, ns)[n] \in {None, s}
  BY RegisteredEffect DEF AloneState
<1>4. \A n \in Names : calling'[s][n] = IF n \in ns THEN Registered(s, ns)[n] ELSE None
  BY DEF Connect, TypeOK
<1>5. \A n \in Names : registered'[n] \in {None, s} /\ calling'[s][n] \in {None, s}
  BY <1>3, <1>4 DEF Connect
<1>6. p = "connecting" => \A n \in ToSet(Uses[s]) : calling'[s][n] = s
  BY <1>3, <1>4, RegisteredEffect, UsesNames
<1> QED
  BY <1>1, <1>2, <1>5, <1>6 DEF AloneState, Busy

\* The end of one of its calls.
LEMMA AloneSettles ==
  ASSUME TypeOK, NEW s \in Servers, AloneState(s),
         NEW t \in Servers, NEW m \in Names, ConnectSettles(t, m)
  PROVE  AloneState(s)'
<1>1. calling[t][m] # None
      /\ calling' = [calling EXCEPT ![t][m] = None] /\ UNCHANGED <<phase, registered>>
  BY DEF ConnectSettles, ConnectHealthy, ConnectUnhealthy, ConnectOffline, Returns
<1>2. t = s /\ calling[s][m] = s
  BY <1>1 DEF AloneState
<1>3. phase[s] \notin {"fetching", "deciding", "binding", "up"}
  BY <1>1, <1>2 DEF AloneState
<1>4. \A u \in Servers \ {s}, n \in Names : calling'[u][n] = None
  BY <1>1, <1>2 DEF AloneState, TypeOK
<1>5. \A n \in Names : calling'[s][n] = IF n = m THEN None ELSE calling[s][n]
  BY <1>1, <1>2 DEF TypeOK
<1>6. connected'[s][m] \/ m \in failed'[s]
  BY <1>2 DEF TypeOK, ConnectSettles, ConnectHealthy, ConnectUnhealthy, ConnectOffline, Fails
<1>7. \A n \in Names : n # m => connected'[s][n] = connected[s][n]
  BY <1>2 DEF TypeOK, ConnectSettles, ConnectHealthy, ConnectUnhealthy, ConnectOffline
<1>8. failed[s] \subseteq failed'[s]
  BY <1>2 DEF TypeOK, ConnectSettles, ConnectHealthy, ConnectUnhealthy, ConnectOffline, Fails
<1>9. Busy(s)' => \A n \in ToSet(Uses[s]) :
        calling'[s][n] = s \/ connected'[s][n] \/ n \in failed'[s]
  BY <1>1, <1>5, <1>6, <1>7, <1>8, UsesNames DEF AloneState, Busy
<1> QED
  BY <1>1, <1>3, <1>4, <1>5, <1>9 DEF AloneState

\* The other steps leave the clients and the calls as they are.
LEMMA AloneKept ==
  ASSUME TypeOK, NEW s \in Servers, AloneState(s),
         UNCHANGED <<connected, calling, failed>>,
         \A n \in Names : registered'[n] \in {None, registered[n]},
         Busy(s)' => Busy(s),
         phase'[s] \in {"fetching", "deciding", "binding", "up"} =>
           \/ phase[s] \in {"fetching", "deciding", "binding", "up"}
           \/ AllSettled(s),
         phase'[s] \in {"binding", "up"} => phase[s] \in {"binding", "up"} \/ Success(s)
  PROVE  AloneState(s)'
  BY DEF AloneState, Success, AllSettled

LEMMA AloneStep == TypeOK /\ AloneInv /\ [Next]_vars => AloneInv'
<1> SUFFICES ASSUME TypeOK, AloneInv, [Next]_vars, NEW s \in Servers, Alone(s)'
             PROVE  AloneState(s)'
  BY DEF AloneInv
<1>0. AloneState(s)
  BY AloneBefore DEF AloneInv
<1>1. ASSUME NEW t \in Servers, Listen(t) \/ ListenMisconfigured(t) PROVE AloneState(s)'
  <2>1. t = s
    BY <1>1 DEF Listen, ListenMisconfigured, To, TypeOK, Alone
  <2> QED
    BY <1>0, <1>1, <2>1, AloneConnect DEF Listen, ListenMisconfigured, Phases
<1>2. ASSUME NEW t \in Servers, NEW n \in Names, ConnectSettles(t, n) PROVE AloneState(s)'
  BY <1>0, <1>2, AloneSettles
<1>3. ASSUME NEW t \in Servers, Start(t) PROVE AloneState(s)'
  <2>1. UNCHANGED <<connected, calling, failed>>
    BY <1>3 DEF Start, Skip, Fetch, KeyArrives, KeyFails, Decide, Bind
  <2>2. \A n \in Names : registered'[n] \in {None, registered[n]}
    BY <1>3 DEF Start, Skip, Fetch, KeyArrives, KeyFails, Decide, Bind, TypeOK
  <2>3. /\ Busy(s)' => Busy(s)
        /\ phase'[s] \in {"fetching", "deciding", "binding", "up"} =>
             \/ phase[s] \in {"fetching", "deciding", "binding", "up"}
             \/ AllSettled(s)
        /\ phase'[s] \in {"binding", "up"} => phase[s] \in {"binding", "up"} \/ Success(s)
    <3>1. CASE t # s
      <4>1. phase'[s] = phase[s]
        BY <1>3, <3>1 DEF Start, Skip, Fetch, KeyArrives, KeyFails, Decide, Bind, To, TypeOK
      <4> QED
        BY <4>1 DEF Busy
    <3>2. CASE Skip(s) \/ Fetch(s)
      BY <3>2 DEF Skip, Fetch, AllSettled, To, TypeOK, Busy
    <3>3. CASE KeyArrives(s) \/ KeyFails(s)
      BY <3>3 DEF KeyArrives, KeyFails, To, TypeOK, Busy
    <3>4. CASE Decide(s) \/ Bind(s)
      BY <3>4 DEF Decide, Bind, To, TypeOK, Busy
    <3> QED
      BY <1>3, <3>1, <3>2, <3>3, <3>4 DEF Start
  <2> QED
    BY <1>0, <2>1, <2>2, <2>3, AloneKept
<1>4. ASSUME NEW t \in Servers, CloseUp(t) \/ CloseEarly(t) \/ Stop(t) PROVE AloneState(s)'
  <2>1. UNCHANGED <<connected, calling, failed>>
    BY <1>4 DEF CloseUp, CloseEarly, Stop, Drained, Cleared, Closing
  <2>2. \A n \in Names : registered'[n] \in {None, registered[n]}
    BY <1>4 DEF CloseUp, CloseEarly, Stop, Drained, Cleared, TypeOK
  <2>3. phase'[s] \in {phase[s], "down"}
    BY <1>4 DEF CloseUp, CloseEarly, Stop, Drained, Cleared, To, TypeOK
  <2> QED
    BY <1>0, <2>1, <2>2, <2>3, AloneKept DEF Busy
<1>5. ASSUME NEW n \in Names, Change(n) PROVE AloneState(s)'
  BY <1>0, <1>5, AloneKept DEF Change, Busy
<1>6. CASE UNCHANGED vars
  BY <1>0, <1>6, AloneKept DEF vars, Busy
<1> QED
  BY <1>1, <1>2, <1>3, <1>4, <1>5, <1>6 DEF Next, Server

(* A server that shares the process with no other reports good health from  *)
(* the moment it is up, whatever its services do.                           *)
THEOREM GoodHealth == Spec => []HealthyWhenAlone
<1>1. Init => TypeOK /\ AloneInv
  BY TypeInit DEF Init, AloneInv, AloneState, Busy
<1>2. TypeOK /\ AloneInv /\ [Next]_vars => (TypeOK /\ AloneInv)'
  BY TypeStep, AloneStep
<1>3. TypeOK /\ AloneInv => HealthyWhenAlone
  <2> SUFFICES ASSUME TypeOK, AloneInv, NEW s \in Servers, phase[s] = "up",
                      \A t \in Servers \ {s} : phase[t] = "new"
               PROVE  AllConnected
    BY DEF HealthyWhenAlone
  <2>1. AloneState(s)
    BY DEF AloneInv, Alone
  <2>2. ASSUME NEW n \in Names, registered[n] # None, n \in Requires[registered[n]]
        PROVE  connected[registered[n]][n]
    <3>1. registered[n] = s /\ n \in ToSet(Uses[s])
      BY <2>1, <2>2, ServersAssumption DEF AloneState
    <3>2. n \notin failed[s] /\ calling[s][n] = None
      BY <2>1, <2>2, <3>1 DEF AloneState, Success
    <3> QED
      BY <2>1, <3>1, <3>2, ServersAssumption DEF AloneState, Busy
  <2> QED
    BY <2>2 DEF AllConnected
<1> QED
  BY <1>1, <1>2, <1>3, PTL DEF Spec
===============================================================================
