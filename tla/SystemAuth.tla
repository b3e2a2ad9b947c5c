------------------------------ MODULE SystemAuth ------------------------------
(***************************************************************************)
(* A client of sysAuth as AdaptersManager (adapter/adapters_manager.ts)    *)
(* makes it, and the web services that share it: connect() starts the      *)
(* authentication of the client and the health checks of all its services  *)
(* at once, and is decided when each of them has settled.                  *)
(*                                                                         *)
(* The client's publicKey is first the text of the configuration, then     *)
(* what Resource makes of it.  Of a literal or a file the key is there     *)
(* before any reply can arrive; of a URL only when the URL has answered,   *)
(* and until then the client verifies with the URL itself.                 *)
(*                                                                         *)
(* A client that may log a user in is none of AdaptersManager's: a program *)
(* made it and gives it to connections that are up (setOauth2Client).      *)
(***************************************************************************)
EXTENDS Oauth2Client

CONSTANTS
  Auth,       \* the caller that is AdaptersManager; the others are web services
  Required    \* the callers that are configured as required

ASSUME SystemAuthAssumption ==
  /\ Auth \in Callers /\ Required \subseteq Callers

VARIABLES
  manager,    \* how far connect() is
  settled,    \* callers whose promise is settled
  failed      \* those of them that rejected

managing == <<manager, settled, failed>>
sysVars == <<vars, managing>>

Services == Callers \ {Auth}

Managed == client.logins = {"client"}

\* The key is at a URL: the text of it is no key of the server.
ByUrl == {"right", "wrong"} \subseteq client.own

SysInit ==
  /\ Init
  /\ ByUrl => ownKey = "wrong"
  /\ manager = (IF Managed THEN "new" ELSE "connected")
  /\ settled = {} /\ failed = {}

\* connectSysAuth does not wait for the key, nor connectWebServices for the token;
\* AdaptersManager's keepFresh is followed by no other.
Connect ==
  /\ manager = "new" /\ manager' = "connecting"
  /\ stage' = [c \in Callers |-> IF c = Auth /\ ByUrl THEN "idle" ELSE "check"]
  /\ pass' = [pass EXCEPT ![Auth] = 2]
  /\ calls' = [c \in Callers |-> 1]
  /\ UNCHANGED <<clock, keys, tokens, server, presented, reply, token, dropped, settled, failed>>

\* Resource keeps the URL when it cannot be read.
Fetched ==
  /\ Quiet
  /\ manager = "connecting" /\ ByUrl /\ stage[Auth] = "idle" /\ Auth \notin settled
  /\ \E key \in {"right"} \cup (IF Flaky THEN {"wrong"} ELSE {}) : ownKey' = key
  /\ To(Auth, "check")
  /\ UNCHANGED <<clock, client, vaultKey, tokens, server, pass, presented, reply, token, calls,
                 dropped, managing>>

\* AdaptersManager does nothing with the token it has made sure of.
Kept ==
  /\ stage[Auth] = "ready"
  /\ To(Auth, "idle")
  /\ settled' = settled \cup {Auth}
  /\ UNCHANGED <<clock, keys, tokens, server, pass, presented, reply, token, calls, dropped,
                 manager, failed>>

\* A health check that was sent is answered, or not; every rejection is a result.
Settle(c, rejected) ==
  /\ manager = "connecting" /\ c \notin settled
  /\ settled' = settled \cup {c}
  /\ failed' = IF rejected THEN failed \cup {c} ELSE failed
  /\ UNCHANGED <<vars, manager>>

Answered(c) == /\ stage[c] = "sent"
               /\ \E rejected \in {FALSE, Flaky} : Settle(c, rejected)

RejectedUncaught(c) == stage[c] \in Failures /\ c \in Services /\ Settle(c, TRUE)
Rejected(c) == stage[c] \in Failures /\ Settle(c, TRUE)

SucceedsWithoutAuth == failed \cap Required \cap Services = {}
Succeeds == failed \cap Required = {}

Decide ==
  /\ manager = "connecting" /\ settled = Callers
  /\ manager' = IF Succeeds THEN "connected" ELSE "failed"
  /\ UNCHANGED <<vars, settled, failed>>

\* The operations of the server, which is up only then, call its services.
Serve(c) == manager = "connected" /\ c \in Services /\ Request(c) /\ UNCHANGED managing

Proceed(c) == /\ KeepFresh(c) \/ Server(c) \/ Receive(c)
                   \/ (c \in Services /\ (TakeToken(c) \/ Send(c)))
              /\ UNCHANGED managing

World == (Tick \/ SetVaultKey) /\ UNCHANGED managing

Manager == Fetched \/ Kept \/ Decide \/ \E c \in Callers : Answered(c) \/ Rejected(c)

SysNext == Connect \/ Manager \/ World \/ \E c \in Callers : Serve(c) \/ Proceed(c)

SysSpec == SysInit /\ [][SysNext]_sysVars

(* Node runs continuations that are ready; what was sent to the             *)
(* authorization server, a service or the URL is assumed to be answered, or *)
(* to fail (needle sets no response timeout of its own).                    *)
SysFairSpec == /\ SysSpec /\ WF_sysVars(Manager)
               /\ \A c \in Callers : WF_sysVars(Proceed(c))

-------------------------------------------------------------------------------
SysTypeOK ==
  /\ TypeOK
  /\ manager \in {"new", "connecting", "connected", "failed"}
  /\ settled \subseteq Callers /\ failed \subseteq settled

(* A client that is given the server's key, whatever the Vault holds, or    *)
(* has none, nor the Vault any but the server's, and fixes the expiration.  *)
Trusted ==
  /\ Managed
  /\ \/ client.own = {"right"}
     \/ /\ client.own = {"none"} /\ client.vault \subseteq {"none", "right"}
        /\ client.fixed # None
  /\ MaxDelay < Life + Tolerance

(* The requests of a trusted client fail only when the server refused: the  *)
(* services connect while their client is still being authenticated, and    *)
(* another's key may come into the Vault meanwhile, but no token that was   *)
(* granted is turned down by the client, nor left without an expiration.    *)
GrantedIsKept ==
  Trusted => \A c \in Callers : stage[c] \notin {"unverified", "undated", "norefresh"}

(* A server that requires its sysAuth is up only with a token, although     *)
(* each of its services authenticates the shared client on its own.         *)
UpWithToken == Managed /\ manager = "connected" /\ Auth \in Required => accessToken # None

(* connect() is decided, whoever refuses, fails or is late.                 *)
ConnectSettles == manager = "connecting" ~> manager \in {"connected", "failed"}
===============================================================================
