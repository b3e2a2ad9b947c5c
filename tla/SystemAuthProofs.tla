--------------------------- MODULE SystemAuthProofs ---------------------------
(***************************************************************************)
(* What connect() guarantees for any number of services that share the     *)
(* client it authenticates.                                                *)
(***************************************************************************)
EXTENDS SystemAuth, Oauth2ClientProofs

\* Nothing is asked before connect(), and AdaptersManager sends no request.
Unsent == /\ manager = "new" => \A c \in Callers : stage[c] = "idle"
          /\ stage[Auth] \notin {"send", "sent"}

\* What AdaptersManager's keepFresh leaves when it resolves.
AuthHasToken ==
  /\ stage[Auth] = "ready" => accessToken # None
  /\ Managed /\ Auth \in settled /\ Auth \notin failed => accessToken # None

Decided == Managed /\ manager = "connected" => settled = Callers /\ failed \cap Required = {}

SysInv == SysTypeOK /\ Unsent /\ AuthHasToken /\ Decided

\* The initial state.
LEMMA SysInitInv == SysInit => SysInv
<1> SUFFICES ASSUME SysInit PROVE SysInv
  OBVIOUS
<1>1. TypeOK
  BY TypeInit DEF SysInit
<1>2. \A c \in Callers : stage[c] = "idle"
  BY DEF SysInit, Init
<1> QED BY <1>1, <1>2, SystemAuthAssumption
    DEF SysInit, SysInv, SysTypeOK, Unsent, AuthHasToken, Decided, SystemAuthAssumption

\* Tokens that arrive are kept.
LEMMA ArrivedToken ==
  ASSUME TypeOK, NEW c \in Callers, ArrivesTokens(c)
  PROVE  accessToken' # None
<1>1. reply[c] \in Replies /\ reply[c].kind = "tokens"
  BY DEF ArrivesTokens, Arrives, TypeOK
<1>2. reply[c].access \in Issued
  BY <1>1 DEF Replies
<1>3. Until(c, reply[c].access) \in Nat \cup {None}
  BY <1>2, UntilType
<1>4. accessToken' = [id |-> reply[c].access.id, exp |-> reply[c].access.exp,
                      until |-> Until(c, reply[c].access)]
  BY DEF ArrivesTokens
<1>5. accessToken' \in AccessTokens
  BY <1>2, <1>3, <1>4 DEF AccessTokens, Issued
<1> QED BY <1>5, Numbers

\* A token, once there, is replaced but never taken back, and the client stays.
LEMMA TokenStays ==
  ASSUME TypeOK, [Next]_vars
  PROVE  /\ accessToken # None => accessToken' # None
         /\ client' = client
<1>1. ASSUME NEW c \in Callers, Caller(c)
      PROVE  (accessToken # None => accessToken' # None) /\ client' = client
  <2>1. CASE Request(c) \/ TakeToken(c) \/ Send(c) \/ Server(c)
    BY <2>1 DEF Request, TakeToken, Send, Server, tokens, keys
  <2>2. CASE KeepFresh(c)
    BY <2>2 DEF KeepFresh, KeepFreshFresh, KeepFreshUndated, KeepFreshRefresh,
                KeepFreshAuthenticate, tokens, keys
  <2>3. CASE ArrivesTokens(c)
    BY <2>3, ArrivedToken DEF ArrivesTokens, Arrives, keys
  <2>4. CASE ArrivesRefused(c) \/ ArrivesCode(c) \/ ArrivesUnverified(c)
    BY <2>4 DEF ArrivesRefused, ArrivesCode, ArrivesUnverified, Arrives, tokens, keys
  <2> QED BY <1>1, <2>1, <2>2, <2>3, <2>4 DEF Caller, Receive
<1>2. CASE Tick \/ SetPublicKey \/ SetVaultKey \/ UNCHANGED vars
  BY <1>2 DEF Tick, SetPublicKey, SetVaultKey, vars, tokens, keys
<1> QED BY <1>1, <1>2 DEF Next

\* A keepFresh that resolves has found a token, or brought one.
LEMMA ReadyHasToken ==
  ASSUME TypeOK, NEW c \in Callers, KeepFresh(c) \/ Server(c) \/ Receive(c), Auth \in Callers,
         stage[Auth] = "ready" => accessToken # None, stage'[Auth] = "ready"
  PROVE  accessToken' # None
<1>1. CASE stage[Auth] = "ready"
  <2>1. [Next]_vars
    BY DEF Next, Caller
  <2> QED BY <1>1, <2>1, TokenStays
<1>2. CASE KeepFreshFresh(c)
  BY <1>2 DEF KeepFreshFresh, tokens
<1>3. CASE ArrivesTokens(c)
  BY <1>3, ArrivedToken
<1>4. CASE stage[Auth] # "ready" /\ ~KeepFreshFresh(c) /\ ~ArrivesTokens(c)
  <2>1. client.logins \subseteq {"code", "client"}
    BY ClientAssumption DEF TypeOK, ClientAssumption, Configurations
  <2>2. stage'[Auth] # "ready"
    BY <1>4, <2>1
    DEF KeepFresh, KeepFreshUndated, KeepFreshRefresh, KeepFreshAuthenticate, Server,
        Receive, ArrivesRefused, ArrivesCode, ArrivesUnverified, To, TypeOK
  <2> QED BY <2>2
<1> QED BY <1>1, <1>2, <1>3, <1>4

\* AdaptersManager's own authentication goes no further than its keepFresh.
LEMMA AuthUnsent ==
  ASSUME TypeOK, NEW c \in Callers, Proceed(c), Auth \in Callers,
         stage[Auth] \notin {"send", "sent"}
  PROVE  stage'[Auth] \notin {"send", "sent"}
<1>1. client.logins \subseteq {"code", "client"}
  BY ClientAssumption DEF TypeOK, ClientAssumption, Configurations
<1>2. CASE KeepFresh(c)
  BY <1>1, <1>2 DEF KeepFresh, KeepFreshFresh, KeepFreshUndated, KeepFreshRefresh,
                    KeepFreshAuthenticate, Passed, To, TypeOK
<1>3. CASE Server(c)
  BY <1>3 DEF Server
<1>4. CASE Receive(c)
  BY <1>4 DEF Receive, ArrivesRefused, ArrivesCode, ArrivesUnverified, ArrivesTokens, Passed, To,
              TypeOK
<1>5. CASE c \in Services /\ (TakeToken(c) \/ Send(c))
  BY <1>5 DEF Services, TakeToken, Send, To, TypeOK
<1> QED BY <1>2, <1>3, <1>4, <1>5 DEF Proceed

\* Every step keeps the invariant.
LEMMA SysStep == SysInv /\ [SysNext]_sysVars => SysInv'
<1> SUFFICES ASSUME SysInv, [SysNext]_sysVars PROVE SysInv'
  OBVIOUS
<1> USE DEF managing, Managed
<1>0. Auth \in Callers /\ TypeOK
  BY SystemAuthAssumption DEF SystemAuthAssumption, SysInv, SysTypeOK
<1>1. CASE Connect
  <2>1. TypeOK'
    BY <1>0, <1>1 DEF Connect, SysInv, SysTypeOK, Unsent, TypeOK, keys, tokens, server, Exchanges,
                      BetweenAwaits, Idle
  <2> QED BY <1>0, <1>1, <2>1
      DEF Connect, SysInv, SysTypeOK, Unsent, AuthHasToken, Decided, keys, tokens
<1>2. CASE Fetched
  <2>1. ownKey' \in client.own
    BY <1>2 DEF Fetched, ByUrl
  <2>2. TypeOK'
    BY <1>0, <1>2, <2>1 DEF Fetched, To, TypeOK, tokens, server, Exchanges, BetweenAwaits, Idle
  <2> QED BY <1>0, <1>2, <2>2
      DEF Fetched, To, SysInv, SysTypeOK, Unsent, AuthHasToken, Decided, tokens, TypeOK
<1>3. CASE Kept
  <2>1. TypeOK'
    BY <1>0, <1>3 DEF Kept, To, TypeOK, keys, tokens, server, Exchanges, BetweenAwaits, Idle
  <2> QED BY <1>0, <1>3, <2>1
      DEF Kept, To, SysInv, SysTypeOK, Unsent, AuthHasToken, Decided, keys, tokens, TypeOK
<1>4. ASSUME NEW c \in Callers, Answered(c) \/ Rejected(c) PROVE SysInv'
  <2>1. /\ UNCHANGED <<vars, manager>> /\ manager = "connecting"
        /\ settled' = settled \cup {c} /\ failed' \in {failed, failed \cup {c}}
        /\ c = Auth => c \in failed'
    BY <1>4 DEF Answered, Rejected, Settle, SysInv, Unsent
  <2>2. TypeOK' /\ UNCHANGED <<stage, accessToken, client>>
    BY <1>0, <2>1 DEF vars, keys, tokens, server, TypeOK
  <2>3. failed \subseteq failed' /\ failed' \subseteq settled' /\ settled' \subseteq Callers
    BY <2>1 DEF SysInv, SysTypeOK
  <2> QED BY <2>1, <2>2, <2>3 DEF SysInv, SysTypeOK, Unsent, AuthHasToken, Decided
<1>5. CASE Decide
  <2>1. TypeOK' /\ UNCHANGED <<stage, accessToken, client>>
    BY <1>0, <1>5 DEF Decide, vars, keys, tokens, server, TypeOK
  <2> QED BY <1>5, <2>1
      DEF Decide, Succeeds, SysInv, SysTypeOK, Unsent, AuthHasToken, Decided
<1>6. ASSUME [Next]_vars, UNCHANGED managing,
             manager = "new" => UNCHANGED stage,
             stage'[Auth] \notin {"send", "sent"},
             stage'[Auth] = "ready" => accessToken' # None
      PROVE  SysInv'
  <2>1. TypeOK' /\ (accessToken # None => accessToken' # None) /\ client' = client
    BY <1>0, <1>6, TypeStep, TokenStays
  <2> QED BY <1>6, <2>1 DEF SysInv, SysTypeOK, Unsent, AuthHasToken, Decided
<1>7. CASE World
  <2>1. [Next]_vars /\ UNCHANGED stage
    BY <1>7 DEF World, Next, Tick, SetVaultKey
  <2>2. accessToken # None => accessToken' # None
    BY <1>0, <2>1, TokenStays
  <2> QED BY <1>6, <1>7, <2>1, <2>2 DEF World, SysInv, Unsent, AuthHasToken
<1>8. ASSUME NEW c \in Callers, Serve(c) PROVE SysInv'
  <2>1. [Next]_vars /\ manager # "new" /\ stage'[Auth] = stage[Auth]
    BY <1>0, <1>8 DEF Serve, Services, Request, To, Next, Caller, TypeOK
  <2>2. accessToken # None => accessToken' # None
    BY <1>0, <2>1, TokenStays
  <2> QED BY <1>6, <1>8, <2>1, <2>2 DEF Serve, SysInv, Unsent, AuthHasToken
<1>9. ASSUME NEW c \in Callers, Proceed(c) PROVE SysInv'
  <2>1. [Next]_vars
    BY <1>9 DEF Proceed, Next, Caller
  <2>2. stage'[Auth] \notin {"send", "sent"}
    BY <1>0, <1>9, AuthUnsent DEF SysInv, Unsent
  <2>3. stage'[Auth] = "ready" => accessToken' # None
    <3>1. CASE KeepFresh(c) \/ Server(c) \/ Receive(c)
      BY <1>0, <3>1, ReadyHasToken DEF SysInv, AuthHasToken
    <3>2. CASE c \in Services /\ (TakeToken(c) \/ Send(c))
      BY <1>0, <3>2 DEF Services, TakeToken, Send, To, TypeOK, tokens, SysInv, AuthHasToken
    <3> QED BY <1>9, <3>1, <3>2 DEF Proceed
  <2>4. manager # "new"
    <3>1. stage[c] # "idle"
      BY <1>0, <1>9 DEF Proceed, KeepFresh, KeepFreshFresh, KeepFreshUndated, KeepFreshRefresh,
          KeepFreshAuthenticate, Server, Waits, Exchanges, Receive, ArrivesRefused, ArrivesCode,
          ArrivesUnverified, ArrivesTokens, Arrives, TakeToken, Send, TypeOK
    <3> QED BY <3>1 DEF SysInv, Unsent
  <2> QED BY <1>6, <1>9, <2>1, <2>2, <2>3, <2>4 DEF Proceed
<1>10. CASE UNCHANGED sysVars
  <2>1. [Next]_vars /\ UNCHANGED <<stage, accessToken>> /\ UNCHANGED managing
    BY <1>10 DEF sysVars, vars, tokens
  <2> QED BY <1>6, <2>1 DEF SysInv, Unsent, AuthHasToken
<1> QED BY <1>1, <1>2, <1>3, <1>4, <1>5, <1>7, <1>8, <1>9, <1>10 DEF SysNext, Manager

(* Type correctness of a client and its services.                          *)
THEOREM SysTypeCorrect == SysSpec => []SysTypeOK
<1>1. SysInv => SysTypeOK
  BY DEF SysInv
<1> QED BY SysInitInv, SysStep, <1>1, PTL DEF SysSpec

(* Whoever refuses, fails or comes late, and whatever keys the client is    *)
(* given: a server that requires its sysAuth is up only with a token.       *)
THEOREM TokenWhenUp == SysSpec => []UpWithToken
<1>1. SysInv => UpWithToken
  BY SystemAuthAssumption
  DEF SysInv, AuthHasToken, Decided, UpWithToken, Managed, SystemAuthAssumption
<1> QED BY SysInitInv, SysStep, <1>1, PTL DEF SysSpec

-------------------------------------------------------------------------------
(* GrantedIsKept: a trusted client, which only ever runs the exchange that   *)
(* is given its own key, gets tokens of the right key, in time, and dates    *)
(* each of them.                                                             *)

Dated == Trusted /\ accessToken # None => accessToken.until # None

GrantInv == TypeOK /\ OnlyClient /\ InTime /\ Dated /\ GrantedIsKept

LEMMA GrantInit == SysInit => GrantInv
<1> SUFFICES ASSUME SysInit PROVE GrantInv
  OBVIOUS
<1>1. TypeOK
  BY TypeInit DEF SysInit
<1> QED BY <1>1 DEF SysInit, Init, GrantInv, OnlyClient, InTime, Dated, GrantedIsKept

\* What a client of sysAuth is told, in the exchange that it waits in.
LEMMA GrantReply ==
  ASSUME GrantInv, Managed, NEW c \in Callers, reply[c] # None
  PROVE  /\ stage[c] = "client" /\ refreshToken = None
         /\ \/ reply[c].kind = "refused"
            \/ /\ reply[c].kind = "tokens" /\ reply[c].refresh = "none"
               /\ reply[c].access \in Issued
               /\ clock <= reply[c].access.exp - Life + MaxDelay
<1>1. stage[c] = "client" /\ refreshToken = None
  BY DEF GrantInv, TypeOK, OnlyClient, Managed, Exchanges
<1>2. reply[c] \in Replies /\ reply[c].kind # "code"
  BY DEF GrantInv, TypeOK, OnlyClient, Managed
<1>3. CASE reply[c].kind = "refused"
  BY <1>1, <1>3
<1>4. CASE reply[c].kind = "tokens"
  <2>1. reply[c].access \in Issued
    BY <1>2, <1>4 DEF Replies
  <2> QED BY <1>1, <1>4, <2>1 DEF GrantInv, InTime, OnlyClient, Managed
<1> QED BY <1>2, <1>3, <1>4 DEF Replies

\* A trusted client verifies what it was granted, and dates it.
LEMMA GrantTaken ==
  ASSUME GrantInv, Trusted, NEW c \in Callers, reply[c] # None, reply[c].kind = "tokens"
  PROVE  Verifies(c, reply[c].access) /\ Until(c, reply[c].access) # None
<1> DEFINE access == reply[c].access
<1>1. /\ stage[c] = "client" /\ access \in Issued
      /\ clock <= access.exp - Life + MaxDelay
  BY GrantReply DEF Trusted
<1>2. KeyOf(c) \in {"none", "right"} /\ (KeyOf(c) = "none" => client.fixed # None)
  BY <1>1 DEF Trusted, KeyOf, GrantInv, TypeOK
<1>3. access.exp \in Nat /\ clock \in Nat /\ MaxDelay < Life + Tolerance
  BY <1>1 DEF Issued, GrantInv, TypeOK, Trusted
<1>4. Accepts(access)
  BY <1>1, <1>3, Numbers DEF Accepts
<1>5. client.fixed \in Nat \cup {None}
  BY ClientAssumption DEF GrantInv, TypeOK, ClientAssumption, Configurations
<1>6. Until(c, access) # None
  <2>1. CASE client.fixed # None
    <3>1. Until(c, access) = (IF Stamped THEN access.exp - Life ELSE clock) + client.fixed
      BY <1>1, <2>1 DEF Until
    <3>2. access.exp - Life \in Nat
      BY <1>1, <1>3, Numbers DEF Issued
    <3>3. Until(c, access) \in Nat
      BY <1>3, <1>5, <2>1, <3>1, <3>2
    <3> QED BY <3>3, Numbers
  <2>2. CASE client.fixed = None
    <3>1. Until(c, access) = access.exp
      BY <1>2, <2>2 DEF Until
    <3> QED BY <1>3, <3>1, Numbers
  <2> QED BY <2>1, <2>2
<1> QED BY <1>2, <1>4, <1>6 DEF Verifies

LEMMA GrantReceive ==
  ASSUME GrantInv, Managed, NEW c \in Callers, Receive(c)
  PROVE  OnlyClient' /\ InTime' /\ Dated' /\ GrantedIsKept'
<1>1. reply[c] # None /\ UNCHANGED <<clock, keys>>
      /\ reply' = [reply EXCEPT ![c] = None]
  BY DEF Receive, ArrivesRefused, ArrivesCode, ArrivesUnverified, ArrivesTokens, Arrives, Answer
<1>2. /\ stage[c] = "client" /\ refreshToken = None
      /\ reply[c].kind = "tokens" => reply[c].refresh = "none"
      /\ reply[c].kind # "code"
  BY <1>1, GrantReply
<1>3. \A d \in Callers : reply'[d] # None => reply'[d] = reply[d]
  BY <1>1 DEF GrantInv, TypeOK
<1>4. InTime'
  BY <1>1, <1>3 DEF GrantInv, InTime
<1>5. client' = client /\ (Trusted' <=> Trusted)
  BY <1>1 DEF keys, Trusted, Managed
<1>6. CASE ArrivesRefused(c)
  <2>1. stage' = [stage EXCEPT ![c] = "refused"] /\ UNCHANGED tokens
    BY <1>6 DEF ArrivesRefused, To
  <2> QED BY <1>3, <1>4, <1>5, <2>1
      DEF GrantInv, TypeOK, OnlyClient, Dated, GrantedIsKept, tokens
<1>7. CASE ArrivesCode(c)
  BY <1>2, <1>7 DEF ArrivesCode, Arrives
<1>8. CASE ArrivesUnverified(c)
  <2>1. ~Trusted
    BY <1>1, <1>8, GrantTaken DEF ArrivesUnverified, Arrives
  <2>2. stage' = [stage EXCEPT ![c] = "unverified"] /\ UNCHANGED tokens
    BY <1>8 DEF ArrivesUnverified, To
  <2> QED BY <1>3, <1>4, <1>5, <2>1, <2>2
      DEF GrantInv, TypeOK, OnlyClient, Dated, GrantedIsKept, tokens
<1>9. CASE ArrivesTokens(c)
  <2>1. reply[c].kind = "tokens" /\ refreshToken' = None
    BY <1>2, <1>9 DEF ArrivesTokens, Arrives, SetRefresh
  <2>2. Trusted => accessToken'.until # None
    BY <1>1, <1>9, <2>1, GrantTaken DEF ArrivesTokens
  <2>3. stage' = [stage EXCEPT ![c] = IF pass[c] = 1 THEN "check" ELSE "ready"]
    BY <1>2, <1>9 DEF ArrivesTokens, UsableRefresh, Passed, To
  <2> QED BY <1>3, <1>4, <1>5, <2>1, <2>2, <2>3
      DEF GrantInv, TypeOK, OnlyClient, Dated, GrantedIsKept
<1> QED BY <1>6, <1>7, <1>8, <1>9 DEF Receive

\* The steps of a request that neither ask nor hear the server.
LEMMA GrantKeepFresh ==
  ASSUME GrantInv, Managed, NEW c \in Callers, KeepFresh(c)
  PROVE  OnlyClient' /\ InTime' /\ Dated' /\ GrantedIsKept'
<1>1. UNCHANGED <<clock, keys, tokens, reply>> /\ (Trusted' <=> Trusted) /\ client' = client
  BY DEF KeepFresh, KeepFreshFresh, KeepFreshUndated, KeepFreshRefresh, KeepFreshAuthenticate,
         keys, Trusted, Managed
<1>2. \E s \in {"check", "ready", "client", "undated"} :
        stage' = [stage EXCEPT ![c] = s] /\ (s = "undated" => ~Trusted)
  <2>1. CASE KeepFreshFresh(c)
    BY <2>1 DEF KeepFreshFresh, Passed, To
  <2>2. CASE KeepFreshUndated(c)
    BY <2>2 DEF KeepFreshUndated, To, GrantInv, Dated
  <2>3. CASE KeepFreshRefresh(c)
    BY <2>3 DEF KeepFreshRefresh, GrantInv, OnlyClient, Managed
  <2>4. CASE KeepFreshAuthenticate(c)
    BY <2>4 DEF KeepFreshAuthenticate, To, Managed
  <2> QED BY <2>1, <2>2, <2>3, <2>4 DEF KeepFresh
<1> QED BY <1>1, <1>2
    DEF GrantInv, TypeOK, OnlyClient, InTime, Dated, GrantedIsKept, tokens, keys

LEMMA GrantServer ==
  ASSUME GrantInv, Managed, NEW c \in Callers, Server(c)
  PROVE  OnlyClient' /\ InTime' /\ Dated' /\ GrantedIsKept'
<1>1. /\ UNCHANGED <<clock, keys, tokens, stage>> /\ (Trusted' <=> Trusted) /\ client' = client
      /\ refreshToken' = refreshToken /\ accessToken' = accessToken
  BY DEF Server, keys, Trusted, Managed, tokens
<1>2. stage[c] = "client"
  BY DEF Server, Waits, GrantInv, OnlyClient, Managed, Exchanges
<1>3. clock \in Nat /\ Life \in Nat /\ MaxDelay \in Nat
  BY Numbers DEF GrantInv, TypeOK
<1> DEFINE Fine(r) ==
      r.kind # "code" /\ (r.kind = "tokens" => /\ r.refresh = "none"
                                               /\ clock <= r.access.exp - Life + MaxDelay)
<1>4. \E r : Fine(r) /\ reply' = [reply EXCEPT ![c] = r]
  <2>1. ASSUME reply' = [reply EXCEPT ![c] = [kind |-> "refused"]] PROVE <1>4
    <3>1. Fine([kind |-> "refused"])
      OBVIOUS
    <3> QED BY <2>1, <3>1
  <2>2. CASE ServerCode(c)
    BY <1>2, <2>2 DEF ServerCode
  <2>3. CASE ServerRefuse(c)
    BY <2>1, <2>3 DEF ServerRefuse, Answer
  <2>4. ASSUME NEW refresh \in Refreshes(c), ServerGrant(c, refresh) PROVE <1>4
    <3> DEFINE r == [kind |-> "tokens", refresh |-> refresh,
                     access |-> [id |-> issued + 1, exp |-> clock + Life]]
    <3>1. refresh = "none"
      BY <1>2 DEF Refreshes
    <3>2. Fine(r)
      BY <1>3, <3>1
    <3>3. reply' = [reply EXCEPT ![c] = r]
      BY <2>4 DEF ServerGrant, Answer
    <3> QED BY <3>2, <3>3
  <2>5. ASSUME NEW refresh \in Refreshes(c), ServerLost(c, refresh) PROVE <1>4
    BY <2>1, <2>5 DEF ServerLost, Answer
  <2> QED BY <2>2, <2>3, <2>4, <2>5 DEF Server
<1> QED BY <1>1, <1>4 DEF GrantInv, TypeOK, OnlyClient, InTime, Dated, GrantedIsKept

\* A token is not on its way for longer than the bound: the clock waits for it.
LEMMA GrantTick ==
  ASSUME GrantInv, Tick
  PROVE  OnlyClient' /\ InTime' /\ Dated' /\ GrantedIsKept'
<1>1. /\ UNCHANGED <<keys, tokens, stage, reply>> /\ (Trusted' <=> Trusted) /\ client' = client
      /\ refreshToken' = refreshToken /\ accessToken' = accessToken
  BY DEF Tick, keys, Trusted, Managed, tokens
<1>2. ASSUME NEW d \in Callers, reply[d] # None, reply[d].kind = "tokens"
      PROVE  clock + 1 <= reply[d].access.exp - Life + MaxDelay
  <2>1. reply[d] \in Replies
    BY <1>2 DEF GrantInv, TypeOK
  <2>2. reply[d].access.exp \in Nat /\ clock \in Nat
    BY <1>2, <2>1 DEF Replies, Issued, GrantInv, TypeOK
  <2>3. ~(clock >= reply[d].access.exp - Life + MaxDelay)
    BY <1>2 DEF Tick, Due
  <2> QED BY <2>2, <2>3, Numbers
<1> QED BY <1>1, <1>2 DEF Tick, GrantInv, OnlyClient, InTime, Dated, GrantedIsKept

\* The steps of AdaptersManager and of keys.
LEMMA GrantUntouched ==
  ASSUME GrantInv, UNCHANGED <<clock, client, tokens, reply>>,
         \A d \in Callers : stage'[d] \in {stage[d], "idle", "check", "send", "sent"}
  PROVE  OnlyClient' /\ InTime' /\ Dated' /\ GrantedIsKept'
  BY DEF GrantInv, OnlyClient, InTime, Dated, GrantedIsKept, Trusted, Managed, tokens

LEMMA GrantStep ==
  SysInv /\ (Managed => GrantInv) /\ [SysNext]_sysVars => (Managed => GrantInv)'
<1> SUFFICES ASSUME SysInv, Managed => GrantInv, [SysNext]_sysVars, Managed'
             PROVE  GrantInv'
  OBVIOUS
<1>0. Auth \in Callers /\ TypeOK /\ TypeOK'
  BY SystemAuthAssumption, SysStep DEF SystemAuthAssumption, SysInv, SysTypeOK
<1>1. ASSUME [Next]_vars PROVE client' = client
  BY <1>0, <1>1, TokenStays
<1>2. client' = client
  <2>1. CASE Connect \/ Manager \/ UNCHANGED sysVars
    BY <2>1 DEF Connect, Manager, Fetched, Kept, Answered, Rejected, Settle, Decide, sysVars, vars,
                keys
  <2>2. CASE World \/ \E c \in Callers : Serve(c) \/ Proceed(c)
    <3>1. [Next]_vars
      BY <2>2 DEF World, Serve, Proceed, Next, Caller
    <3> QED BY <1>1, <3>1
  <2> QED BY <2>1, <2>2 DEF SysNext
<1>3. Managed /\ GrantInv
  BY <1>2 DEF Managed
<1> SUFFICES OnlyClient' /\ InTime' /\ Dated' /\ GrantedIsKept'
  BY <1>0 DEF GrantInv
<1>4. CASE Connect
  <2>1. UNCHANGED <<clock, client, tokens, reply>>
        /\ \A d \in Callers : stage'[d] \in {"idle", "check"}
    BY <1>4 DEF Connect, keys
  <2> QED BY <1>3, <2>1, GrantUntouched
<1>5. CASE Manager \/ UNCHANGED sysVars
  <2>1. UNCHANGED <<clock, client, tokens, reply>>
    BY <1>5 DEF Manager, Fetched, Kept, Answered, Rejected, Settle, Decide, sysVars, vars, keys
  <2>2. \A d \in Callers : stage'[d] \in {stage[d], "idle", "check"}
    BY <1>0, <1>5 DEF Manager, Fetched, Kept, Answered, Rejected, Settle, Decide, sysVars, vars, To,
                      TypeOK
  <2> QED BY <1>3, <2>1, <2>2, GrantUntouched
<1>6. CASE World
  <2>1. CASE Tick
    BY <1>3, <2>1, GrantTick
  <2>2. CASE SetVaultKey
    <3>1. UNCHANGED <<clock, client, tokens, reply, stage>>
      BY <2>2 DEF SetVaultKey
    <3> QED BY <1>3, <3>1, GrantUntouched
  <2> QED BY <1>6, <2>1, <2>2 DEF World
<1>7. ASSUME NEW c \in Callers, Request(c) \/ TakeToken(c) \/ Send(c)
      PROVE  OnlyClient' /\ InTime' /\ Dated' /\ GrantedIsKept'
  <2>1. UNCHANGED <<clock, client, tokens, reply>>
    BY <1>7 DEF Request, TakeToken, Send, keys
  <2>2. \A d \in Callers : stage'[d] \in {stage[d], "check", "send", "sent"}
    BY <1>0, <1>7 DEF Request, TakeToken, Send, To, TypeOK
  <2> QED BY <1>3, <2>1, <2>2, GrantUntouched
<1>8. ASSUME NEW c \in Callers, Serve(c) \/ Proceed(c)
      PROVE  OnlyClient' /\ InTime' /\ Dated' /\ GrantedIsKept'
  BY <1>3, <1>7, <1>8, GrantKeepFresh, GrantServer, GrantReceive DEF Serve, Proceed
<1> QED BY <1>4, <1>5, <1>6, <1>8 DEF SysNext

(* A client that was given the server's key, or none and an expiration,     *)
(* turns down no token that was granted in time, for any number of services *)
(* that authenticate it at once and whatever comes into the Vault.          *)
THEOREM GrantsKept == SysSpec => []GrantedIsKept
<1> DEFINE Inv == SysInv /\ (Managed => GrantInv)
<1>1. SysInit => Inv
  BY SysInitInv, GrantInit
<1>2. Inv /\ [SysNext]_sysVars => Inv'
  BY SysStep, GrantStep
<1>3. Inv => GrantedIsKept
  BY DEF GrantInv, GrantedIsKept, Trusted
<1> HIDE DEF Inv
<1> QED BY <1>1, <1>2, <1>3, PTL DEF SysSpec

-------------------------------------------------------------------------------
(* The guarantees of the client alone, in the hands of AdaptersManager:      *)
(* its callers start together, its key may come late, and its own            *)
(* authentication has no second keepFresh and sends nothing.                 *)

\* Connect, Fetched and the end of AdaptersManager's keepFresh touch no token.
LEMMA ManagerLeaves ==
  ASSUME SysInv, Connect \/ Manager \/ UNCHANGED sysVars
  PROVE  /\ UNCHANGED <<clock, client, vaultKey, tokens, server, presented, reply, token, dropped>>
         /\ ownKey' = ownKey \/ ownKey' # "none"
         /\ \A c \in Services : pass'[c] = pass[c]
         /\ \A c \in Callers : \/ stage'[c] = stage[c] /\ pass'[c] = pass[c]
                               \/ stage[c] = "idle" /\ stage'[c] \in {"idle", "check"}
                               \/ /\ stage[c] = "ready" /\ stage'[c] = "idle"
                                  /\ pass'[c] = pass[c]
<1>1. Auth \in Callers /\ TypeOK
  BY SystemAuthAssumption DEF SystemAuthAssumption, SysInv, SysTypeOK
<1>2. CASE Connect
  BY <1>1, <1>2 DEF Connect, SysInv, Unsent, Services, TypeOK, keys
<1>3. CASE Fetched
  <2>1. ownKey' # "none"
    BY <1>3 DEF Fetched
  <2> QED BY <1>1, <1>3, <2>1 DEF Fetched, To, TypeOK
<1>4. CASE Kept
  BY <1>1, <1>4 DEF Kept, To, TypeOK, keys
<1>5. CASE Decide \/ UNCHANGED sysVars \/ \E c \in Callers : Answered(c) \/ Rejected(c)
  BY <1>5 DEF Decide, Answered, Rejected, Settle, sysVars, vars, keys
<1> QED BY <1>2, <1>3, <1>4, <1>5 DEF Manager

\* Every other step is one of the client.
LEMMA ClientSteps ==
  ASSUME SysInv, [SysNext]_sysVars
  PROVE  \/ Connect \/ Manager \/ UNCHANGED sysVars
         \/ /\ [Next]_vars
            /\ \A c \in Callers \ Services : stage'[c] = "send" => stage[c] = "send"
<1>1. Auth \in Callers /\ TypeOK
  BY SystemAuthAssumption DEF SystemAuthAssumption, SysInv, SysTypeOK
<1>2. stage'[Auth] # "send"
  BY SysStep DEF SysInv, Unsent
<1>3. ASSUME World \/ \E c \in Callers : Serve(c) \/ Proceed(c) PROVE [Next]_vars
  BY <1>3 DEF World, Serve, Proceed, Next, Caller
<1> QED BY <1>2, <1>3 DEF SysNext, Services

SysSentInv == SysInv /\ SentInv(Services)

LEMMA SysSentStep == SysSentInv /\ [SysNext]_sysVars => SysSentInv'
<1> SUFFICES ASSUME SysSentInv, [SysNext]_sysVars PROVE SentInv(Services)'
  BY SysStep DEF SysSentInv
<1>1. SysInv /\ SentInv(Services) /\ TypeOK'
  BY SysStep DEF SysSentInv, SysInv, SysTypeOK
<1>2. CASE /\ [Next]_vars
           /\ \A c \in Callers \ Services : stage'[c] = "send" => stage[c] = "send"
  BY <1>1, <1>2, SentStep DEF Services
<1>3. CASE Connect \/ Manager \/ UNCHANGED sysVars
  <2>1. /\ UNCHANGED <<clock, client, vaultKey, tokens, reply, token>>
        /\ ownKey' = ownKey \/ ownKey' # "none"
        /\ \A c \in Services : pass'[c] = pass[c]
        /\ \A c \in Callers : stage'[c] \in {stage[c], "idle", "check"}
    BY <1>1, <1>3, ManagerLeaves
  <2>2. UNCHANGED <<clock, client, accessToken, refreshToken, reply, token>> /\ (KeyKnown => KeyKnown')
    BY <2>1 DEF tokens, KeyKnown
  <2>3. SecondFinds(Services)' /\ DatedKeyed(Services)'
    BY <1>1, <2>1, <2>2 DEF SentInv, SecondFinds, DatedKeyed, Exchanges, Services
  <2>4. OnlyClient' /\ InTime' /\ UntilBefore'
    BY <1>1, <2>1, <2>2 DEF SentInv, OnlyClient, InTime, UntilBefore, FixedSound
  <2>5. ReadyAccepted(Services)' /\ SentIsAccepted'
    BY <1>1, <2>1, <2>2 DEF SentInv, ReadyAccepted, SentIsAccepted, Sound, Accepts, Services
  <2> QED BY <1>1, <2>3, <2>4, <2>5 DEF SentInv
<1> QED BY <1>1, <1>2, <1>3, ClientSteps

(* A service's request leaves with a token that is still accepted, although  *)
(* services and AdaptersManager authenticate their client at once and its    *)
(* key arrives only while they do.                                           *)
THEOREM ServicesAccepted == SysSpec => []SentIsAccepted
<1>1. SysInit => SysSentInv
  BY SysInitInv, SentInit DEF SysInit, SysSentInv, Services
<1>2. SysSentInv => SentIsAccepted
  BY DEF SysSentInv, SentInv
<1> QED BY <1>1, <1>2, SysSentStep, PTL DEF SysSpec

LEMMA SysLockStep == SysInv /\ LockInv /\ [SysNext]_sysVars => LockInv'
<1> SUFFICES ASSUME SysInv, LockInv, [SysNext]_sysVars PROVE LockInv'
  OBVIOUS
<1>1. CASE Connect \/ Manager \/ UNCHANGED sysVars
  <2>1. /\ UNCHANGED <<refreshToken, issued, live, presented, reply, dropped>>
        /\ \A c \in Callers : stage'[c] = "refresh" <=> stage[c] = "refresh"
    BY <1>1, ManagerLeaves DEF tokens, server
  <2>2. TypeOK'
    BY SysStep DEF SysInv, SysTypeOK
  <2> QED BY <2>1, <2>2, LockSame
<1> QED BY <1>1, ClientSteps, LockStep

(* The services of a server do not lock each other out of their client.      *)
THEOREM ServicesNotLockedOut == SysSpec => []NeverLockedOut
<1>1. SysInit => SysInv /\ LockInv
  BY SysInitInv, LockInit DEF SysInit
<1>2. LockInv => NeverLockedOut
  BY DEF LockInv, HeldOrComing, NeverLockedOut, Exchanges
<1> QED BY <1>1, <1>2, SysStep, SysLockStep, PTL DEF SysSpec

\* What connect() does to the request of a caller: it starts it, or ends its own.
LEMMA SysGoesOn ==
  ASSUME SysInv, AdvanceInv, [SysNext]_sysVars
  PROVE  /\ AdvanceInv'
         /\ \A c \in Callers : \/ stage[c] \in Idle
                               \/ UNCHANGED <<stage[c], pass[c], reply[c]>>
                               \/ Left(c)' < Left(c)
<1>1. CASE Connect \/ Manager \/ UNCHANGED sysVars
  <2>1. UNCHANGED reply /\ TypeOK /\ TypeOK'
    BY <1>1, ManagerLeaves, SysStep DEF SysInv, SysTypeOK
  <2>2. AdvanceInv'
    BY <1>1, <2>1, ManagerLeaves DEF AdvanceInv, Coded
  <2>3. ASSUME NEW c \in Callers, stage[c] = "ready", stage'[c] = "idle", pass'[c] = pass[c]
        PROVE  Left(c)' < Left(c)
    <3>1. pass[c] \in {1, 2} /\ reply'[c] = reply[c]
      BY <2>1 DEF TypeOK
    <3> QED BY <2>3, <3>1 DEF Left, Idle, Failures, Exchanges
  <2>4. \A c \in Callers : \/ stage'[c] = stage[c] /\ pass'[c] = pass[c]
                           \/ stage[c] \in Idle
                           \/ stage[c] = "ready" /\ stage'[c] = "idle" /\ pass'[c] = pass[c]
    BY <1>1, ManagerLeaves DEF Idle
  <2>5. ASSUME NEW c \in Callers
        PROVE  \/ stage[c] \in Idle
               \/ UNCHANGED <<stage[c], pass[c], reply[c]>>
               \/ Left(c)' < Left(c)
    <3>1. reply'[c] = reply[c]
      BY <2>1
    <3>2. CASE stage'[c] = stage[c] /\ pass'[c] = pass[c]
      BY <3>1, <3>2
    <3>3. CASE stage[c] \in Idle
      BY <3>3
    <3>4. CASE stage[c] = "ready" /\ stage'[c] = "idle" /\ pass'[c] = pass[c]
      BY <2>3, <3>4
    <3> QED BY <2>4, <3>2, <3>3, <3>4
  <2> QED BY <2>2, <2>5
<1>2. CASE [Next]_vars
  <2>1. \A c \in Callers : Stays(c) \/ stage[c] \in Idle \/ Left(c)' < Left(c)
    BY <1>2, StepGoes, GoesOn
  <2> QED BY <1>2, <2>1, AdvanceStep DEF Stays
<1> QED BY <1>1, <1>2, ClientSteps

(* No step of connect(), of a service or of the server that is up takes a    *)
(* request back.                                                             *)
THEOREM ServicesNeverBack == SysSpec => RequestsAdvance
<1> DEFINE Ahead == \A c \in Callers : \/ stage[c] \in Idle
                                       \/ UNCHANGED <<stage[c], pass[c], reply[c]>>
                                       \/ Left(c)' < Left(c)
<1>1. SysInit => SysInv /\ AdvanceInv
  BY SysInitInv, AdvanceInit DEF SysInit
<1>2. SysInv /\ AdvanceInv /\ [SysNext]_sysVars => AdvanceInv' /\ [Ahead]_vars
  BY SysGoesOn
<1> QED BY <1>1, <1>2, SysStep, PTL DEF SysSpec, RequestsAdvance
===============================================================================
