-------------------------- MODULE Oauth2ClientProofs --------------------------
(***************************************************************************)
(* What an Oauth2Client guarantees for any number of concurrent requests,  *)
(* any keys, any life of the tokens and any delay of the server.           *)
(***************************************************************************)
EXTENDS Oauth2Client, TLAPS

\* The initial state is well typed.
LEMMA TypeInit == Init => TypeOK
<1> SUFFICES ASSUME Init PROVE TypeOK
  OBVIOUS
<1>1. client \in Clients /\ ownKey \in client.own /\ vaultKey \in client.vault
  BY DEF Init
<1>2. live \subseteq 1..issued /\ issued \in Nat /\ clock \in Nat /\ dropped \in BOOLEAN
  BY DEF Init
<1> QED BY <1>1, <1>2 DEF Init, TypeOK, Idle

\* What the server does to the state the client cannot see.
LEMMA TypeServer ==
  ASSUME TypeOK, NEW c \in Callers, Server(c)
  PROVE  TypeOK'
<1>1. stage[c] \in Exchanges
  BY DEF Server, Waits
<1> DEFINE Served == /\ issued' \in Nat /\ live' \subseteq 1..issued'
                     /\ reply' \in [Callers -> Replies \cup {None}]
                     /\ \A d \in Callers : reply'[d] # None => stage[d] \in Exchanges
                     /\ dropped' \in BOOLEAN
<1> SUFFICES Served
  BY DEF TypeOK, Server, tokens, keys
<1>2. CASE ServerCode(c) \/ ServerRefuse(c)
  <2>1. UNCHANGED <<issued, live, dropped>>
    BY <1>2 DEF ServerCode, ServerRefuse, server
  <2>2. PICK r \in Replies : Answer(c, r)
    BY <1>2 DEF ServerCode, ServerRefuse, Replies
  <2> QED BY <1>1, <2>1, <2>2 DEF Answer, TypeOK
<1>3. ASSUME NEW refresh \in Refreshes(c), ServerGrant(c, refresh) \/ ServerLost(c, refresh)
      PROVE  Served
  <2>1. Issue(c, refresh)
    BY <1>3 DEF ServerGrant, ServerLost
  <2>2. issued' \in Nat /\ live' \subseteq 1..issued'
    <3>1. issued \in Nat /\ live \subseteq 1..issued /\ issued' = issued + 1
      BY <2>1 DEF Issue, TypeOK
    <3>2. live' \subseteq live \cup {issued + 1}
      BY <2>1 DEF Issue
    <3>3. 1..issued \subseteq 1..(issued + 1) /\ issued + 1 \in 1..(issued + 1)
      BY <3>1
    <3> QED BY <3>1, <3>2, <3>3
  <2>3. refresh \in {"jwt", "none", "opaque"}
    BY ClientAssumption DEF Refreshes, ClientAssumption
  <2>4. PICK r \in Replies : Answer(c, r)
    <3>1. CASE ServerGrant(c, refresh)
      <4>1. [id |-> issued + 1, exp |-> clock + Life] \in Issued
        <5>1. issued + 1 \in Nat /\ clock + Life \in Nat /\ clock + Life >= Life
          BY ClientAssumption DEF ClientAssumption, TypeOK
        <5> QED BY <5>1 DEF Issued
      <4> QED BY <2>3, <3>1, <4>1 DEF ServerGrant, Replies
    <3>2. CASE ServerLost(c, refresh)
      BY <3>2 DEF ServerLost, Replies
    <3> QED BY <1>3, <3>1, <3>2
  <2>5. dropped' \in BOOLEAN
    BY <1>3 DEF ServerGrant, ServerLost, Drop, TypeOK
  <2> QED BY <1>1, <2>2, <2>4, <2>5 DEF Answer, TypeOK
<1> QED BY <1>2, <1>3 DEF Server

\* What an accepted reply says its token's expiration is.
LEMMA UntilType ==
  ASSUME TypeOK, NEW c \in Callers, NEW access \in Issued
  PROVE  Until(c, access) \in Nat \cup {None}
<1>1. client.fixed \in Nat \cup {None}
  BY ClientAssumption DEF TypeOK, ClientAssumption, Configurations
<1>2. access.exp \in Nat /\ access.exp - Life \in Nat /\ clock \in Nat
  BY ClientAssumption DEF Issued, ClientAssumption, TypeOK
<1>3. CASE stage[c] = "client" /\ client.fixed # None
  <2>1. client.fixed \in Nat
    BY <1>1, <1>3
  <2>2. access.exp - Life + client.fixed \in Nat /\ clock + client.fixed \in Nat
    BY <1>2, <2>1
  <2> QED BY <1>3, <2>2 DEF Until
<1> QED BY <1>2, <1>3 DEF Until

\* An arriving reply leaves tokens, and a stage, that are well typed.
LEMMA TypeReceive ==
  ASSUME TypeOK, NEW c \in Callers, Receive(c)
  PROVE  TypeOK'
<1> DEFINE Rest == /\ reply' = [reply EXCEPT ![c] = None]
                   /\ presented' = [presented EXCEPT ![c] = None]
                   /\ UNCHANGED <<clock, client, ownKey, vaultKey, issued, live, token, calls>>
                   /\ dropped' \in BOOLEAN
<1>1. Rest
  <2>1. dropped' \in BOOLEAN
    BY DEF Receive, ArrivesRefused, ArrivesCode, ArrivesUnverified, ArrivesTokens, Drop, TypeOK
  <2> QED
    BY <2>1 DEF Receive, ArrivesRefused, ArrivesCode, ArrivesUnverified, ArrivesTokens,
                Arrives, Answer, keys, server
<1>2. ASSUME NEW s \in {"refused", "unverified", "grant"}, To(c, s), UNCHANGED <<tokens, pass>>
      PROVE  TypeOK'
  BY <1>1, <1>2 DEF TypeOK, To, tokens, Exchanges, BetweenAwaits, Idle, Failures
<1>3. CASE ArrivesTokens(c)
  <2>1. reply[c] \in Replies /\ reply[c].kind = "tokens"
    BY <1>3 DEF ArrivesTokens, Arrives, TypeOK
  <2>2. reply[c].access \in Issued
    BY <2>1 DEF Replies
  <2>3. accessToken' \in AccessTokens /\ refreshToken' \in Nat \cup {None}
    <3>1. Until(c, reply[c].access) \in Nat \cup {None}
      BY <2>2, UntilType
    <3>2. reply[c].access.id \in Nat /\ reply[c].access.exp \in Nat
      BY <2>2 DEF Issued
    <3> QED BY <1>3, <3>1, <3>2 DEF ArrivesTokens, SetRefresh, TypeOK, AccessTokens
  <2>4. /\ stage' \in [Callers -> Exchanges \cup BetweenAwaits \cup Idle]
        /\ \A d \in Callers : d # c => stage'[d] = stage[d]
        /\ pass' \in [Callers -> {1, 2}]
    BY <1>3 DEF ArrivesTokens, Passed, To, TypeOK, BetweenAwaits, Idle, Failures
  <2> QED BY <1>1, <2>3, <2>4 DEF TypeOK
<1> QED BY <1>2, <1>3 DEF Receive, ArrivesRefused, ArrivesCode, ArrivesUnverified

\* Every step keeps the types.
LEMMA TypeStep == TypeOK /\ [Next]_vars => TypeOK'
<1> SUFFICES ASSUME TypeOK, [Next]_vars PROVE TypeOK'
  OBVIOUS
<1> USE DEF keys, tokens, server, To, Exchanges, BetweenAwaits, Idle, Failures
<1>1. CASE Tick
  BY <1>1 DEF Tick, TypeOK
<1>2. CASE SetPublicKey \/ SetVaultKey
  BY <1>2 DEF SetPublicKey, SetVaultKey, TypeOK
<1>3. ASSUME NEW c \in Callers, Request(c) PROVE TypeOK'
  BY <1>3 DEF Request, TypeOK
<1>4. ASSUME NEW c \in Callers, KeepFresh(c) PROVE TypeOK'
  <2>1. CASE KeepFreshFresh(c) \/ KeepFreshUndated(c) \/ KeepFreshRefresh(c)
    BY <2>1 DEF KeepFreshFresh, KeepFreshUndated, KeepFreshRefresh, Passed, TypeOK
  <2>2. CASE KeepFreshAuthenticate(c)
    <3>0. client.logins \subseteq {"code", "client"}
      BY ClientAssumption DEF TypeOK, ClientAssumption, Configurations
    <3>1. PICK login \in Exchanges : stage' = [stage EXCEPT ![c] = login]
      BY <2>2, <3>0 DEF KeepFreshAuthenticate
    <3>2. UNCHANGED <<clock, keys, tokens, server, pass, presented, reply, token, calls, dropped>>
      BY <2>2 DEF KeepFreshAuthenticate
    <3> QED
      BY <3>1, <3>2 DEF TypeOK
  <2> QED
    BY <1>4, <2>1, <2>2 DEF KeepFresh
<1>5. ASSUME NEW c \in Callers, TakeToken(c) \/ Send(c) PROVE TypeOK'
  BY <1>5 DEF TakeToken, Send, TypeOK
<1>6. CASE UNCHANGED vars
  BY <1>6 DEF vars, TypeOK
<1> QED BY <1>1, <1>2, <1>3, <1>4, <1>5, <1>6, TypeServer, TypeReceive DEF Next, Caller

(* Type correctness, with the fact that a reply is on its way only to a    *)
(* caller that is in an exchange.                                          *)
THEOREM TypeCorrect == Spec => []TypeOK
  BY TypeInit, TypeStep, PTL DEF Spec

-------------------------------------------------------------------------------
(* A token in hand, or about to be taken, is accepted now: nothing that    *)
(* moves the clock or the shared token runs between two awaits.  S are the  *)
(* callers that take a token and send it; another may keep it fresh only.    *)

\* What Sound says of the client, and it is never changed.
FixedSound ==
  client.fixed # None => client.fixed + (IF Stamped THEN 0 ELSE MaxDelay) <= Life
Timely == MaxDelay < Life + Tolerance
OneKey == client.fixed = None /\ (client.own = {"none"} \/ client.logins = {"client"})

KeyKnown == ownKey # "none" \/ vaultKey # "none"

\* The second keepFresh of a request always finds a token there.
SecondFinds(S) == /\ \A c \in S : pass[c] = 2 => accessToken # None
                  /\ \A c \in S : stage[c] = "ready" => pass[c] = 2

\* A token with an expiration that is not fixed was verified, and an exchange of the
\* second keepFresh was started because such a token expired.
DatedKeyed(S) ==
  client.fixed = None =>
    /\ accessToken # None /\ accessToken.until # None => KeyKnown
    /\ \A c \in S : pass[c] = 2 /\ stage[c] \in Exchanges => KeyKnown

\* A client without a user only ever runs the exchange that is given its own key.
OnlyClient ==
  client.logins = {"client"} =>
    /\ refreshToken = None
    /\ \A c \in Callers : stage[c] \notin {"refresh", "code", "grant"}
    /\ \A c \in Callers : reply[c] # None => /\ reply[c].kind # "code"
                                             /\ reply[c].kind = "tokens" => reply[c].refresh = "none"

\* No token is on its way for longer than the bound.
InTime == \A c \in Callers : reply[c] # None /\ reply[c].kind = "tokens"
                               => clock <= reply[c].access.exp - Life + MaxDelay

\* What the client takes for the expiration is not later than the token's.
UntilBefore == FixedSound /\ accessToken # None /\ accessToken.until # None
                 => accessToken.until <= accessToken.exp

ReadyAccepted(S) == Sound => \A c \in S : stage[c] = "ready" => Accepts(accessToken)

SentInv(S) == /\ TypeOK /\ SecondFinds(S) /\ DatedKeyed(S) /\ OnlyClient /\ InTime
              /\ UntilBefore /\ ReadyAccepted(S) /\ SentIsAccepted

\* The parts of Sound.
LEMMA SoundParts == Sound => FixedSound /\ (Timely \/ OneKey)
  BY DEF Sound, FixedSound, Timely, OneKey

\* Constants are numbers, and None is none of them.
LEMMA Numbers ==
  /\ Life \in Nat /\ Margin \in Nat /\ Tolerance \in Nat /\ MaxDelay \in Nat
  /\ Margin <= Tolerance /\ None \notin Nat
  /\ \A n \in Nat : n # None
  /\ \A t \in AccessTokens \cup Replies : t # None
  BY ClientAssumption DEF ClientAssumption

\* No request is past its keepFresh at the start.
LEMMA SentInit ==
  ASSUME NEW S, S \subseteq Callers, Init
  PROVE  SentInv(S)
<1>1. TypeOK
  BY TypeInit
<1> QED BY <1>1 DEF Init, SentInv, SecondFinds, DatedKeyed, OnlyClient, InTime, UntilBefore,
                    ReadyAccepted, SentIsAccepted, Exchanges

\* A token that is kept was verified, if there is a key, or is in time.
LEMMA KeptAccepted ==
  ASSUME NEW S, S \subseteq Callers, SentInv(S), NEW c \in Callers, ArrivesTokens(c), Sound,
         pass[c] = 2, c \in S
  PROVE  clock < reply[c].access.exp + Tolerance
<1>1. /\ reply[c] # None /\ reply[c].kind = "tokens" /\ reply[c] \in Replies
      /\ stage[c] \in Exchanges
  BY DEF ArrivesTokens, Arrives, SentInv, TypeOK
<1>2. /\ reply[c].access.exp \in Nat /\ clock \in Nat
      /\ clock <= reply[c].access.exp - Life + MaxDelay
  BY <1>1 DEF Replies, Issued, SentInv, TypeOK, InTime
<1>3. CASE KeyOf(c) # "none"
  BY <1>3 DEF ArrivesTokens, Verifies, Accepts
<1>4. CASE Timely
  BY <1>2, <1>4, Numbers DEF Timely
<1>5. CASE OneKey /\ KeyOf(c) = "none"
  <2>1. KeyKnown
    BY <1>1, <1>5 DEF SentInv, DatedKeyed, OneKey
  <2>2. CASE client.own = {"none"}
    <3>1. ownKey = "none"
      BY <2>2 DEF SentInv, TypeOK
    <3> QED BY <1>5, <2>1, <3>1 DEF KeyKnown, KeyOf
  <2>3. CASE client.logins = {"client"}
    <3>1. stage[c] = "client"
      BY <1>1, <2>3 DEF SentInv, OnlyClient, Exchanges
    <3> QED BY <1>5, <2>1, <3>1 DEF KeyKnown, KeyOf
  <2> QED BY <1>5, <2>2, <2>3 DEF OneKey
<1> QED BY <1>3, <1>4, <1>5, SoundParts

\* A token that is kept is taken to expire before it does.
LEMMA KeptUntil ==
  ASSUME NEW S, S \subseteq Callers, SentInv(S), NEW c \in Callers, ArrivesTokens(c), FixedSound
  PROVE  /\ Until(c, reply[c].access) # None
              => Until(c, reply[c].access) <= reply[c].access.exp
         /\ client.fixed = None /\ Until(c, reply[c].access) # None => KeyKnown
<1> DEFINE access == reply[c].access
<1>1. /\ reply[c] # None /\ reply[c].kind = "tokens" /\ reply[c] \in Replies
  BY DEF ArrivesTokens, Arrives, SentInv, TypeOK
<1>2. /\ access.exp \in Nat /\ clock \in Nat /\ clock <= access.exp - Life + MaxDelay
  BY <1>1 DEF Replies, Issued, SentInv, TypeOK, InTime
<1>3. CASE stage[c] = "client" /\ client.fixed # None
  <2>1. client.fixed \in Nat
    BY <1>3, ClientAssumption DEF SentInv, TypeOK, ClientAssumption, Configurations
  <2>2. CASE Stamped
    <3>1. client.fixed <= Life /\ Until(c, access) = access.exp - Life + client.fixed
      BY <1>3, <2>1, <2>2 DEF FixedSound, Until
    <3> QED BY <1>2, <1>3, <2>1, <3>1, Numbers
  <2>3. CASE ~Stamped
    <3>1. client.fixed + MaxDelay <= Life /\ Until(c, access) = clock + client.fixed
      BY <1>3, <2>3 DEF FixedSound, Until
    <3> QED BY <1>2, <1>3, <2>1, <3>1, Numbers
  <2> QED BY <2>2, <2>3
<1>4. CASE ~(stage[c] = "client" /\ client.fixed # None)
  <2>1. Until(c, access) = IF KeyOf(c) # "none" THEN access.exp ELSE None
    BY <1>4 DEF Until
  <2>2. KeyOf(c) # "none" => KeyKnown
    BY DEF KeyOf, KeyKnown
  <2> QED BY <1>2, <2>1, <2>2
<1> QED BY <1>3, <1>4

\* A reply that lets its caller go on left a token that is accepted.
LEMMA SentReceive ==
  ASSUME NEW S, S \subseteq Callers, SentInv(S), NEW c \in Callers, Receive(c)
  PROVE  SentInv(S)'
<1>1. TypeOK /\ TypeOK'
  BY TypeReceive DEF SentInv
<1>2. /\ \A d \in Callers : stage[d] # "ready" /\ stage[d] # "send"
      /\ clock' = clock /\ token' = token
      /\ client' = client /\ ownKey' = ownKey /\ vaultKey' = vaultKey
      /\ reply' = [reply EXCEPT ![c] = None]
      /\ reply[c] # None /\ stage[c] \in Exchanges
  BY <1>1 DEF Receive, ArrivesRefused, ArrivesCode, ArrivesUnverified, ArrivesTokens, Arrives,
              Answer, Quiet, BetweenAwaits, TypeOK, keys
<1>3. InTime'
  BY <1>1, <1>2 DEF SentInv, InTime, TypeOK
<1>4. \A d \in Callers : reply'[d] # None => reply'[d] = reply[d]
  BY <1>1, <1>2 DEF TypeOK
<1>5. CASE ArrivesRefused(c) \/ ArrivesCode(c) \/ ArrivesUnverified(c)
  <2>1. UNCHANGED <<accessToken, refreshToken, pass>>
    BY <1>5 DEF ArrivesRefused, ArrivesCode, ArrivesUnverified, tokens
  <2>2. /\ \A d \in Callers : d # c => stage'[d] = stage[d]
        /\ stage'[c] \in {"refused", "unverified", "grant"}
        /\ stage'[c] = "grant" => reply[c].kind = "code"
    BY <1>1, <1>5 DEF ArrivesRefused, ArrivesCode, ArrivesUnverified, Arrives, To, TypeOK
  <2>3. SecondFinds(S)'
    BY <1>2, <2>1, <2>2 DEF SentInv, SecondFinds
  <2>4. DatedKeyed(S)'
    BY <1>2, <2>1, <2>2 DEF SentInv, DatedKeyed, KeyKnown, Exchanges
  <2>5. OnlyClient'
    BY <1>2, <1>4, <2>1, <2>2 DEF SentInv, OnlyClient
  <2>6. UntilBefore'
    BY <1>2, <2>1 DEF SentInv, UntilBefore, FixedSound
  <2>7. ReadyAccepted(S)' /\ SentIsAccepted'
    BY <1>2, <2>2 DEF ReadyAccepted, SentIsAccepted
  <2> QED BY <1>1, <1>3, <2>3, <2>4, <2>5, <2>6, <2>7 DEF SentInv
<1>6. CASE ArrivesTokens(c)
  <2>1. /\ accessToken' = [id |-> reply[c].access.id, exp |-> reply[c].access.exp,
                           until |-> Until(c, reply[c].access)]
        /\ accessToken' # None
    <3>1. reply[c] \in Replies /\ reply[c].kind = "tokens"
      BY <1>1, <1>6 DEF ArrivesTokens, Arrives, TypeOK
    <3>2. reply[c].access \in Issued
      BY <3>1 DEF Replies
    <3>3. Until(c, reply[c].access) \in Nat \cup {None}
      BY <1>1, <3>2, UntilType
    <3>4. accessToken' = [id |-> reply[c].access.id, exp |-> reply[c].access.exp,
                          until |-> Until(c, reply[c].access)]
      BY <1>6 DEF ArrivesTokens
    <3>5. accessToken' \in AccessTokens
      BY <3>2, <3>3, <3>4 DEF AccessTokens, Issued
    <3> QED BY <3>4, <3>5, Numbers
  <2>2. /\ \A d \in Callers : d # c => stage'[d] = stage[d] /\ pass'[d] = pass[d]
        /\ stage'[c] \in {"check", "ready", "norefresh"}
        /\ stage'[c] = "ready" => pass[c] = 2 /\ pass'[c] = 2
    BY <1>1, <1>6 DEF ArrivesTokens, Passed, To, TypeOK
  <2>3. SecondFinds(S)'
    BY <1>2, <2>1, <2>2 DEF SentInv, SecondFinds
  <2>4. DatedKeyed(S)'
    <3>1. client.fixed = None => FixedSound
      BY DEF FixedSound
    <3>2. client.fixed = None /\ Until(c, reply[c].access) # None => KeyKnown
      BY <1>6, <3>1, KeptUntil
    <3> QED BY <1>2, <2>1, <2>2, <3>2 DEF SentInv, DatedKeyed, KeyKnown, Exchanges
  <2>5. OnlyClient'
    <3>1. reply[c].kind = "tokens"
      BY <1>6 DEF ArrivesTokens, Arrives
    <3>2. client.logins = {"client"} => refreshToken' = None
      BY <1>2, <1>6, <3>1 DEF ArrivesTokens, SetRefresh, SentInv, OnlyClient
    <3> QED BY <1>2, <1>4, <2>2, <3>2 DEF SentInv, OnlyClient
  <2>6. UntilBefore'
    <3>1. FixedSound' = FixedSound
      BY <1>2 DEF FixedSound
    <3> QED BY <1>6, <2>1, <3>1, KeptUntil DEF UntilBefore
  <2>7. ReadyAccepted(S)' /\ SentIsAccepted'
    <3>1. Sound' = Sound
      BY <1>2 DEF Sound
    <3>2. ASSUME Sound, stage'[c] = "ready", c \in S PROVE clock < reply[c].access.exp + Tolerance
      BY <1>6, <2>2, <3>2, KeptAccepted
    <3> QED BY <1>2, <2>1, <2>2, <3>1, <3>2 DEF ReadyAccepted, SentIsAccepted, Accepts
  <2> QED BY <1>1, <1>3, <2>3, <2>4, <2>5, <2>6, <2>7 DEF SentInv
<1> QED BY <1>5, <1>6 DEF Receive

\* So does a keepFresh that found the shared token fresh.
LEMMA SentKeepFresh ==
  ASSUME NEW S, S \subseteq Callers, SentInv(S), NEW c \in Callers, KeepFresh(c)
  PROVE  SentInv(S)'
<1>1. TypeOK /\ TypeOK'
  BY TypeStep DEF SentInv, Next, Caller
<1>2. /\ UNCHANGED <<clock, client, ownKey, vaultKey, token, reply, accessToken, refreshToken>>
      /\ stage[c] = "check"
      /\ \A d \in Callers : d # c => stage'[d] = stage[d] /\ pass'[d] = pass[d]
  BY <1>1 DEF KeepFresh, KeepFreshFresh, KeepFreshUndated, KeepFreshRefresh,
              KeepFreshAuthenticate, Passed, To, TypeOK, tokens, keys
<1>3. Sound' = Sound /\ InTime' /\ UntilBefore' /\ \A d \in Callers : reply'[d] = reply[d]
  BY <1>2 DEF Sound, SentInv, InTime, UntilBefore, FixedSound
<1>4. CASE KeepFreshFresh(c)
  <2>1. /\ stage'[c] \in {"check", "ready"} /\ pass'[c] = 2
        /\ accessToken # None /\ accessToken \in AccessTokens /\ accessToken.until # None
    BY <1>1, <1>4 DEF KeepFreshFresh, Passed, To, TypeOK
  <2>2. Sound => Accepts(accessToken)
    <3>1. clock < accessToken.until + Margin
      BY <1>4 DEF KeepFreshFresh, Fresh
    <3>2. clock \in Nat /\ accessToken.exp \in Nat /\ accessToken.until \in Nat
      BY <1>1, <2>1 DEF TypeOK, AccessTokens
    <3>3. Sound => accessToken.until <= accessToken.exp
      BY <2>1, SoundParts DEF SentInv, UntilBefore
    <3> QED BY <3>1, <3>2, <3>3, Numbers DEF Accepts
  <2>3. SecondFinds(S)' /\ DatedKeyed(S)' /\ OnlyClient'
    BY <1>2, <1>3, <2>1 DEF SentInv, SecondFinds, DatedKeyed, OnlyClient, KeyKnown, Exchanges
  <2>4. ReadyAccepted(S)' /\ SentIsAccepted'
    BY <1>2, <1>3, <2>1, <2>2 DEF SentInv, ReadyAccepted, SentIsAccepted, Accepts
  <2> QED BY <1>1, <1>3, <2>3, <2>4 DEF SentInv
<1>5. CASE KeepFreshUndated(c) \/ KeepFreshRefresh(c) \/ KeepFreshAuthenticate(c)
  <2>1. stage'[c] \in Exchanges \cup {"undated"} /\ pass' = pass
    <3>1. client.logins \subseteq {"code", "client"}
      BY <1>1, ClientAssumption DEF TypeOK, ClientAssumption, Configurations
    <3> QED
      BY <1>1, <1>5, <3>1
      DEF KeepFreshUndated, KeepFreshRefresh, KeepFreshAuthenticate, To, TypeOK, Exchanges
  <2>2. stage'[c] \in Exchanges => Stale
    BY <1>1, <1>5
    DEF KeepFreshUndated, KeepFreshRefresh, KeepFreshAuthenticate, To, TypeOK, Exchanges
  <2>3. SecondFinds(S)'
    BY <1>2, <2>1 DEF SentInv, SecondFinds, Exchanges
  <2>4. DatedKeyed(S)'
    <3>1. client.fixed = None /\ stage'[c] \in Exchanges /\ pass[c] = 2 /\ c \in S => KeyKnown
      BY <2>2 DEF SentInv, SecondFinds, DatedKeyed, Stale
    <3> QED BY <1>2, <2>1, <3>1 DEF SentInv, DatedKeyed, KeyKnown
  <2>5. OnlyClient'
    <3>1. client.logins = {"client"} => stage'[c] \in {"undated", "client"}
      BY <1>1, <1>5
      DEF SentInv, OnlyClient, KeepFreshUndated, KeepFreshRefresh, KeepFreshAuthenticate, To, TypeOK
    <3> QED BY <1>2, <1>3, <3>1 DEF SentInv, OnlyClient
  <2>6. ReadyAccepted(S)' /\ SentIsAccepted'
    BY <1>2, <1>3, <2>1 DEF SentInv, ReadyAccepted, SentIsAccepted, Accepts, Exchanges
  <2> QED BY <1>1, <1>3, <2>3, <2>4, <2>5, <2>6 DEF SentInv
<1> QED BY <1>4, <1>5 DEF KeepFresh

\* The server's answer comes later, and is for the exchange that asked.
LEMMA SentServer ==
  ASSUME NEW S, S \subseteq Callers, SentInv(S), NEW c \in Callers, Server(c)
  PROVE  SentInv(S)'
<1>1. TypeOK /\ TypeOK'
  BY TypeServer DEF SentInv
<1>2. /\ UNCHANGED <<clock, client, ownKey, vaultKey, accessToken, refreshToken, stage, pass, token>>
      /\ stage[c] \in Exchanges
  BY DEF Server, Waits, tokens, keys
<1>3. PICK r \in Replies :
        /\ reply' = [reply EXCEPT ![c] = r]
        /\ r.kind = "tokens" => r.access.exp = clock + Life /\ r.refresh \in Refreshes(c)
        /\ r.kind = "code" => stage[c] = "code"
  <2>1. CASE ServerCode(c)
    <3>1. [kind |-> "code"] \in Replies
      BY DEF Replies
    <3> QED BY <2>1, <3>1 DEF ServerCode, Answer
  <2>2. CASE ServerRefuse(c)
    <3>1. [kind |-> "refused"] \in Replies
      BY DEF Replies
    <3> QED BY <2>2, <3>1 DEF ServerRefuse, Answer
  <2>3. ASSUME NEW refresh \in Refreshes(c), ServerLost(c, refresh)
        PROVE  reply' = [reply EXCEPT ![c] = [kind |-> "refused"]]
    BY <2>3 DEF ServerLost, Answer
  <2>4. ASSUME NEW refresh \in Refreshes(c), ServerGrant(c, refresh)
        PROVE  \E r \in Replies :
                 /\ reply' = [reply EXCEPT ![c] = r]
                 /\ r.kind = "tokens" => r.access.exp = clock + Life /\ r.refresh \in Refreshes(c)
                 /\ r.kind = "code" => stage[c] = "code"
    <3> DEFINE access == [id |-> issued + 1, exp |-> clock + Life]
               r == [kind |-> "tokens", refresh |-> refresh, access |-> access]
    <3>1. access \in Issued
      <4>1. issued + 1 \in Nat /\ clock + Life \in Nat /\ clock + Life >= Life
        BY <1>1, Numbers DEF TypeOK
      <4> QED BY <4>1 DEF Issued
    <3>2. refresh \in {"jwt", "none", "opaque"}
      BY ClientAssumption DEF Refreshes, ClientAssumption
    <3>3. r \in Replies
      BY <3>1, <3>2 DEF Replies
    <3>4. reply' = [reply EXCEPT ![c] = r]
      BY <2>4 DEF ServerGrant, Answer
    <3> QED BY <3>3, <3>4
  <2>5. [kind |-> "refused"] \in Replies
    BY DEF Replies
  <2> QED BY <2>1, <2>2, <2>3, <2>4, <2>5 DEF Server
<1>4. InTime'
  BY <1>1, <1>2, <1>3, Numbers DEF SentInv, InTime, TypeOK
<1>5. OnlyClient'
  <2>1. client.logins = {"client"} => stage[c] = "client"
    BY <1>2 DEF SentInv, OnlyClient, Exchanges
  <2> QED BY <1>1, <1>2, <1>3, <2>1 DEF SentInv, OnlyClient, Refreshes, TypeOK
<1> QED BY <1>1, <1>2, <1>4, <1>5
    DEF SentInv, SecondFinds, DatedKeyed, KeyKnown, UntilBefore, FixedSound, ReadyAccepted,
        SentIsAccepted, Sound, Accepts

\* Every step keeps the invariant.
LEMMA SentStep ==
  ASSUME NEW S, S \subseteq Callers, SentInv(S), [Next]_vars,
         \A c \in Callers \ S : stage'[c] = "send" => stage[c] = "send"
  PROVE  SentInv(S)'
<1>1. TypeOK /\ TypeOK'
  BY TypeStep DEF SentInv
<1> USE DEF SentInv, SecondFinds, DatedKeyed, OnlyClient, KeyKnown, UntilBefore, FixedSound,
            ReadyAccepted, SentIsAccepted, Sound, Accepts, Exchanges
<1>2. CASE Tick
  <2>1. InTime'
    <3> SUFFICES ASSUME NEW c \in Callers, reply[c] # None, reply[c].kind = "tokens"
                 PROVE  clock + 1 <= reply[c].access.exp - Life + MaxDelay
      BY <1>2 DEF Tick, InTime
    <3>1. ~(clock >= reply[c].access.exp - Life + MaxDelay)
      BY <1>2 DEF Tick, Due
    <3>2. reply[c].access.exp \in Nat /\ clock \in Nat
      BY <1>1 DEF TypeOK, Replies, Issued
    <3> QED BY <3>1, <3>2, Numbers
  <2>2. UNCHANGED <<client, ownKey, vaultKey, accessToken, refreshToken, stage, pass, reply, token>>
        /\ \A c \in Callers : stage[c] \notin BetweenAwaits
    BY <1>2 DEF Tick, tokens, keys, Quiet
  <2> QED BY <1>1, <2>1, <2>2 DEF BetweenAwaits
<1>3. CASE SetPublicKey \/ SetVaultKey
  <2>1. /\ UNCHANGED <<clock, client, accessToken, refreshToken, stage, pass, reply, token>>
        /\ KeyKnown'
    BY <1>3 DEF SetPublicKey, SetVaultKey, tokens
  <2> QED BY <1>1, <2>1 DEF InTime
<1>4. ASSUME NEW c \in Callers, Request(c) PROVE SentInv(S)'
  <2>1. UNCHANGED <<clock, client, ownKey, vaultKey, accessToken, refreshToken, reply>>
    BY <1>4 DEF Request, tokens, keys
  <2>2. /\ \A d \in Callers : d # c => stage'[d] = stage[d] /\ pass'[d] = pass[d]
                                         /\ token'[d] = token[d]
        /\ stage'[c] = "check" /\ pass'[c] = 1
    BY <1>1, <1>4 DEF Request, To, TypeOK
  <2> QED BY <1>1, <2>1, <2>2 DEF InTime
<1>5. ASSUME NEW c \in Callers, TakeToken(c) PROVE SentInv(S)'
  <2>1. UNCHANGED <<clock, client, ownKey, vaultKey, accessToken, refreshToken, reply, pass>>
    BY <1>5 DEF TakeToken, tokens, keys
  <2>2. /\ \A d \in Callers : d # c => stage'[d] = stage[d] /\ token'[d] = token[d]
        /\ stage[c] = "ready" /\ stage'[c] = "send" /\ token'[c] = accessToken
        /\ c \in S
    BY <1>1, <1>5 DEF TakeToken, To, TypeOK
  <2> QED BY <1>1, <2>1, <2>2 DEF InTime
<1>6. ASSUME NEW c \in Callers, Send(c) PROVE SentInv(S)'
  <2>1. UNCHANGED <<clock, client, ownKey, vaultKey, accessToken, refreshToken, reply, pass, token>>
    BY <1>6 DEF Send, tokens, keys
  <2>2. (\A d \in Callers : d # c => stage'[d] = stage[d]) /\ stage'[c] = "sent"
    BY <1>1, <1>6 DEF Send, To, TypeOK
  <2> QED BY <1>1, <2>1, <2>2 DEF InTime
<1>7. CASE UNCHANGED vars
  BY <1>1, <1>7 DEF vars, tokens, keys, InTime
<1> QED BY <1>2, <1>3, <1>4, <1>5, <1>6, <1>7, SentReceive, SentKeepFresh, SentServer
    DEF Next, Caller

(* Whatever the interleaving, the keys, the delays and the life of the     *)
(* tokens, no request of a client that is soundly made leaves without a    *)
(* token that a verifier with the same tolerance accepts at that moment,   *)
(* as long as the margin does not exceed it.                               *)
THEOREM SentAccepted == Spec => []SentIsAccepted
<1> DEFINE Inv == SentInv(Callers)
<1>1. Init => Inv
  BY SentInit
<1>2. Inv /\ [Next]_vars => Inv'
  BY SentStep
<1>3. Inv => SentIsAccepted
  BY DEF SentInv
<1> HIDE DEF Inv
<1> QED BY <1>1, <1>2, <1>3, PTL DEF Spec

-------------------------------------------------------------------------------
(* A refresh token that the client holds and the server no longer takes    *)
(* was spent by an exchange whose reply is still on its way.               *)

Coming(c) == reply[c] # None /\ reply[c].kind = "tokens"

\* Only a refresh presents a token; all tokens were issued by the server.
Presented ==
  /\ \A c \in Callers : stage[c] # "refresh" => presented[c] = None
  /\ refreshToken # None => refreshToken <= issued
  /\ \A c \in Callers : presented[c] # None => presented[c] <= issued

\* Tokens on their way are new to the client, and nobody spends them.
News ==
  \A c \in Callers : Coming(c) =>
    /\ reply[c].access.id <= issued
    /\ reply[c].refresh = "jwt" => reply[c].access.id \in live
    /\ reply[c].access.id # refreshToken
    /\ \A d \in Callers : presented[d] # reply[c].access.id
    /\ \A d \in Callers \ {c} : Coming(d) => reply[d].access.id # reply[c].access.id

HeldOrComing ==
  ~dropped => \/ refreshToken \in live \cup {None}
              \/ \E c \in Callers : stage[c] = "refresh" /\ Coming(c)

LockInv == TypeOK /\ Presented /\ News /\ HeldOrComing

LEMMA LockInit == Init => LockInv
  BY TypeInit DEF Init, LockInv, Presented, News, HeldOrComing, Coming

\* What the reply to c is when it is tokens.
LEMMA ComingType ==
  ASSUME TypeOK, NEW c \in Callers, Coming(c)
  PROVE  /\ reply[c].access.id \in Nat
         /\ reply[c].refresh \in {"jwt", "none", "opaque"}
         /\ stage[c] \in Exchanges
<1>1. reply[c] \in Replies /\ reply[c].kind = "tokens"
  BY DEF TypeOK, Coming
<1> QED BY <1>1 DEF TypeOK, Coming, Replies, Issued

\* The server spends only what is presented, and issues what is new.
LEMMA LockServer ==
  ASSUME LockInv, NEW c \in Callers, Server(c)
  PROVE  LockInv'
<1>1. TypeOK /\ TypeOK'
  BY TypeServer DEF LockInv
<1>2. /\ UNCHANGED <<accessToken, refreshToken, stage, pass, presented>>
      /\ stage[c] \in Exchanges /\ reply[c] = None
  BY DEF Server, Waits, tokens
<1>3. CASE ServerCode(c) \/ ServerRefuse(c)
  <2>1. /\ UNCHANGED <<issued, live, dropped>>
        /\ \A d \in Callers : Coming(d)' => d # c /\ Coming(d) /\ reply'[d] = reply[d]
        /\ \A d \in Callers : Coming(d) => Coming(d)'
    BY <1>1, <1>2, <1>3 DEF ServerCode, ServerRefuse, Answer, server, Coming, TypeOK
  <2> QED BY <1>1, <1>2, <2>1 DEF LockInv, Presented, News, HeldOrComing
<1>4. ASSUME NEW refresh \in Refreshes(c), ServerGrant(c, refresh) \/ ServerLost(c, refresh)
      PROVE  LockInv'
  <2>1. /\ issued' = issued + 1 /\ issued \in Nat
        /\ live \ {presented[c]} \subseteq live'
        /\ refresh = "jwt" => issued + 1 \in live'
        /\ presented[c] # None => stage[c] = "refresh"
    BY <1>1, <1>4 DEF ServerGrant, ServerLost, Issue, LockInv, Presented, TypeOK
  <2>2. Presented'
    <3>1. /\ refreshToken # None => refreshToken \in Nat
          /\ \A d \in Callers : presented[d] # None => presented[d] \in Nat
      BY <1>1 DEF TypeOK
    <3> QED BY <1>2, <2>1, <3>1 DEF LockInv, Presented
  <2>3. \A d \in Callers : Coming(d) => d # c /\ reply'[d] = reply[d] /\ Coming(d)'
    BY <1>1, <1>2, <1>4 DEF ServerGrant, ServerLost, Answer, Coming, TypeOK
  <2>4. \A d \in Callers \ {c} : Coming(d)' => Coming(d) /\ reply'[d] = reply[d]
    BY <1>1, <1>4 DEF ServerGrant, ServerLost, Answer, Coming, TypeOK
  <2>5. Coming(c)' => ServerGrant(c, refresh) /\ reply'[c].access.id = issued + 1
                       /\ reply'[c].refresh = refresh
    BY <1>1, <1>4 DEF ServerGrant, ServerLost, Answer, Coming, TypeOK
  <2>6. News'
    <3> SUFFICES ASSUME NEW d \in Callers, Coming(d)'
                 PROVE  /\ reply'[d].access.id <= issued'
                        /\ reply'[d].refresh = "jwt" => reply'[d].access.id \in live'
                        /\ reply'[d].access.id # refreshToken
                        /\ \A e \in Callers : presented[e] # reply'[d].access.id
                        /\ \A e \in Callers \ {d} :
                             Coming(e)' => reply'[e].access.id # reply'[d].access.id
      BY <1>2 DEF News
    <3>1. \A e \in Callers : Coming(e) => reply[e].access.id \in Nat /\ reply[e].access.id <= issued
      BY <1>1, ComingType DEF LockInv, News
    <3>2. CASE d # c
      <4>1. Coming(d) /\ reply'[d] = reply[d]
        BY <2>4, <3>2
      <4>2. /\ reply[d].access.id <= issued'
            /\ reply[d].access.id # issued + 1
        BY <2>1, <3>1, <4>1
      <4>3. reply[d].refresh = "jwt" => reply[d].access.id \in live'
        BY <2>1, <4>1 DEF LockInv, News
      <4>4. \A e \in Callers \ {d} : Coming(e)' => reply'[e].access.id # reply[d].access.id
        BY <2>4, <2>5, <4>1, <4>2 DEF LockInv, News
      <4> QED BY <4>1, <4>2, <4>3, <4>4 DEF LockInv, News
    <3>3. CASE d = c
      <4>1. reply'[c].access.id = issued + 1 /\ reply'[c].refresh = refresh
        BY <2>5, <3>3
      <4>2. /\ issued + 1 # refreshToken
            /\ \A e \in Callers : presented[e] # issued + 1
        <5>1. /\ refreshToken # None => refreshToken \in Nat
              /\ \A e \in Callers : presented[e] # None => presented[e] \in Nat
              /\ None # issued + 1
          BY <1>1, <2>1, Numbers DEF TypeOK
        <5> QED BY <2>1, <5>1 DEF LockInv, Presented
      <4>3. \A e \in Callers \ {c} : Coming(e)' => reply'[e].access.id # issued + 1
        BY <2>1, <2>4, <3>1
      <4> QED BY <2>1, <3>3, <4>1, <4>2, <4>3
    <3> QED BY <3>2, <3>3
  <2>7. HeldOrComing'
    <3>1. CASE ServerLost(c, refresh)
      <4>1. CASE stage[c] = "refresh"
        BY <3>1, <4>1 DEF ServerLost, Drop, HeldOrComing
      <4>2. CASE stage[c] # "refresh"
        <5>1. presented[c] = None /\ dropped' = dropped
          BY <1>1, <2>1, <3>1, <4>2 DEF ServerLost, Drop, TypeOK
        <5> QED BY <1>2, <2>1, <2>3, <5>1 DEF LockInv, HeldOrComing
      <4> QED BY <4>1, <4>2
    <3>2. CASE ServerGrant(c, refresh)
      <4>1. Coming(c)' /\ dropped' = dropped
        <5> DEFINE access == [id |-> issued + 1, exp |-> clock + Life]
                   r == [kind |-> "tokens", refresh |-> refresh, access |-> access]
        <5>1. access \in Issued
          <6>1. clock + Life \in Nat /\ clock + Life >= Life /\ issued + 1 \in Nat
            BY <1>1, Numbers DEF TypeOK
          <6> QED BY <6>1 DEF Issued
        <5>2. refresh \in {"jwt", "none", "opaque"}
          BY ClientAssumption DEF Refreshes, ClientAssumption
        <5>3. r \in Replies
          BY <5>1, <5>2 DEF Replies
        <5>4. reply'[c] = r /\ dropped' = dropped
          BY <1>1, <3>2 DEF ServerGrant, Answer, TypeOK
        <5> QED BY <5>3, <5>4, Numbers DEF Coming
      <4>2. CASE stage[c] = "refresh"
        BY <1>2, <4>1, <4>2 DEF HeldOrComing
      <4>3. CASE stage[c] # "refresh"
        <5>1. presented[c] = None
          BY <2>1, <4>3
        <5> QED BY <1>2, <2>1, <2>3, <4>1, <5>1 DEF LockInv, HeldOrComing
      <4> QED BY <4>2, <4>3
    <3> QED BY <1>4, <3>1, <3>2
  <2> QED BY <1>1, <2>2, <2>6, <2>7 DEF LockInv
<1> QED BY <1>3, <1>4 DEF Server

\* A reply that arrives leaves a token that is taken, or is dropped.
LEMMA LockReceive ==
  ASSUME LockInv, NEW c \in Callers, Receive(c)
  PROVE  LockInv'
<1>1. TypeOK /\ TypeOK'
  BY TypeReceive DEF LockInv
<1>2. /\ UNCHANGED <<issued, live>>
      /\ reply' = [reply EXCEPT ![c] = None]
      /\ presented' = [presented EXCEPT ![c] = None]
      /\ \A d \in Callers : d # c => stage'[d] = stage[d]
      /\ dropped => dropped'
  BY <1>1 DEF Receive, ArrivesRefused, ArrivesCode, ArrivesUnverified, ArrivesTokens, Arrives,
              Answer, server, To, Passed, Drop, TypeOK
<1>3. /\ stage'[c] # "refresh" /\ ~Coming(c)'
      /\ \A d \in Callers \ {c} : /\ Coming(d)' <=> Coming(d)
                                  /\ reply'[d] = reply[d] /\ presented'[d] = presented[d]
  BY <1>1, <1>2 DEF Receive, ArrivesRefused, ArrivesCode, ArrivesUnverified, ArrivesTokens,
                    To, Passed, Coming, TypeOK
<1>4. presented'[c] = None
  BY <1>1, <1>2 DEF TypeOK
<1>5. \A d \in Callers : Coming(d) => reply[d].access.id \in Nat
  BY <1>1, ComingType
<1>6. CASE UNCHANGED refreshToken
  <2>1. Presented'
    BY <1>2, <1>3, <1>4, <1>6 DEF LockInv, Presented
  <2>2. News'
    BY <1>2, <1>3, <1>4, <1>5, <1>6, Numbers DEF LockInv, News
  <2>3. HeldOrComing'
    <3>1. stage[c] = "refresh" /\ Coming(c) => dropped'
      BY <1>1, <1>6 DEF Receive, ArrivesRefused, ArrivesCode, ArrivesUnverified, ArrivesTokens,
                        Arrives, Drop, Coming, UsableRefresh, SetRefresh, LockInv, News
    <3> QED BY <1>2, <1>3, <1>6, <3>1 DEF LockInv, HeldOrComing
  <2> QED BY <1>1, <2>1, <2>2, <2>3 DEF LockInv
<1>7. CASE ~UNCHANGED refreshToken
  <2>1. ArrivesTokens(c) /\ Coming(c) /\ reply[c].refresh = "jwt" /\ refreshToken' = reply[c].access.id
    BY <1>1, <1>7 DEF Receive, ArrivesRefused, ArrivesCode, ArrivesUnverified, ArrivesTokens,
                      Arrives, SetRefresh, tokens, Coming
  <2>2. refreshToken' \in live' /\ refreshToken' <= issued
    BY <1>2, <2>1 DEF LockInv, News
  <2>3. Presented'
    BY <1>2, <1>3, <1>4, <2>2 DEF LockInv, Presented
  <2>4. News'
    BY <1>2, <1>3, <1>4, <1>5, <2>1, Numbers DEF LockInv, News
  <2>5. HeldOrComing'
    BY <2>2 DEF HeldOrComing
  <2> QED BY <1>1, <2>3, <2>4, <2>5 DEF LockInv
<1> QED BY <1>6, <1>7

\* What is no exchange disturbs neither the server nor what is on its way.
LEMMA LockSame ==
  ASSUME LockInv, TypeOK', UNCHANGED <<refreshToken, issued, live, presented, reply, dropped>>,
         \A c \in Callers : stage'[c] = "refresh" <=> stage[c] = "refresh"
  PROVE  LockInv'
  BY DEF LockInv, Presented, News, HeldOrComing, Coming

\* Every step keeps the invariant.
LEMMA LockStep == LockInv /\ [Next]_vars => LockInv'
<1> SUFFICES ASSUME LockInv, [Next]_vars PROVE LockInv'
  OBVIOUS
<1>1. TypeOK /\ TypeOK'
  BY TypeStep DEF LockInv
<1> DEFINE Same == UNCHANGED <<refreshToken, issued, live, presented, reply, dropped>>
<1>2. ASSUME Same, \A c \in Callers : stage'[c] = "refresh" <=> stage[c] = "refresh"
      PROVE  LockInv'
  BY <1>1, <1>2, LockSame
<1>3. CASE Tick \/ SetPublicKey \/ SetVaultKey \/ UNCHANGED vars
  <2>1. Same /\ UNCHANGED stage
    BY <1>3 DEF Tick, SetPublicKey, SetVaultKey, vars, tokens, server
  <2> QED BY <1>2, <2>1
<1>4. ASSUME NEW c \in Callers, Request(c) \/ TakeToken(c) \/ Send(c) PROVE LockInv'
  <2>1. Same /\ \A d \in Callers : stage'[d] = "refresh" <=> stage[d] = "refresh"
    BY <1>1, <1>4 DEF Request, TakeToken, Send, To, Idle, Failures, TypeOK, tokens, server
  <2> QED BY <1>2, <2>1
<1>5. ASSUME NEW c \in Callers, KeepFresh(c) PROVE LockInv'
  <2>1. CASE KeepFreshFresh(c) \/ KeepFreshUndated(c)
    <3>1. Same /\ \A d \in Callers : stage'[d] = "refresh" <=> stage[d] = "refresh"
      BY <1>1, <2>1 DEF KeepFreshFresh, KeepFreshUndated, Passed, To, TypeOK, tokens, server
    <3> QED BY <1>2, <3>1
  <2>2. CASE KeepFreshAuthenticate(c)
    <3>1. client.logins \subseteq {"code", "client"}
      BY <1>1, ClientAssumption DEF TypeOK, ClientAssumption, Configurations
    <3>2. Same /\ \A d \in Callers : stage'[d] = "refresh" <=> stage[d] = "refresh"
      BY <1>1, <2>2, <3>1 DEF KeepFreshAuthenticate, To, TypeOK, tokens, server
    <3> QED BY <1>2, <3>2
  <2>3. CASE KeepFreshRefresh(c)
    <3>1. /\ UNCHANGED <<refreshToken, issued, live, reply, dropped>>
          /\ stage'[c] = "refresh" /\ stage[c] = "check"
          /\ presented'[c] = refreshToken /\ refreshToken # None
          /\ \A d \in Callers \ {c} : stage'[d] = stage[d] /\ presented'[d] = presented[d]
      BY <1>1, <2>3 DEF KeepFreshRefresh, To, TypeOK, tokens, server
    <3>2. Presented'
      BY <3>1 DEF LockInv, Presented
    <3>3. News'
      <4>1. \A d \in Callers : Coming(d)' <=> Coming(d)
        BY <3>1 DEF Coming
      <4>2. \A d \in Callers : presented'[d] \in {presented[d], refreshToken}
        BY <3>1
      <4> QED BY <3>1, <4>1, <4>2 DEF LockInv, News
    <3>4. HeldOrComing'
      BY <3>1 DEF LockInv, HeldOrComing, Coming
    <3> QED BY <1>1, <3>2, <3>3, <3>4 DEF LockInv
  <2> QED BY <1>5, <2>1, <2>2, <2>3 DEF KeepFresh
<1> QED BY <1>3, <1>4, <1>5, LockReceive, LockServer DEF Next, Caller

(* However many requests share the client, and whatever the server bestows, *)
(* takes once or refuses: unless a refresh was granted for nothing, the     *)
(* refresh token that is left when no exchange is under way is taken.       *)
THEOREM NotLockedOut == Spec => []NeverLockedOut
<1>1. LockInv => NeverLockedOut
  BY DEF LockInv, HeldOrComing, NeverLockedOut, Exchanges
<1> QED BY LockInit, LockStep, <1>1, PTL DEF Spec

-------------------------------------------------------------------------------
(* A request never goes back.                                              *)

\* Only authenticateUser's first exchange is answered with a code.
Coded == \A c \in Callers : reply[c] # None /\ reply[c].kind = "code" => stage[c] = "code"

AdvanceInv == TypeOK /\ Coded

LEMMA AdvanceInit == Init => AdvanceInv
  BY TypeInit DEF Init, AdvanceInv, Coded

\* A caller stays where it is.
Stays(c) == UNCHANGED <<stage[c], pass[c], reply[c]>>

\* What one step does to the request of its caller.
HasAnswer(c) == /\ reply[c] = None /\ reply'[c] # None /\ stage[c] \in Exchanges
                /\ UNCHANGED <<stage[c], pass[c]>>
                /\ reply'[c].kind = "code" => stage[c] = "code"
Fails(c) == stage'[c] \in Failures /\ reply'[c] = None /\ pass'[c] = pass[c]
Passes(c) == /\ stage'[c] = (IF pass[c] = 1 THEN "check" ELSE "ready")
             /\ pass'[c] = 2 /\ reply'[c] = None
             /\ stage[c] = "check" \/ reply[c] # None
Asks(c) == /\ stage[c] = "check" /\ stage'[c] \in Exchanges
           /\ reply'[c] = None /\ pass'[c] = pass[c]
Grants(c) == /\ stage[c] = "code" /\ stage'[c] = "grant"
             /\ reply[c] # None /\ reply'[c] = None /\ pass'[c] = pass[c]
Leaves(c) == /\ \/ stage[c] = "ready" /\ stage'[c] = "send"
                \/ stage[c] = "send" /\ stage'[c] = "sent"
             /\ UNCHANGED <<reply[c], pass[c]>>
Starts(c) == stage[c] \in Idle /\ stage'[c] = "check" /\ UNCHANGED reply[c]

Goes(c) == \/ HasAnswer(c) \/ Fails(c) \/ Passes(c) \/ Asks(c)
           \/ Grants(c) \/ Leaves(c) \/ Starts(c)

LEMMA StepGoes ==
  ASSUME AdvanceInv, [Next]_vars, NEW c \in Callers
  PROVE  Stays(c) \/ Goes(c)
<1>1. TypeOK /\ Coded
  BY DEF AdvanceInv
<1>2. CASE Tick \/ SetPublicKey \/ SetVaultKey \/ UNCHANGED vars
  BY <1>2 DEF Tick, SetPublicKey, SetVaultKey, vars, Stays
<1>3. ASSUME NEW d \in Callers, Caller(d), d # c PROVE Stays(c)
  BY <1>1, <1>3 DEF Caller, Request, KeepFresh, KeepFreshFresh, KeepFreshUndated, KeepFreshRefresh,
       KeepFreshAuthenticate, Server, ServerCode, ServerGrant, ServerRefuse, ServerLost, Receive,
       ArrivesRefused, ArrivesCode, ArrivesUnverified, ArrivesTokens, Arrives, Answer, TakeToken,
       Send, Passed, To, Stays, TypeOK
<1>4. CASE Request(c)
  BY <1>1, <1>4 DEF Request, To, Goes, Starts, TypeOK
<1>5. CASE KeepFresh(c)
  <2>1. stage[c] = "check" /\ reply[c] = None /\ reply' = reply
    BY <1>1, <1>5 DEF KeepFresh, KeepFreshFresh, KeepFreshUndated, KeepFreshRefresh,
                      KeepFreshAuthenticate, TypeOK, Exchanges
  <2>2. CASE KeepFreshFresh(c)
    BY <1>1, <2>1, <2>2 DEF KeepFreshFresh, Passed, To, Goes, Passes, TypeOK
  <2>3. CASE KeepFreshUndated(c)
    BY <1>1, <2>1, <2>3 DEF KeepFreshUndated, To, Goes, Fails, Failures, TypeOK
  <2>4. CASE KeepFreshRefresh(c)
    BY <1>1, <2>1, <2>4 DEF KeepFreshRefresh, To, Goes, Asks, Exchanges, TypeOK
  <2>5. CASE KeepFreshAuthenticate(c)
    <3>1. client.logins \subseteq {"code", "client"}
      BY <1>1, ClientAssumption DEF TypeOK, ClientAssumption, Configurations
    <3>2. stage'[c] \in Exchanges /\ pass' = pass
      BY <1>1, <2>5, <3>1 DEF KeepFreshAuthenticate, To, Exchanges, TypeOK
    <3> QED BY <2>1, <3>2 DEF Goes, Asks
  <2> QED BY <1>5, <2>2, <2>3, <2>4, <2>5 DEF KeepFresh
<1>6. CASE Server(c)
  <2>1. reply[c] = None /\ stage[c] \in Exchanges /\ UNCHANGED <<stage, pass>>
    BY <1>6 DEF Server, Waits
  <2>2. reply'[c] # None /\ (reply'[c].kind = "code" => stage[c] = "code")
    <3>1. CASE ServerCode(c) \/ ServerRefuse(c)
      <4>1. [kind |-> "code"] # None /\ [kind |-> "refused"] # None
        BY ClientAssumption DEF ClientAssumption, Replies
      <4> QED BY <1>1, <3>1, <4>1 DEF ServerCode, ServerRefuse, Answer, TypeOK
    <3>2. ASSUME NEW refresh \in Refreshes(c), ServerGrant(c, refresh) PROVE reply'[c] # None /\ (reply'[c].kind = "code" => stage[c] = "code")
      <4>1. issued + 1 \in Nat /\ clock + Life \in Nat /\ clock + Life >= Life
        BY <1>1, Numbers DEF TypeOK
      <4>2. refresh \in {"jwt", "none", "opaque"}
        BY ClientAssumption DEF Refreshes, ClientAssumption
      <4>3. [kind |-> "tokens", refresh |-> refresh,
             access |-> [id |-> issued + 1, exp |-> clock + Life]] \in Replies
        BY <4>1, <4>2 DEF Replies, Issued
      <4>4. reply'[c] = [kind |-> "tokens", refresh |-> refresh,
                         access |-> [id |-> issued + 1, exp |-> clock + Life]]
        BY <1>1, <3>2 DEF ServerGrant, Answer, TypeOK
      <4> QED BY <4>3, <4>4, Numbers
    <3>3. ASSUME NEW refresh \in Refreshes(c), ServerLost(c, refresh) PROVE reply'[c] # None /\ (reply'[c].kind = "code" => stage[c] = "code")
      <4>1. [kind |-> "refused"] # None
        BY ClientAssumption DEF ClientAssumption, Replies
      <4> QED BY <1>1, <3>3, <4>1 DEF ServerLost, Answer, TypeOK
    <3> QED BY <1>6, <3>1, <3>2, <3>3 DEF Server
  <2> QED BY <2>1, <2>2 DEF Goes, HasAnswer
<1>7. CASE Receive(c)
  <2>1. reply[c] # None /\ reply'[c] = None
    BY <1>1, <1>7 DEF Receive, ArrivesRefused, ArrivesCode, ArrivesUnverified, ArrivesTokens,
                      Arrives, Answer, TypeOK
  <2>2. CASE ArrivesRefused(c) \/ ArrivesUnverified(c)
    BY <1>1, <2>1, <2>2 DEF ArrivesRefused, ArrivesUnverified, To, Goes, Fails, Failures, TypeOK
  <2>3. CASE ArrivesCode(c)
    BY <1>1, <2>1, <2>3 DEF ArrivesCode, Arrives, Coded, To, Goes, Grants, TypeOK
  <2>4. CASE ArrivesTokens(c)
    BY <1>1, <2>1, <2>4 DEF ArrivesTokens, Passed, To, Goes, Passes, Fails, Failures, TypeOK
  <2> QED BY <1>7, <2>2, <2>3, <2>4 DEF Receive
<1>8. CASE TakeToken(c) \/ Send(c)
  BY <1>1, <1>8 DEF TakeToken, Send, To, Goes, Leaves, TypeOK
<1> QED
  BY <1>2, <1>3, <1>4, <1>5, <1>6, <1>7, <1>8 DEF Next, Caller

\* A request that goes on has fewer steps before it than it had.
LEMMA GoesOn ==
  ASSUME AdvanceInv, NEW c \in Callers, Goes(c), stage[c] \notin Idle
  PROVE  Left(c)' < Left(c)
<1> USE DEF Left, Idle, Failures, Exchanges
<1>1. /\ stage[c] \in Exchanges \cup BetweenAwaits /\ pass[c] \in {1, 2}
      /\ reply[c] # None => stage[c] \in Exchanges
  BY DEF AdvanceInv, TypeOK
<1>2. CASE HasAnswer(c)
  BY <1>1, <1>2 DEF HasAnswer
<1>3. CASE Fails(c)
  BY <1>1, <1>3 DEF Fails, BetweenAwaits
<1>4. CASE Passes(c)
  BY <1>1, <1>4 DEF Passes
<1>5. CASE Asks(c)
  BY <1>1, <1>5 DEF Asks
<1>6. CASE Grants(c)
  BY <1>1, <1>6 DEF Grants
<1>7. CASE Leaves(c)
  BY <1>1, <1>7 DEF Leaves
<1> QED
  BY <1>2, <1>3, <1>4, <1>5, <1>6, <1>7 DEF Goes, Starts

LEMMA AdvanceStep == AdvanceInv /\ [Next]_vars => AdvanceInv'
<1> SUFFICES ASSUME AdvanceInv, [Next]_vars PROVE AdvanceInv'
  OBVIOUS
<1>1. TypeOK'
  BY TypeStep DEF AdvanceInv
<1>2. ASSUME NEW c \in Callers, reply'[c] # None, reply'[c].kind = "code"
      PROVE  stage'[c] = "code"
  <2>1. CASE Stays(c)
    BY <1>2, <2>1 DEF Stays, AdvanceInv, Coded
  <2>2. CASE HasAnswer(c)
    BY <1>2, <2>2 DEF HasAnswer
  <2>3. ~Leaves(c) /\ ~Starts(c)
    BY <1>2 DEF Leaves, Starts, AdvanceInv, TypeOK, Exchanges, Idle, Failures
  <2> QED BY <1>2, <2>1, <2>2, <2>3, StepGoes DEF Goes, Fails, Passes, Asks, Grants
<1> QED BY <1>1, <1>2 DEF AdvanceInv, Coded

(* However many callers share the client, whatever the server answers and    *)
(* however the tokens, keys and clock change meanwhile, no step takes a      *)
(* request back: with every exchange answered, each of them settles.         *)
THEOREM NeverBack == Spec => RequestsAdvance
<1>1. AdvanceInv /\ [Next]_vars
        => [\A c \in Callers : \/ stage[c] \in Idle
                               \/ UNCHANGED <<stage[c], pass[c], reply[c]>>
                               \/ Left(c)' < Left(c)]_vars
  BY StepGoes, GoesOn DEF Stays
<1> QED BY AdvanceInit, AdvanceStep, <1>1, PTL DEF Spec, RequestsAdvance
===============================================================================
