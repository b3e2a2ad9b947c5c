----------------------------- MODULE Oauth2Client -----------------------------
(***************************************************************************)
(* src/src/oauth2_client.ts with the token of src/src/jwt.ts: one          *)
(* Oauth2Client shared by concurrent requests of a WebClient.  Each request *)
(* (web-client.ts:58-61) awaits keepFresh, then getBearerToken, which       *)
(* keeps fresh once more and hands out the shared accessToken.  Nothing    *)
(* keeps two callers from running an exchange with the server at a time.   *)
(*                                                                         *)
(* Node runs the continuations of an await to the end before it takes the  *)
(* next network event, so time passes and replies arrive only when no      *)
(* caller is between two awaits (Quiet); callers in that state interleave. *)
(*                                                                         *)
(* Tokens are numbered in the order the server issues them; a number names *)
(* an access token and the refresh token that came with it.                *)
(***************************************************************************)
EXTENDS Integers

CONSTANTS
  Callers,      \* requests that run concurrently
  None,         \* no token, no reply
  Clients,      \* what the program makes of its Oauth2Client, see Configurations
  Life,         \* life of an access token, in ticks of the clock
  Stamped,      \* TRUE: the tokens say when they were issued (iat)
  Margin,       \* SAFETY_MARGIN of jwt.ts
  Tolerance,    \* clockTolerance of every verification of a token
  Bestows,      \* what may come as refresh_token: "jwt", "none", "opaque" (no JWT)
  Rotates,      \* TRUE: the server takes a refresh token only once
  Flaky,        \* TRUE: exchanges may be refused, or be lost after they took effect
  MaxDelay,     \* bound: ticks between the issue of a token and its arrival
  MaxClock,     \* bound of the clock
  MaxCalls      \* bound: requests made by one caller

(* A key verifies the server's tokens, or is another's or no key at all.     *)
Keys == {"none", "right", "wrong"}

(* logins: the credentials given, of a user ("code") or of a "client";       *)
(* own, vault: the keys set by setPublicKey, and as JWT_KEY of the Vault;    *)
(* fixed: fixedExpiration of setCustomArgs.                                  *)
Configurations == [logins : SUBSET {"code", "client"}, own : SUBSET Keys,
                   vault : SUBSET Keys, fixed : (Nat \ {0}) \cup {None}]

(* A token as the server issues it, and as the client keeps it; its answers.  *)
Issued == [id : Nat, exp : {t \in Nat : t >= Life}]
AccessTokens == [id : Nat, exp : Nat, until : Nat \cup {None}]
Replies == [kind : {"code", "refused"}]
             \cup [kind : {"tokens"}, refresh : {"jwt", "none", "opaque"}, access : Issued]

ASSUME ClientAssumption ==
  /\ Clients \subseteq Configurations
  /\ Stamped \in BOOLEAN /\ Rotates \in BOOLEAN /\ Flaky \in BOOLEAN
  /\ Life \in Nat /\ Margin \in Nat /\ Tolerance \in Nat
  /\ Margin <= Tolerance
  /\ Bestows \subseteq {"jwt", "none", "opaque"}
  /\ MaxDelay \in Nat /\ MaxClock \in Nat /\ MaxCalls \in Nat
  /\ None \notin Nat \cup AccessTokens \cup Replies

VARIABLES
  clock,
  client,         \* how the client was made
  ownKey,         \* the client's publicKey
  vaultKey,       \* JWT_KEY of the Vault
  accessToken,    \* [id, exp, until], or None; until is its _expiresAt, if it has one
  refreshToken,   \* a number, or None
  issued,         \* how many tokens the server has issued
  live,           \* the refresh tokens the server still takes
  stage,          \* stage[c]: where the request of c is
  pass,           \* pass[c]: which keepFresh of the request it is in
  presented,      \* presented[c]: the refresh token sent by c's exchange
  reply,          \* reply[c]: the server's answer, until it arrives
  token,          \* token[c]: the token c's request carries
  calls,          \* calls[c]: requests c has made
  dropped         \* history: a refresh spent its token, and the next was not kept

tokens == <<accessToken, refreshToken>>
server == <<issued, live>>
keys == <<client, ownKey, vaultKey>>
vars == <<clock, keys, tokens, server, stage, pass, presented, reply, token, calls, dropped>>

Exchanges == {"refresh", "code", "grant", "client"}
BetweenAwaits == {"check", "ready", "send"}
\* A request fails because the server refused, because the token came too late, for
\* another key or without a usable refresh token, or because it has no expiration.
Failures == {"refused", "unverified", "norefresh", "undated"}
Idle == {"idle", "sent"} \cup Failures

To(c, s) == stage' = [stage EXCEPT ![c] = s]
Quiet == \A c \in Callers : stage[c] \notin BetweenAwaits

\* jwt.ts: a token counts as fresh until the margin AFTER it expired ...
FreshTooLong(t) == clock < t.until + 3 * Margin
Fresh(t) == clock < t.until + Margin
\* ... and a verification takes it until the tolerance after it expired.
Accepts(t) == clock < t.exp + Tolerance

-------------------------------------------------------------------------------
Init ==
  /\ clock = 0
  /\ client \in Clients /\ ownKey \in client.own /\ vaultKey \in client.vault
  /\ accessToken = None /\ refreshToken = None
  /\ issued = 0 /\ live = {}
  /\ stage = [c \in Callers |-> "idle"]
  /\ pass = [c \in Callers |-> 1]
  /\ presented = [c \in Callers |-> None]
  /\ reply = [c \in Callers |-> None]
  /\ token = [c \in Callers |-> None]
  /\ calls = [c \in Callers |-> 0]
  /\ dropped = FALSE

\* A key is set or replaced while requests are under way; none is taken back.
SetPublicKey ==
  /\ ownKey' \in client.own \ {"none", ownKey}
  /\ UNCHANGED <<clock, client, vaultKey, tokens, server,
                 stage, pass, presented, reply, token, calls, dropped>>

SetVaultKey ==
  /\ vaultKey' \in client.vault \ {"none", vaultKey}
  /\ UNCHANGED <<clock, client, ownKey, tokens, server,
                 stage, pass, presented, reply, token, calls, dropped>>

\* A request of the WebClient starts with its first keepFresh.
Request(c) ==
  /\ stage[c] \in Idle /\ calls[c] < MaxCalls
  /\ To(c, "check")
  /\ pass' = [pass EXCEPT ![c] = 1]
  /\ token' = [token EXCEPT ![c] = None]
  /\ calls' = [calls EXCEPT ![c] = @ + 1]
  /\ UNCHANGED <<clock, keys, tokens, server, presented, reply, dropped>>

\* A keepFresh that resolves: the first is followed by getBearerToken's own,
\* the second lets getBearerToken read the shared accessToken.
PassedOnAndOn(c) == /\ To(c, IF pass[c] = 1 THEN "check" ELSE "ready")
                    /\ pass' = [pass EXCEPT ![c] = @ + 1]
Passed(c) == /\ To(c, IF pass[c] = 1 THEN "check" ELSE "ready")
             /\ pass' = [pass EXCEPT ![c] = 2]

KeepFreshFresh(c) ==
  /\ stage[c] = "check" /\ accessToken # None
  /\ accessToken.until # None /\ Fresh(accessToken)
  /\ Passed(c)
  /\ UNCHANGED <<clock, keys, tokens, server, presented, reply, token, calls, dropped>>

\* A token that was only decoded, and not given an expiration: isExpired reads an
\* undefined date and throws, so this token is never replaced.
KeepFreshUndated(c) ==
  /\ stage[c] = "check" /\ accessToken # None
  /\ accessToken.until = None
  /\ To(c, "undated")
  /\ UNCHANGED <<clock, keys, tokens, server, pass, presented, reply, token, calls, dropped>>

Stale == accessToken # None => accessToken.until # None /\ ~Fresh(accessToken)

KeepFreshRefresh(c) ==
  /\ stage[c] = "check" /\ Stale
  /\ refreshToken # None
  /\ To(c, "refresh")
  /\ presented' = [presented EXCEPT ![c] = refreshToken]
  /\ UNCHANGED <<clock, keys, tokens, server, pass, reply, token, calls, dropped>>

\* setUser and setClient may be called at any time: the latest one counts.
KeepFreshAuthenticate(c) ==
  /\ stage[c] = "check" /\ Stale
  /\ refreshToken = None
  /\ \E login \in client.logins : To(c, login)
  /\ UNCHANGED <<clock, keys, tokens, server, pass, presented, reply, token, calls, dropped>>

KeepFresh(c) == \/ KeepFreshFresh(c)
                \/ KeepFreshUndated(c)
                \/ KeepFreshRefresh(c)
                \/ KeepFreshAuthenticate(c)

-------------------------------------------------------------------------------
(* The authorization server, as far as oauth2_client.ts can tell.          *)

Answer(c, r) == reply' = [reply EXCEPT ![c] = r]

Waits(c) == stage[c] \in Exchanges /\ reply[c] = None

\* A grant by refresh token needs one that is live.
Takes(c) == stage[c] = "refresh" => presented[c] \in live

\* What may come along as refresh_token; client credentials never get one.
Refreshes(c) == IF stage[c] = "client" THEN {"none"} ELSE Bestows

Issue(c, refresh) ==
  /\ issued' = issued + 1
  /\ live' = (IF Rotates THEN live \ {presented[c]} ELSE live)
               \cup (IF refresh = "jwt" THEN {issued + 1} ELSE {})

\* The refresh that c sent is spent, and the token that came for it is not kept.
Drop(c) == dropped' = (dropped \/ stage[c] = "refresh")

ServerCode(c) ==
  /\ stage[c] = "code"
  /\ Answer(c, [kind |-> "code"])
  /\ UNCHANGED <<server, dropped>>

ServerGrant(c, refresh) ==
  /\ stage[c] # "code" /\ Takes(c)
  /\ Issue(c, refresh)
  /\ Answer(c, [kind |-> "tokens", refresh |-> refresh,
                access |-> [id |-> issued + 1, exp |-> clock + Life]])
  /\ UNCHANGED dropped

\* A refresh token that is spent; or an error, a malformed body, no connection.
ServerRefuse(c) ==
  /\ Flaky \/ ~Takes(c)
  /\ Answer(c, [kind |-> "refused"])
  /\ UNCHANGED <<server, dropped>>

\* The exchange took effect at the server and its reply was lost.
ServerLost(c, refresh) ==
  /\ Flaky /\ stage[c] # "code" /\ Takes(c)
  /\ Issue(c, refresh)
  /\ Answer(c, [kind |-> "refused"])
  /\ Drop(c)

Server(c) == /\ Waits(c)
             /\ \/ ServerCode(c) \/ ServerRefuse(c)
                \/ \E refresh \in Refreshes(c) : ServerGrant(c, refresh) \/ ServerLost(c, refresh)
             /\ UNCHANGED <<clock, keys, tokens, stage, pass, presented, token, calls>>

-------------------------------------------------------------------------------
(* The reply arrives.                                                      *)

Arrives(c, kind) ==
  /\ Quiet
  /\ reply[c] # None /\ reply[c].kind = kind
  /\ Answer(c, None)
  /\ presented' = [presented EXCEPT ![c] = None]
  /\ UNCHANGED <<clock, keys, server, token, calls>>

\* keepFresh and authenticateUser / authenticateClient reject with getError.
ArrivesRefusedUnnoticed(c) ==
  /\ Arrives(c, "refused")
  /\ UNCHANGED <<stage, tokens, pass, dropped>>
ArrivesRefused(c) ==
  /\ Arrives(c, "refused")
  /\ To(c, "refused")
  /\ UNCHANGED <<tokens, pass, dropped>>

\* authenticateUser goes on with its second exchange.
ArrivesCode(c) ==
  /\ Arrives(c, "code")
  /\ To(c, "grant")
  /\ UNCHANGED <<tokens, pass, dropped>>

\* Only authenticateClient hands the client's own key to the JWT it makes.
VaultKeyOf(c) == vaultKey
KeyOf(c) == IF stage[c] = "client" /\ ownKey # "none" THEN ownKey ELSE vaultKey

\* new JWT: with a key, neither a token of another's is taken nor one that is
\* past its tolerance.
Verifies(c, access) == KeyOf(c) # "none" => KeyOf(c) = "right" /\ Accepts(access)

ArrivesUnverified(c) ==
  /\ Arrives(c, "tokens")
  /\ ~Verifies(c, reply[c].access)
  /\ To(c, "unverified")
  /\ Drop(c)
  /\ UNCHANGED <<tokens, pass>>

\* setExpiration counts from the token's iat, or from now if it has none; without
\* it a token has the expiration that its verification read.
UntilFromNow(c, access) ==
  IF stage[c] = "client" /\ client.fixed # None THEN clock + client.fixed
  ELSE IF KeyOf(c) # "none" THEN access.exp ELSE None
Until(c, access) ==
  IF stage[c] = "client" /\ client.fixed # None
  THEN (IF Stamped THEN access.exp - Life ELSE clock) + client.fixed
  ELSE IF KeyOf(c) # "none" THEN access.exp ELSE None

\* this.accessToken and this.refreshToken are set one after the other; when the
\* second is no JWT (or, in a refresh, is absent) the first is set all the same.
SetFirstRefresh(c) ==
  refreshToken' = IF reply[c].refresh = "jwt" /\ refreshToken = None
                  THEN reply[c].access.id ELSE refreshToken
SetRefresh(c) ==
  refreshToken' = IF reply[c].refresh = "jwt" THEN reply[c].access.id ELSE refreshToken

UsableRefresh(c) ==
  CASE stage[c] = "refresh" -> reply[c].refresh = "jwt"
    [] stage[c] = "grant"   -> reply[c].refresh # "opaque"
    [] stage[c] = "client"  -> TRUE

ArrivesTokens(c) ==
  /\ Arrives(c, "tokens")
  /\ LET access == reply[c].access IN
       /\ Verifies(c, access)
       /\ accessToken' = [id |-> access.id, exp |-> access.exp, until |-> Until(c, access)]
  /\ SetRefresh(c)
  /\ IF UsableRefresh(c) THEN Passed(c) /\ UNCHANGED dropped
     ELSE To(c, "norefresh") /\ Drop(c) /\ UNCHANGED pass

Receive(c) == ArrivesRefused(c) \/ ArrivesCode(c) \/ ArrivesUnverified(c) \/ ArrivesTokens(c)

-------------------------------------------------------------------------------
\* getBearerToken resolves with the accessToken of that moment.
TakeToken(c) ==
  /\ stage[c] = "ready"
  /\ token' = [token EXCEPT ![c] = accessToken]
  /\ To(c, "send")
  /\ UNCHANGED <<clock, keys, tokens, server, pass, presented, reply, calls, dropped>>

\* The header is set and the request leaves without another await.
Send(c) ==
  /\ stage[c] = "send"
  /\ To(c, "sent")
  /\ UNCHANGED <<clock, keys, tokens, server, pass, presented, reply, token, calls, dropped>>

Due(c) == reply[c] # None /\ reply[c].kind = "tokens"
            /\ clock >= reply[c].access.exp - Life + MaxDelay

Tick ==
  /\ Quiet /\ clock < MaxClock
  /\ \A c \in Callers : ~Due(c)
  /\ clock' = clock + 1
  /\ UNCHANGED <<keys, tokens, server, stage, pass, presented, reply, token, calls, dropped>>

Caller(c) == Request(c) \/ KeepFresh(c) \/ Server(c) \/ Receive(c) \/ TakeToken(c) \/ Send(c)

Next == Tick \/ SetPublicKey \/ SetVaultKey \/ \E c \in Callers : Caller(c)

Spec == Init /\ [][Next]_vars

-------------------------------------------------------------------------------
TypeOK ==
  /\ clock \in Nat /\ dropped \in BOOLEAN
  /\ client \in Clients /\ ownKey \in client.own /\ vaultKey \in client.vault
  /\ accessToken \in AccessTokens \cup {None}
  /\ refreshToken \in Nat \cup {None}
  /\ issued \in Nat /\ live \subseteq 1..issued
  /\ stage \in [Callers -> Exchanges \cup BetweenAwaits \cup Idle]
  /\ pass \in [Callers -> {1, 2}]
  /\ presented \in [Callers -> Nat \cup {None}]
  /\ reply \in [Callers -> Replies \cup {None}]
  /\ token \in [Callers -> AccessTokens \cup {None}]
  /\ calls \in [Callers -> Nat]
  /\ \A c \in Callers : reply[c] # None => stage[c] \in Exchanges

(* What a program must see to: a fixed expiration counted from the arrival   *)
(* of a token that is not stamped ends before the token does; and replies    *)
(* are in time, or every token is verified, which those of a client that     *)
(* fixes their expiration without a key, or that has two keys, need not be.  *)
Sound ==
  /\ client.fixed # None => client.fixed + (IF Stamped THEN 0 ELSE MaxDelay) <= Life
  /\ \/ MaxDelay < Life + Tolerance
     \/ client.fixed = None /\ (client.own = {"none"} \/ client.logins = {"client"})

(* However requests interleave, and however late tokens arrive, a request   *)
(* leaves with a token, and a server that verifies with the same tolerance  *)
(* still accepts it: what isExpired calls fresh outlives the expiration,    *)
(* but by less than the tolerance.                                          *)
SentIsAccepted ==
  Sound => \A c \in Callers : stage[c] = "send" => token[c] # None /\ Accepts(token[c])

(* A server that takes each refresh token once locks the client out only    *)
(* when a refresh was granted whose answer was lost, refused by the client  *)
(* or had no refresh token: although concurrent callers present the same    *)
(* token and all but one are refused, and replies overtake each other, when *)
(* no exchange is under way the client holds a refresh token that is taken. *)
NeverLockedOut ==
  ~dropped /\ (\A c \in Callers : stage[c] \notin Exchanges)
    => refreshToken \in live \cup {None}

(* Every request is sent or fails: no order of replies leaves one waiting.  *)
RequestsSettle == \A c \in Callers : stage[c] \notin Idle ~> stage[c] \in Idle

\* The steps that the request of c has before it, at most: those of its keepFresh,
\* and of the second when it is in the first.
Left(c) ==
  10 * (2 - pass[c])
    + (CASE stage[c] \in Idle -> 0
         [] stage[c] = "send" -> 1
         [] stage[c] = "ready" -> 2
         [] stage[c] \in Exchanges \ {"code"} -> 4
         [] stage[c] = "code" -> 6
         [] stage[c] = "check" -> 7)
    - (IF reply[c] = None THEN 0 ELSE 1)

(* A request never goes back: whichever token, key or failure another caller *)
(* leaves behind while it waits, and although nobody checks what arrived, a  *)
(* keepFresh runs one exchange (two for a code) and never the same one again.*)
RequestsAdvance ==
  [][\A c \in Callers :
       \/ stage[c] \in Idle
       \/ UNCHANGED <<stage[c], pass[c], reply[c]>>
       \/ Left(c)' < Left(c)]_vars

(* A request whose exchanges were all granted in time is not failed by the  *)
(* client for want of a refresh token: 'Should deal with server that won't  *)
(* bestow refresh tokens'.                                                  *)
GrantedIsServed == \A c \in Callers : stage[c] # "norefresh"
===============================================================================
