# Saphira in TLA+

Saphira is a library for HTTP services in Node: a program declares controllers
with routes and connections to other services, and Saphira serves the ones over
the others. These modules model its core, TLC checks them on small instances,
and TLAPS proves the properties that matter most for every instance.

Paths below are relative to the repository; `PROJECT.json` maps every definition
to the lines it stands for.

## The system

| Component | State it keeps | Operations |
|---|---|---|
| Commitment (`src/commitment.ts`) | the promise, the caller's `Retries` object, the attempt | constructor, resolve and reject of each run, preparation, timer |
| Oauth2Client (`src/oauth2_client.ts`) with JWT (`src/jwt.ts`) | access token, refresh token, credentials, public key, fixed expiration | keepFresh with its three exchanges, getBearerToken, setPublicKey, setCustomArgs, setUser, setClient |
| WebClient and Connection (`src/adapter/web-client.ts`, `connection.ts`) | `_connected`, `lastError` | connect, request |
| Adapters and AdaptersManager (`src/adapter/adapters.ts`, `adapters_manager.ts`, `resource.ts`) | the static registry of connections, the clients of `sysAuth`, the failures of one `connect` | setupWebConnection, connect, allConnected, closeConnection, closeAll, status |
| Saphira (`src/index.ts`) | the HTTP server, the manager | listen, close, route |
| Controller (`src/controller/controller.ts`) | handlers by path and verb | route, handle, call |
| Responder (`src/controller/responder.ts`) | none beyond the response | route, handleByType |
| DataTypes (`src/data-types`) and DTO | none | digest |
| Vault (`src/vault.ts`) | named values, one instance per process | get, set, read-only |
| OpenAPIHelper (`src/open-api.helper.ts`) | none | buildOpenApi |
| errors, helpers, constants | none | formatting and tables |

How they interact: `listen` asks AdaptersManager to authenticate its clients of
`sysAuth` and to register a WebClient per service, awaits both and the health
checks, asks the OAuth2 server for its key and puts it into the Vault,
constructs the controllers, mounts their routes on an Express router, describes
them in a document (outside production) and binds the port. A request then goes through every layer that
matches it: Responder.route, Controller.handle (which verifies the token with
the key of the Vault), DataTypes for each parameter, the action, the answer, and
`next`. Actions call other services through WebClients, which await a fresh
token of an Oauth2Client before each request. Commitments are for the program.

What is hard here:

- awaits that other callers run between: concurrent `keepFresh` calls, several
  `listen()` and `close()` in one process over one static registry, services that
  connect while the client they share is still being authenticated;
- one client with two keys, its own and the process's, each used by some of its
  exchanges and each arriving when it likes;
- replies that come late, out of order or never, and tokens that expire meanwhile;
- callbacks of the caller's own code that are called twice, or throw;
- partial failure: a refresh that grants one token and fails on the other, an
  error handler that throws, a misconfigured service after registered ones;
- `next` after an answer, and values that pass a request on to another route;
- paths that the code compares by letters and Express without case;
- one set of handlers read twice, by the router and by the document.

Every hazard is listed in `PROJECT.json` at its line with the properties that
would catch it, or with the reason why none does.

What makes each component correct:

- Commitment: no more retries than given, exactly one settlement, nothing left
  in flight after it, every failed run numbered and prepared for.
- Oauth2Client: a request leaves with a token that will be accepted, is sent or
  fails, and concurrent refreshes do not lock the client out.
- Request pipeline: one answer, no action on a request that its route does not
  admit or that is answered, arguments of the declared types.
- Routes: an operation's name is not taken for a parameter; parameters of the
  path are in the path; mistakes of declaration are refused at start.
- OpenAPIHelper: what is served is documented, what is documented is served, and
  each parameter is described where the controller reads it.
- SysAuth: a server that requires it is up only with a token; a client that was
  given the right key, or none and an expiration, turns no granted token down.
- Servers: what a server that is up relies on (connections, key, statuses) is
  there, whoever else starts or closes; listen and close settle.

## Modules

`Retrying` is the abstract promise of a Commitment: one thread of runs that ends
in one settlement, with a budget of retries. `Commitment` is the code: `New` is
the constructor, `Resolve` and `Reject` the two callbacks with all they do
(`bother`, the countdown, `canRetry`, the preparation), `Prepared` and
`NotPrepared` the settlement of `onBeforeRetry`'s promise, `Timer` the timeout
that runs the executor again. The Retries object is a separate variable because
the code keeps and counts down the caller's own. `Commitment` implements
`Retrying` (`ImplementsRetrying`) under the mapping at its end: a Commitment's
state there is read off what it has in flight.

`Oauth2Client` has one action for each stretch of code between two awaits of a
request: `Request`, the four ways through `keepFresh`, what the server does, the
handlers of its replies (`Arrives...`), `TakeToken` (the second `keepFresh` has
passed) and `Send`. Tokens are numbered as the server issues them. The server
and the clock are external, and move only when no continuation is ready to run
(`Quiet`), as Node's event loop does. `client` says how the program made the
client: the credentials it may be given, the keys that may be set on it
(`SetPublicKey`) and in the Vault (`SetVaultKey`), and a fixed expiration.
`KeyOf` is the key that a reply is verified with, `Until` the date that
`isExpired` will read. `dropped` is a history variable: a refresh took effect at
the server and the client did not keep what came of it.

`SystemAuth` EXTENDS it with the client that AdaptersManager makes of an entry
of `sysAuth`, for one more caller (`Auth`) beside the web services that share
the client. `Connect` is the synchronous stretch of `connect()` that starts
everything, `Fetched` is `Resource.get` of a key at a URL, `Kept`, `Answered`
and `Rejected` settle the promises that `connect()` awaits, `Decide` is its
result, and `Serve` a request once the server is up. A client that logs users
in is none of AdaptersManager's; the module has it for a program that connects
without and gives its own client to connections that are up.

`DataTypes` gives, for each type, the set of results of `digest`: empty where it
throws. Texts are grouped by what the code asks of them (numeric, a truth word,
a date, a JSON object, ...), arrays by the set of their elements.

`RequestPipeline` EXTENDS it and follows one request through the chain of routes
that match: `Enter` (headers, token, subjects), `Read` (one parameter per step,
as `params.every` does), `Act`, `Settle`, `Respond...` and `Fail` (Responder),
`PassOn` (`next`) and Express's final handler. The Responder's handler of errors
may itself throw, and then nobody answers or passes on (`FailSilently`): for a
rejection with `undefined` or `null` (`responder.ts:103`), with something that
has no message and no JSON (line 106), with a status that HTTP does not have or
a message that cannot be serialized (line 115). `Unhandled` names the three.

`Routing` is what comes before: `Register` and `Throw` are `Controller.route`
with its checks and the path it builds (`Key`), `Mount` is `Saphira.route` for
one controller, and the other actions are Express asking its layers, with the
part of `Controller.call` that decides whether a layer keeps a request. Names
are words with the places of their capitals, since the code compares letters and
Express does not. Handler objects have identities (`object`), as a program may
route one object at two paths.

`OpenApi` EXTENDS it with the document: `Describe` is `buildOpenApi` over the
mounted layers, between the last controller and the first request, and
`DescribeNothing` the controller that makes it fail. As many letters are cut off
every path as the first one's prefix has (`Path`): a longer prefix leaves a
`Remnant` of itself, and of a path with a shorter one the cut goes on into the
controller's name and the placeholders (`CutOff`). Nothing in the code compares
the document with the router; the properties do.

`Servers` composes Saphira's `listen` and `close`, AdaptersManager, the registry,
the connected state of WebClients and the key in the Vault, for several servers
in a process. `Connect` registers all services of a server, as the code does in
one synchronous stretch; `ConnectSettles` is the outcome of one health check;
`Start` covers the key, the decision and the binding of the port; `Stop` is
`close` with `closeAll`. The services' health changes at any time.

`MCCommitment`, `MCOauth2Client`, `MCSystemAuth`, `MCRequestPipeline`,
`MCRouting` and `MCServers` give TLC its instances. `CommitmentProofs`,
`Oauth2ClientProofs`, `SystemAuthProofs`, `RequestPipelineProofs`,
`RoutingProofs`, `OpenApiProofs` and `ServersProofs` hold the theorems.

## Runs

| Run | Instance | What it shows |
|---|---|---|
| commitment_polite | two Commitments, Retries objects of their own (one negative), one callback per run | nothing is left in flight after a settlement, attempts are numbered, `Retrying` is implemented, and with its fairness |
| commitment_shared | two Commitments on one Retries object, two callbacks per run, a throwing `onBeforeRetry` | the budget holds in total, nobody retries again once one was told that it is used up, and each step uses up something that its Commitment may still do |
| oauth2_accepted | two callers, two requests each, five ticks, replies lost, refused or four ticks late, every kind of refresh token, a rotating server; keys of the client and of the Vault that are missing, right or another's, and change | what is sent is accepted, only a refresh that was granted and not kept locks the client out, and no step takes a request back |
| system_auth | AdaptersManager and two services on one client; key given, at a URL, or none but a fixed expiration; also a client that logs a user in; an authorization server that refuses and loses; fair | what is sent is accepted, a trusted client turns no granted token down, the server is up only with a token, `connect()` and requests settle |
| oauth2_no_refresh | refreshes may bring no refresh token | *violated*: a granted request fails |
| pipeline_once | every chain of up to two routes of three restrictions, three lists of parameters, two kinds of response; every type with every kind of value; actions that reject with what the handler of errors answers and with what it fails on | one answer, actions only when admitted and with arguments of their types, none after an answer, an answer unless the action that ran last rejects with what the handler of errors fails on, each step nearer to the end of the chain |
| pipeline_silent | the same | *violated*: a rejection that the handler of errors fails on is never answered |
| routing | controllers of up to three routes of a pool of seven, of one good and one bad route, pairs of routes over all verbs and responses, pairs of controllers with prefixes of their own, the first shorter than the second or so long that it cuts into the names and placeholders of the other, objects routed twice; 21 paths for two verbs and one for all | every declared route is mounted once, operations are reached through the routes that ignore their names, path parameters are found, and router and document agree both ways |
| servers_shared | three servers, one misconfigured, three services | health, status, connections and key of a server that is up |
| servers_settle | two servers, one of them without an OAuth2 server, two unsteady services, fair | `listen` and `close` settle |
| servers_offline | one server | *violated*: a required service that goes offline never shows |

The violated runs are disagreements of the code with its own documents and
tests; `findings` in `PROJECT.json` quotes both sides.

### Bounds

`CallsPerRun` = 2 is the least with which one run starts two chains of retries.
Retries of 2 to 4 and negative ones cover zero, the last retry and the countdown
past it. In `Oauth2Client` tokens live one tick, the margin is one and the
tolerance two, so that five ticks see a token fresh, expired within the margin,
and expired but tolerated; `MaxDelay` lets one arrive after all of that, when
it is refused whole and the next refresh token with it. In `SystemAuth` the
margin equals the tolerance, the largest that its assumption allows, and replies
come a tick late, within the tolerance: a client with a fixed expiration and no
key verifies nothing, so that later ones could not be told. Two services are the
least of which one may authenticate the client while the other uses it. Two
callers already present one refresh token twice and overtake each other.
`MaxCalls` = 2 gives a request on a token that an earlier one left. Chains of
two routes contain every pair of an answer, a refusal or a pass-on and a route
after it; a third adds nothing but another such pair. Three routes in a
controller are the least with a path registered for two verbs around another
route. Three servers contain one that registers, one that shares and one that
fails or closes meanwhile; each server is closed at most once. The prefixes of pairs of controllers have
from 2 (`v2`) to 14 letters (`administration`): after the longest one, a path
under `api` loses its controller's name and letters of its first placeholder.

### Fairness

`Commitment`: an executor calls back and a preparation settles at some time (in
`FairSpec` only; the safety runs do without), and Node's timers fire.
`SystemAuth`: continuations run, and the server, the services and the URL of the
key answer or fail (`SysFairSpec`); the clock need not advance. `Oauth2Client`
itself is checked without fairness.
`RequestPipeline`: continuations run and an action's promise is settled.
`Servers`: health checks are answered or fail, the port can be bound or not,
connections of a closing server end. Nothing else is fair: no caller has to make
a request, no service has to change or stay, nobody has to call `listen` or
`close`.

## Proofs

All theorems hold for any values of the constants that the modules' named
assumptions allow, and rest on nothing else.

- **Commitment.** Type correctness. `RetriesWithinBudget` is not inductive:
  `BudgetInv` adds that a number only shrinks below its start and that what is
  not constructed has not run. `NothingAfterSettlement` and `AttemptIsRun` need
  `OneThread`: a Commitment with polite executors has at most one of a run, a
  preparation and a timer in flight, and none once settled; `Numbered` ties the
  attempt to the run. `SharedBudgetIsSplit` speaks of how many retries several
  Commitments made: it is a set of pairs of a Commitment and a number, so that a
  retry is one more element (`OneMore`) and `ShareInv` needs no sum.
  `EveryStepSpends` rests on a measure of what a Commitment may still do
  (`Left`): a retry weighs more than a preparation, that more than a timer, that
  more than a run with its calls. `ExhaustedForGood` needs that who was told the
  Retries object is used up left nothing in it (`UsedUp`): the countdown never
  goes up again, not even when a Commitment constructed later sets a negative
  number to zero. `Refinement`
  shows that every step is a step of `Retrying` or a stutter, for Commitments
  that are polite and own their Retries object (`OwnInv`: what was run and what
  is left add up to the times given).
- **Oauth2Client.** Type correctness, and `SentIsAccepted`. The invariant
  `SentInv` says that a request in its second `keepFresh` finds a token, that an
  exchange there was started for a dated token and so under a known key or with
  a fixed expiration, and that a caller about to take the token may do so: a
  reply that would leave an expired token there is refused by its verification,
  or comes too early to (`Sound` lists the two ways). `NeverLockedOut` is not
  inductive: `LockInv` adds that, unless a refresh was dropped, either the
  client's refresh token is live or the reply to a refresh is on its way, and that
  what is on its way is live, presented by nobody and different for each caller.
  `RequestsAdvance` counts the awaits a request still has before it (`Left`); the
  one thing that it needs of the state is that only the first exchange of a user
  is answered with a code (`Coded`). With a server that answers it is why a
  request settles, however others use the client meanwhile. The margin must not
  exceed the tolerance: they are 5 and 30 seconds (`jwt.ts:10`, `settings.ts:25`),
  and a program that sets TOKEN_SAFETY_MARGIN higher than 30 seconds loses this.
- **SystemAuth.** Type correctness, which takes that of `Oauth2Client` action by
  action, and `UpWithToken`. `SysInv` adds that the client's token is never
  taken away (`TokenStays`), that who is past its `keepFresh` found one
  (`ReadyHasToken`), and that AdaptersManager settled without a failure only by
  `Kept`. `GrantedIsKept` rests on `GrantInv`: a client of `sysAuth` runs only
  the exchange of client credentials and gets no refresh tokens, the replies
  under way come in time, and each token that was kept is dated. The steps of
  `SystemAuth` are not all steps of `Oauth2Client` (callers start at once,
  AdaptersManager has one `keepFresh` instead of two, the key comes late), so that
  its guarantees are proved anew: `SentInv` has the set of callers that send as a
  parameter, here the services, and `ManagerLeaves` says what AdaptersManager's
  own steps leave alone. `ServicesAccepted`, `ServicesNotLockedOut` and
  `ServicesNeverBack` are `SentIsAccepted`, `NeverLockedOut` and `RequestsAdvance`
  of the services of a server.
- **RequestPipeline.** Type correctness; `AnsweredOnce` and
  `NothingActsOnAnswered` from `Answering`: an answered request is at `next`, at
  an entrance, or at its end. `ActsWhenAdmitted` from `Admitted`: the arguments
  collected are those of the route that has the request, which admits it. It
  rests on `DigestPromised`: what `digest` returns is what its type promises.
  `EndsAnswered` needs `ByAction`: what is `Unhandled` comes from an action only,
  and that is the one that ran last, of the route that has the request, so that
  no refusal, missing parameter or pass-on ends a request unanswered. `Advances`:
  each step leaves less of a route (`Rest`) or goes on to the next, for chains of
  any length; together they are `Answered` without its fairness.
- **Routing and OpenApi.** `OperationsReached`, `PathParamsBound`, `RoutesMounted`
  and type correctness, of the router alone (`Reached`, `PathBound`,
  `MountedOnce`, `TypeCorrect`) and with the document (`DescribedRouter`).
  `RouteInv` types the layers and
  says that every layer asked so far passed the request on if it matched, and
  that the one that took it does not ignore a value of its first parameter; a
  declared name is ignored whatever its letters (`DeclaredIgnored`). For
  `PathParamsBound` it is the key of a route that matters: the parameters in a
  path are numbered by how many there are up to each, and counting shows that
  none is left out (`PlacesAre`, `KeyIs`). `RoutesMounted` needs `MountInv`: what
  a controller filed is what it declared, so far and in its order, its layers are
  among these, no two of them alike, and the controllers before it are done.
  `PlaceholdersDeclared` rests on `KeyIs` for the described handlers, and on
  `CutOffPlaces`: whatever is cut off a path, what is left of a segment is no
  placeholder, so that no placeholder comes without its parameter. That each
  parameter has its placeholder holds only where the prefix is at least as long
  as the first one's (`Shorter`), and no parent parameter dropped it.
  `ServedAsDocumented` and `DocumentedIsServed` (in `OpenApiProofs`) need what
  the document was made of: every layer has a route of the program and a path
  that starts with its controller's prefix (`OfProgramInv`), every object has a
  longest path (`LongestInv`), the document is of the layers that serve
  (`DocumentInv`), and only the layer asked takes a request (`TakenInv`). Under
  one prefix no two handlers are described under one operation
  (`OneOperation`), so each operation is the endpoint of its handler. Both
  are about controllers whose prefix is `api` in one spelling and layers that
  differ in path or verb (`Plain`).
- **Servers.** Type correctness; `UpFindsServices` (`FindInv`: from the first
  moment of `listen` every service has a client, as none is ever replaced);
  `AlwaysKeyed` (`KeyInv`: where the OAuth2 connection is missing somebody has
  the key already); `StatusReadable` (`StatusInv`: a client is being called, is
  connected, or has an error); `HealthyWhenAlone` (`AloneInv`: a server that is
  alone settles each of its own clients before it decides).

Only model-checked: liveness (`ImplementsFairRetrying`, `RequestsSettle`,
`ConnectSettles`, `Answered`, `ListenSettles`, `CloseSettles`), which is out of
the prover's reach: the theorems about `EveryStepSpends`, `RequestsAdvance`,
`Advances` and `EndsAnswered` are their safety halves. Every invariant and every
action property of the passing runs is stated by a theorem.

## Not modelled, and why

- Oauth2Client: a client without a key and without a fixed expiration fails its
  first request: the token that is granted has no date, and the request's second
  `keepFresh` throws on it (`KeepFreshUndated`). The model has that, but no
  property denies it, as nothing in the repository says that such a client
  works. Subject paths, PKCE and the names of properties are formatting;
  JWT_OPTS other than the tolerance are the program's.
- SystemAuth: one client of `sysAuth` at a time, and not composed with the
  registry of `Servers`: `setOauth2Client` replaces the client of a connection
  that another server registered under the same name. A client whose key is at
  a URL fails the requests that are granted before the URL has answered, and
  `GrantedIsKept` leaves it out.
- Servers: TLS files, CORS, banners and the printed routes are input and output;
  two services of one name in one server are taken as a mistake of the program.
  WebClient's substitution of payloads and its headers are formatting; it writes
  into the caller's own payload, and a boolean parameter `true` becomes `false`
  (`web-client.ts:109`). What `verifyRequiredEnvVars` finds is not used.
- RequestPipeline: how a page of results becomes headers and a body. A page of
  no entries is answered without the `x-pagination` header (`responder.ts:49`).
- Routing: Express's own options are left to Express. A restricted layer answers
  401 or 403 before it looks at a name to ignore, so that `OperationsReached` is
  about requests that each layer authorizes; authorization is `RequestPipeline`'s. Two routes that differ only in the names of
  their parameters, or in letters' case, are both accepted and the second is
  shadowed; a path keeps the place it got for its first verb, so that a route
  may precede one registered before it. Both follow from the model and are
  hazards, as nothing in the repository says otherwise.
- DataTypes: numbers beyond what a Date can hold. An `ObjectArray` without a DTO
  may hold nulls, numbers or lists when they come as JSON in strings; the model
  keeps that and `Promised` says so.
- OpenApi: tags, schemas, components, examples and the wrapping of results (the
  document describes `result`, `timeStamp` and `performance`, the responder sends
  the result itself) are left out, and so is which parameters are required. A
  first controller without handlers makes the document, and with it `listen`,
  fail, but only outside production (`DescribeNothing`). Of
  errors only 400 and 500 are documented. A restricted route answers 401 and 403
  besides, and an action that rejects with an HttpError of its own has that
  error's status answered (`src/test/operations-test.ts:107` expects a 502): the
  document lists neither, and `ServedAsDocumented` speaks of the statuses of
  results and of the 400 of a refused parameter only. That a first prefix longer
  than another one cuts into the other's paths follows from the model and is a
  hazard; nothing in the repository says otherwise.
- Errors and constants have no behaviour; helpers parse and format.

## Plan

Done, in the order of importance: Commitment with Retrying; Oauth2Client with
its keys and expirations; RequestPipeline; Servers; Routing; DataTypes; OpenApi;
SystemAuth; the theorems above. What remains:

1. `Routing` composed with `RequestPipeline`: the chains of the one are what the
   router of the other yields, so that every property of a request speaks of
   programs instead of chains.
2. `SystemAuth` composed with the registry of `Servers`: several servers whose
   connections share a name and whose clients differ.
