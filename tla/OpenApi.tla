------------------------------- MODULE OpenApi -------------------------------
(***************************************************************************)
(* src/src/open-api.helper.ts, composed with Routing: the document that    *)
(* Saphira.route makes of the controllers it has mounted (outside          *)
(* production), beside the router that serves them.  The two are derived   *)
(* from the same handlers by different code, and nothing compares them.    *)
(*                                                                         *)
(* Tags, schemas and examples are left out.  The document's server is the  *)
(* one that Saphira.servers writes: <host>/api.                            *)
(***************************************************************************)
EXTENDS Routing

VARIABLE
  document    \* the operations documented, by path and verb; none at first

docVars == <<program, phase, at, handlers, layers, request, taker, document>>

Unwritten == [written |-> FALSE]

DocInit == Init /\ document = Unwritten

-------------------------------------------------------------------------------
(* OpenAPIHelper.getServicesHierarchy: handlers are told apart by their     *)
(* objects, one that was routed twice is described at its longest path and  *)
(* with the controller that routed it first.                                *)

Same(l, m) == layers[l].route.object = layers[m].route.object
Described == {l \in 1..Len(layers) : \A m \in 1..(l - 1) : ~Same(l, m)}

Longest(l) ==
  CHOOSE m \in 1..Len(layers) :
    /\ Same(l, m)
    /\ \A n \in 1..Len(layers) : Same(l, n) =>
         \/ Len(layers[n].key) < Len(layers[m].key)
         \/ Len(layers[n].key) = Len(layers[m].key) /\ m <= n
FullestKey(l) == layers[Longest(l)].key

BasePath == FullestKey(1)[1].word

\* A segment as it is written in a path, and what is left of it when the slash
\* before it and all but the letters from the n-th on are cut.  (An inner capital
\* stands at its end.)
Text(segment) == IF IsPlace(segment) THEN "{" \o segment.param \o "}" ELSE segment.word
Remnant(segment, n) ==
  [cut |-> SubSeq(Text(segment), n, Len(Text(segment))),
   caps |-> IF IsPlace(segment) THEN {}
            ELSE IF n = 1 THEN segment.caps ELSE segment.caps \ {"first"}]

\* The path of these segments without its first n letters: the segments that
\* begin later are whole, and the one before them is a remnant, or gone.
CutOff(segments, n) ==
  LET End[k \in 0..Len(segments)] ==
        IF k = 0 THEN 0 ELSE End[k - 1] + 1 + Len(Text(segments[k]))
      first == Cardinality({k \in 1..Len(segments) : End[k - 1] < n})
      whole == SubSeq(segments, first + 1, Len(segments))
  IN IF End[first] > n THEN <<Remnant(segments[first], n - End[first - 1])>> \o whole
     ELSE whole

(* As many letters are cut off every path as the first one's prefix has: of   *)
(* a longer prefix some are left, of a path with a shorter one more are gone. *)
Shorter(l) == Len(FullestKey(l)[1].word) < Len(BasePath)
Path(l) ==
  LET key == FullestKey(l)  prefix == key[1].word IN
    IF Len(prefix) = Len(BasePath) THEN Tail(key)
    ELSE IF Shorter(l) THEN CutOff(Tail(key), Len(BasePath) - Len(prefix))
    ELSE <<Remnant(key[1], Len(BasePath) + 1)>> \o Tail(key)

-------------------------------------------------------------------------------
(* getEndpoint: a parameter is described in the path, the query or the body. *)

Named(params, kinds) == {params[i].name : i \in {i \in 1..Len(params) : params[i].kind \in kinds}}
PathNames(route) == Named(route.params, {"path", "parent"})
OtherNames(route) ==
  Named(route.params, {"other"}) \cup (IF route.payload = "none" THEN {} ELSE {"payload"})

HasBodyButPatch(method) == method \in {"post", "put"}
HasBody(method) == method \in {"post", "put", "patch"}

\* buildEndpointResponse
Statuses(response) ==
  {400, 500} \cup CASE response = "created" -> {201}
                   [] response = "accepted" -> {202}
                   [] response = "modified" -> {204}
                   [] response = "json" -> {200}

\* buildEndpointPathParameters
Query(route) == IF HasBody(route.method) THEN {} ELSE OtherNames(route)

EndpointOwnPath(route) ==
  [object |-> route.object,
   path |-> Named(route.params, {"path"}),
   query |-> Query(route),
   body |-> IF HasBody(route.method) THEN OtherNames(route) ELSE {},
   responses |-> Statuses(route.response)]
Endpoint(route) ==
  [object |-> route.object,
   path |-> PathNames(route),
   query |-> Query(route),
   body |-> IF HasBody(route.method) THEN OtherNames(route) ELSE {},
   responses |-> Statuses(route.response)]

(* buildOpenApi: of two operations with one path and verb the last is kept. *)
OperationGet(l) == <<Path(l), "get">>
Operation(l) == <<Path(l), layers[l].route.method>>
Paths ==
  [op \in {Operation(l) : l \in Described} |->
     LET last == CHOOSE l \in Described :
                   /\ Operation(l) = op
                   /\ \A m \in Described : Operation(m) = op => m <= l
     IN Endpoint(layers[last].route)]

Mounted == phase = "routing" /\ at > Len(program) /\ document = Unwritten
Describable == program = <<>> \/ \E l \in 1..Len(layers) : layers[l].service = 1

Describe == /\ Mounted /\ Describable
            /\ document' = [written |-> TRUE, paths |-> Paths]
            /\ UNCHANGED vars

\* The first controller has no handler to take the prefix from: route throws.
DescribeNothing == /\ Mounted /\ ~Describable
                   /\ phase' = "rejected"
                   /\ UNCHANGED <<program, at, handlers, layers, request, taker, document>>

-------------------------------------------------------------------------------
(* The server, once it is described.                                        *)

\* Controller.getValue: where the values of a route's parameters are read.
Reads(route) ==
  LET inQuery == route.method \in {"get", "head", "delete"} /\ route.payload = "none"
  IN [path |-> PathNames(route),
      query |-> IF inQuery THEN OtherNames(route) ELSE {},
      body |-> IF inQuery THEN {} ELSE OtherNames(route)]

\* Responder.handleByType: the status of what an action resolves with.
Answer(response) ==
  CASE response = "accepted" -> 202
    [] response = "created" -> 201
    [] response = "modified" -> 204
    [] response = "json" -> 200

DocNext ==
  \/ Describe
  \/ DescribeNothing
  \/ Register /\ UNCHANGED document
  \/ Throw /\ UNCHANGED document
  \/ Mount /\ UNCHANGED document
  \/ NextController /\ UNCHANGED document
  \/ Receive /\ document # Unwritten /\ UNCHANGED document
  \/ Skip /\ UNCHANGED document
  \/ PassOn /\ UNCHANGED document
  \/ Refuse /\ UNCHANGED document
  \/ Act /\ UNCHANGED document
  \/ NotFound /\ UNCHANGED document

DocSpec == DocInit /\ [][DocNext]_docVars

-------------------------------------------------------------------------------
(* What the properties are about: controllers under one spelling of the      *)
(* document's server's prefix, and layers that differ in path or verb.       *)
Plain ==
  /\ \A c, d \in 1..Len(program) :
       program[c].api = program[d].api /\ program[c].api.word = "api"
  /\ \A l, m \in 1..Len(layers) :
       /\ layers[l].key = layers[m].key
       /\ layers[l].route.method = layers[m].route.method
       => l = m
Alone(l) == \A m \in 1..Len(layers) : Same(l, m) => l = m

\* A client of the document sends its paths to <host>/api.
Fits(op) ==
  /\ op[2] = request.method
  /\ Len(request.path) = Len(op[1]) + 1
  /\ request.path[1].word = "api"
  /\ \A k \in 1..Len(op[1]) : IsPlace(op[1][k]) \/ op[1][k].word = request.path[k + 1].word

(* Whatever a handler serves is documented: a request that it takes fits an  *)
(* operation of its own, which describes every parameter where the           *)
(* controller reads it, and lists the 400 of a parameter it refuses and the  *)
(* status of a result of the action's.  Not of errors: 401 and 403 of a      *)
(* restricted route and the status of an HttpError that the action rejects   *)
(* with are never listed.  This is said of handlers that are routed once;    *)
(* OPTIONS and TRACE are described with a query that is read from the body.  *)
ServedAsDocumented ==
  Plain /\ taker.layer # 0 =>
    LET layer == layers[taker.layer]  route == layer.route IN
      Alone(taker.layer) /\ route.method \notin {"options", "trace"} =>
        \E op \in DOMAIN document.paths :
          LET endpoint == document.paths[op] IN
            /\ Fits(op) \/ (request.method = "head" /\ route.method = "get")
            /\ endpoint.object = route.object
            /\ [path |-> endpoint.path, query |-> endpoint.query,
                body |-> endpoint.body] = Reads(route)
            /\ taker.how = "refused" => 400 \in endpoint.responses
            /\ taker.how = "acted" => Answer(route.response) \in endpoint.responses

(* Whatever is documented is served: a request that fits an operation, and   *)
(* that no layer of another handler matches, is taken by that operation's    *)
(* handler, unless a value in it is one to ignore.                           *)
DocumentedIsServed ==
  Plain /\ phase = "done" =>
    \A op \in DOMAIN document.paths :
      LET object == document.paths[op].object IN
        /\ Fits(op)
        /\ \A l \in 1..Len(layers) : Matches(layers[l]) =>
             /\ layers[l].route.object = object
             /\ \A i \in 1..Len(layers[l].route.params) : ~Ignores(layers[l], i)
        => taker.layer # 0

(* The placeholders of a documented path are its parameters in the path, as  *)
(* OpenAPI demands, unless a parent parameter dropped those before it, or    *)
(* the path has a shorter prefix than the first one, for which letters of    *)
(* what follows are cut.  It has no placeholder that is not described, even  *)
(* so.                                                                       *)
Placeholders(path) == {path[k].param : k \in {k \in 1..Len(path) : IsPlace(path[k])}}
Documenting(object) == CHOOSE l \in Described : layers[l].route.object = object

PlaceholdersDeclared ==
  document # Unwritten =>
    \A op \in DOMAIN document.paths :
      LET endpoint == document.paths[op]
          l == Documenting(endpoint.object)  route == layers[l].route
      IN /\ Placeholders(op[1]) \subseteq endpoint.path
         /\ /\ ~Shorter(l)
            /\ \A j \in Parents(route) : \A i \in 1..j : route.params[i].kind # "path"
            => Placeholders(op[1]) = endpoint.path
===============================================================================
