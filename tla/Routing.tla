------------------------------- MODULE Routing -------------------------------
(***************************************************************************)
(* src/src/controller/controller.ts (route and what it calls) and          *)
(* Saphira.route of src/src/index.ts: how the routes that controllers       *)
(* declare become layers of Express's router, and which of them takes a    *)
(* request.                                                                *)
(*                                                                         *)
(* A name is a word and the places where it has upper-case letters: the    *)
(* code compares paths to the letter, Express compares them by the word.   *)
(* What is behind a layer (authorization, the values of parameters) is     *)
(* RequestPipeline's.                                                      *)
(***************************************************************************)
EXTENDS Naturals, Sequences, FiniteSets

CONSTANTS
  Programs,   \* the sequences of controllers a server may be given
  Requests    \* the requests it may get

Letters == {"first", "inner"}
Names == [word : STRING, caps : SUBSET Letters]

Methods == {"get", "head", "delete", "post", "put", "patch", "options", "trace"}

\* `object` names the Handler object: a program may route one object twice.
Params == [name : STRING, valid : BOOLEAN, kind : {"path", "parent", "other"},
           required : BOOLEAN, ignore : SUBSET Names]
Responses == {"json", "created", "accepted", "modified"}
Routes == [path : Seq(Names), object : Nat, method : Methods, arity : Nat,
           payload : {"none", "object", "scalar"}, params : Seq(Params),
           response : Responses]
Controllers == [api : Names, name : Names, routes : Seq(Routes)]

\* One object has one of everything but paths.
OneObject(route, other) ==
  route.object = other.object => [route EXCEPT !.path = other.path] = other

\* An operation's path is one name or '', and only parameters in the path have
\* names to ignore.
ASSUME RoutingAssumption ==
  /\ Programs \subseteq Seq(Controllers)
  /\ \A program \in Programs : \A c \in 1..Len(program) :
       \A r \in 1..Len(program[c].routes) :
         /\ Len(program[c].routes[r].path) <= 1
         /\ LET route == program[c].routes[r] IN
              \A i \in 1..Len(route.params) :
                route.params[i].kind = "other" => route.params[i].ignore = {}
         /\ \A d \in 1..Len(program) : \A q \in 1..Len(program[d].routes) :
              OneObject(program[c].routes[r], program[d].routes[q])
  /\ Requests \subseteq [method : Methods, path : Seq(Names)]

\* cors answers every OPTIONS request before the router.
ASSUME RequestsAssumption == \A r \in Requests : r.method # "options"

VARIABLES
  program,    \* the controllers, in the order they are constructed
  phase,      \* what the server does
  at,         \* the controller under construction, later the layer asked
  handlers,   \* what this controller's `route` registered, in order
  layers,     \* the layers of the router
  request,    \* the request under way
  taker       \* the layer that took it, and how

vars == <<program, phase, at, handlers, layers, request, taker>>

Nobody == [layer |-> 0, how |-> "none"]
NoRequest == [method |-> "get", path |-> <<>>]

Init == /\ program \in Programs
        /\ phase = "routing" /\ at = 1
        /\ handlers = <<>> /\ layers = <<>>
        /\ request = NoRequest /\ taker = Nobody

-------------------------------------------------------------------------------
(* Controller.route *)

Lower(name) == [name EXCEPT !.caps = {}]
Decapitalize(name) == [name EXCEPT !.caps = @ \ {"first"}]

\* Is the Handler object routed already?  Then its payload is among its params.
Routed(object) == \/ \E i \in 1..Len(handlers) : handlers[i].route.object = object
                  \/ \E i \in 1..Len(layers) : layers[i].route.object = object

\* testHandler: a payload is the only parameter, an object, and in a body.
Count(route) == IF route.payload = "none" THEN Len(route.params) ELSE 1
Tested(route) ==
  /\ route.payload # "none" => /\ route.params = <<>> /\ ~Routed(route.object)
                               /\ route.payload = "object"
                               /\ route.method \in {"post", "put"}
  /\ route.arity \in {Count(route), Count(route) + 1}

\* testParam, and the parent parameters that buildParamPaths counts.
Parents(route) == {i \in 1..Len(route.params) : route.params[i].kind = "parent"}
ParamsTested(route) ==
  /\ \A i \in 1..Len(route.params) : route.params[i].valid
  /\ \A i, j \in Parents(route) : i = j

Place(param) == [param |-> param.name]
InPath(param) == param.kind = "path"
\* The parameters in the path, in their order: the n-th has n up to itself.
UpTo(S, i) == {j \in S : j <= i}
PathIndexes(params) == {i \in 1..Len(params) : InPath(params[i])}
Places(params) ==
  LET S == PathIndexes(params)
  IN [n \in 1..Cardinality(S) |-> Place(params[CHOOSE i \in S : Cardinality(UpTo(S, i)) = n])]

(* buildPaths and buildParamPaths: a parameter in the path goes to the end.  *)
(* A parent parameter goes between controller and operation, starts the path *)
(* anew from their names as declared, and so drops the parameters before it. *)
KeyOf(controller, route, after) ==
  IF Parents(route) = {}
  THEN <<controller.api, Decapitalize(controller.name)>>
         \o [i \in 1..Len(route.path) |-> Decapitalize(route.path[i])] \o after
  ELSE LET p == CHOOSE i \in Parents(route) : TRUE
       IN <<controller.api, controller.name, Place(route.params[p])>> \o route.path \o after
KeyParentOnly(controller, route) ==
  KeyOf(controller, route, IF Parents(route) = {} THEN Places(route.params) ELSE <<>>)
Key(controller, route) ==
  KeyOf(controller, route,
        Places(IF Parents(route) = {} THEN route.params
               ELSE LET p == CHOOSE i \in Parents(route) : TRUE
                    IN SubSeq(route.params, p + 1, Len(route.params))))

Controller == program[at]
Route == Controller.routes[Len(handlers) + 1]
Routing == /\ phase = "routing" /\ at <= Len(program)
           /\ Len(handlers) < Len(Controller.routes)

Taken == \E i \in 1..Len(handlers) :
           /\ handlers[i].key = Key(Controller, Route)
           /\ handlers[i].route.method = Route.method

Register == /\ Routing
            /\ Tested(Route) /\ ParamsTested(Route) /\ ~Taken
            /\ handlers' = Append(handlers, [key |-> Key(Controller, Route),
                                             route |-> Route, service |-> at])
            /\ UNCHANGED <<program, phase, at, layers, request, taker>>

\* The constructor throws, and with it Saphira.route and listen().
Throw == /\ Routing
         /\ ~(Tested(Route) /\ ParamsTested(Route) /\ ~Taken)
         /\ phase' = "rejected"
         /\ UNCHANGED <<program, at, handlers, layers, request, taker>>

(* Saphira.route, for one constructed controller: its paths in the order     *)
(* each was first registered, for whatever verb, and the verbs of each path. *)
First(i) == CHOOSE j \in 1..i :
              /\ handlers[j].key = handlers[i].key
              /\ \A k \in 1..(j - 1) : handlers[k].key # handlers[i].key
Before(i, j) == First(i) < First(j) \/ (First(i) = First(j) /\ i < j)

Constructed == /\ phase = "routing" /\ at <= Len(program)
               /\ Len(handlers) = Len(Controller.routes)
UnmountedPaths == {i \in 1..Len(handlers) :
                     \A l \in 1..Len(layers) : layers[l].key # handlers[i].key}
Unmounted == {i \in 1..Len(handlers) :
                \A l \in 1..Len(layers) : layers[l] # handlers[i]}

Mount == /\ Constructed
         /\ \E i \in Unmounted :
              /\ \A j \in Unmounted \ {i} : Before(i, j)
              /\ layers' = Append(layers, handlers[i])
         /\ UNCHANGED <<program, phase, at, handlers, request, taker>>

NextControllerButOne == /\ Constructed /\ Unmounted = {}
                        /\ at' = at + 2 /\ handlers' = <<>>
                        /\ UNCHANGED <<program, phase, layers, request, taker>>
NextController == /\ Constructed /\ Unmounted = {}
                  /\ at' = at + 1 /\ handlers' = <<>>
                  /\ UNCHANGED <<program, phase, layers, request, taker>>

-------------------------------------------------------------------------------
(* Requests: Express asks one layer after the other.                        *)

Receive == /\ phase = "routing" /\ at > Len(program)
           /\ request' \in Requests
           /\ phase' = "asking" /\ at' = 1
           /\ UNCHANGED <<program, handlers, layers, taker>>

IsPlace(segment) == "param" \in DOMAIN segment
Matches(layer) ==
  /\ \/ layer.route.method = request.method
     \/ layer.route.method = "get" /\ request.method = "head"
  /\ Len(layer.key) = Len(request.path)
  /\ \A k \in 1..Len(layer.key) :
       ~IsPlace(layer.key[k]) => layer.key[k].word = request.path[k].word

\* What Controller.getValue reads for the i-th parameter, if it is in the path.
Segments(layer, i) ==
  {k \in 1..Len(layer.key) : layer.key[k] = Place(layer.route.params[i])}

Asking == phase = "asking" /\ at <= Len(layers)
Layer == layers[at]

\* The names to ignore were put in lower case when the route was registered.
IgnoresAsDeclared(layer, i) ==
  \E k \in Segments(layer, i) :
    Lower(request.path[k]) \in layer.route.params[i].ignore
Ignores(layer, i) ==
  \E k \in Segments(layer, i) :
    Lower(request.path[k]) \in {Lower(n) : n \in layer.route.params[i].ignore}

Skip == /\ Asking /\ ~Matches(Layer)
        /\ at' = at + 1
        /\ UNCHANGED <<program, phase, handlers, layers, request, taker>>

\* Controller.call meets a value to ignore before it refuses another one.
PassOn == /\ Asking /\ Matches(Layer)
          /\ \E i \in 1..Len(Layer.route.params) : Ignores(Layer, i)
          /\ at' = at + 1
          /\ UNCHANGED <<program, phase, handlers, layers, request, taker>>

Take(how) == /\ taker' = [layer |-> at, how |-> how]
             /\ phase' = "done"
             /\ UNCHANGED <<program, at, handlers, layers, request>>

\* A value is missing or of another type, and none before it is to be ignored.
Refuse == /\ Asking /\ Matches(Layer)
          /\ \/ Layer.route.payload # "none"
             \/ \E i \in 1..Len(Layer.route.params) :
                  \A j \in 1..i : ~Ignores(Layer, j)
          /\ Take("refused")

Act == /\ Asking /\ Matches(Layer)
       /\ \A i \in 1..Len(Layer.route.params) :
            LET param == Layer.route.params[i] IN
              /\ ~Ignores(Layer, i)
              /\ param.kind # "other" /\ param.required => Segments(Layer, i) # {}
       /\ Take("acted")

NotFound == /\ phase = "asking" /\ at > Len(layers)
            /\ taker' = [layer |-> 0, how |-> "notfound"]
            /\ phase' = "done"
            /\ UNCHANGED <<program, at, handlers, layers, request>>

Next == Register \/ Throw \/ Mount \/ NextController \/ Receive
          \/ Skip \/ PassOn \/ Refuse \/ Act \/ NotFound

Spec == Init /\ [][Next]_vars

-------------------------------------------------------------------------------
TypeOK ==
  /\ program \in Seq(Controllers)
  /\ phase \in {"routing", "rejected", "asking", "done"}
  /\ at \in 1..(Len(program) + Len(layers) + 1)
  /\ \A i \in 1..Len(handlers) :
       /\ handlers[i].route \in Routes
       /\ handlers[i].key \in Seq(Names \cup [param : STRING])
  /\ request \in Requests \cup {NoRequest}
  /\ taker.layer \in 0..Len(layers)

(* 'operation name should not collide with path parameter': the operation   *)
(* that a request names takes it, however the request spells the name, when *)
(* every layer before it that matches declares that name, in any spelling,  *)
(* among those its first parameter ignores.                                 *)
NamesWhole(layer) == \A k \in 1..Len(layer.key) : ~IsPlace(layer.key[k])
Declares(layer) ==
  /\ layer.route.params # <<>>
  /\ \E k \in Segments(layer, 1) : \E name \in layer.route.params[1].ignore :
       name.word = request.path[k].word

OperationsReached ==
  phase = "done" =>
    \A l \in 1..Len(layers) :
      /\ Matches(layers[l]) /\ NamesWhole(layers[l])
      /\ \A j \in 1..(l - 1) : Matches(layers[j]) => Declares(layers[j])
      => taker.layer = l

(* An action that runs finds each parameter of its route's path in the path *)
(* of the request, but for those that a parent parameter after them dropped. *)
PathParamsBound ==
  taker.how = "acted" =>
    LET layer == layers[taker.layer] IN
      \A i \in 1..Len(layer.route.params) :
        /\ layer.route.params[i].kind # "other"
        /\ \A j \in Parents(layer.route) : j <= i
        => Segments(layer, i) # {}

\* The layer of the r-th route of the c-th controller, and layers that a
\* controller tells apart.
Made(c, r) == [key |-> Key(program[c], program[c].routes[r]),
               route |-> program[c].routes[r], service |-> c]
Apart(layer, other) == layer.key # other.key \/ layer.route.method # other.route.method

(* Every route that is declared becomes a layer, and only one, although its  *)
(* controller files it by path and verb and Saphira.route mounts them in     *)
(* another order: no route hides another of its controller, and none goes    *)
(* before those of the controllers before.                                   *)
RoutesMounted ==
  phase \in {"asking", "done"} =>
    /\ \A c \in 1..Len(program) : \A r \in 1..Len(program[c].routes) :
         \E l \in 1..Len(layers) : layers[l] = Made(c, r)
    /\ \A l, m \in 1..Len(layers) : l < m =>
         \/ layers[l].service < layers[m].service
         \/ layers[l].service = layers[m].service /\ Apart(layers[l], layers[m])
===============================================================================
