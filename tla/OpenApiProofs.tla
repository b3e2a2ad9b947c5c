---------------------------- MODULE OpenApiProofs ----------------------------
(***************************************************************************)
(* The document and the router agree, for any programs and requests.       *)
(***************************************************************************)
EXTENDS RoutingProofs

\* What is known of a layer whatever its route's parameters are.
OfProgram(controllers, layer) ==
  /\ \E S : layer.key \in Seq(S)
  /\ Len(layer.key) > 0
  /\ \E c \in 1..Len(controllers) : layer.key[1] = controllers[c].api
  /\ \E c \in 1..Len(controllers) : \E r \in 1..Len(controllers[c].routes) :
       layer.route = controllers[c].routes[r]
  /\ layer.route.payload # "none" => layer.route.method \in {"post", "put"}

OfProgramInv ==
  /\ program \in Programs
  /\ \A i \in 1..Len(handlers) : OfProgram(program, handlers[i])
  /\ \A l \in 1..Len(layers) : OfProgram(program, layers[l])

\* The first of the largest among the first n places of one object.
Greatest(object, size, n, l, m) ==
  /\ m \in 1..n /\ object[l] = object[m]
  /\ \A k \in 1..n : object[l] = object[k] =>
       size[k] < size[m] \/ (size[k] = size[m] /\ m <= k)

\* An object that is routed has a longest path, the first of those.
Objects(routed) == [l \in 1..Len(routed) |-> routed[l].route.object]
Sizes(routed) == [l \in 1..Len(routed) |-> Len(routed[l].key)]
LongestInv ==
  \A l \in 1..Len(layers) : \E m \in 1..Len(layers) :
    Greatest(Objects(layers), Sizes(layers), Len(layers), l, m)

\* The document is written once, of the layers that serve.
DocumentInv ==
  /\ \/ document = Unwritten
     \/ document = [written |-> TRUE, paths |-> Paths] /\ (phase = "routing" => at > Len(program))
  /\ phase \in {"asking", "done"} => document # Unwritten

TakenInv ==
  taker.layer # 0 => /\ phase = "done" /\ taker.layer = at /\ at \in 1..Len(layers)
                     /\ taker.how \in {"refused", "acted"}

-------------------------------------------------------------------------------
LEMMA RegisterOfProgram ==
  ASSUME LayersInv, OfProgramInv, Register
  PROVE  OfProgramInv'
<1>1. at \in 1..Len(program) /\ Len(handlers) + 1 \in 1..Len(Controller.routes)
  <2>1. Controller \in Controllers
    BY DEF LayersInv, Register, Routing, Controller
  <2> QED BY <2>1 DEF LayersInv, Register, Routing, Controllers
<1>2. Controller \in Controllers /\ Route \in Routes
  <2>1. Controller \in Controllers
    BY <1>1 DEF LayersInv, Controller
  <2> QED BY <1>1, <2>1 DEF Route, Controllers
<1> DEFINE new == [key |-> Key(Controller, Route), route |-> Route, service |-> at]
<1>3. OfProgram(program, new)
  <2>1. (\E S : new.key \in Seq(S)) /\ Len(new.key) > 0 /\ new.key[1] = program[at].api
    <3>1. OneParent(Route)
      BY DEF Register, ParamsTested, OneParent
    <3> QED BY <1>2, <3>1, KeyIs DEF Controller
  <2>2. new.route = program[at].routes[Len(handlers) + 1]
        /\ Len(handlers) + 1 \in 1..Len(program[at].routes)
    BY <1>1 DEF Route, Controller
  <2>3. new.route.payload # "none" => new.route.method \in {"post", "put"}
    BY DEF Register, Tested
  <2> QED BY <1>1, <2>1, <2>2, <2>3 DEF OfProgram
<1>4. handlers' = Append(handlers, new) /\ UNCHANGED <<program, layers>>
  BY DEF Register
<1>5. handlers \in Seq(Registered)
  BY DEF LayersInv
<1>6. \A i \in 1..Len(handlers') : handlers'[i] = new \/
        (i \in 1..Len(handlers) /\ handlers'[i] = handlers[i])
  <2> HIDE DEF new
  <2> QED BY <1>4, <1>5
<1> HIDE DEF new
<1> QED BY <1>3, <1>4, <1>6 DEF OfProgramInv

LEMMA OfProgramNext == LayersInv /\ OfProgramInv /\ [DocNext]_docVars => OfProgramInv'
<1> SUFFICES ASSUME LayersInv, OfProgramInv, [DocNext]_docVars PROVE OfProgramInv'
  OBVIOUS
<1>1. CASE Register
  BY <1>1, RegisterOfProgram
<1>2. CASE Mount
  <2>1. PICK i \in Unmounted : layers' = Append(layers, handlers[i])
    BY <1>2 DEF Mount
  <2>2. UNCHANGED <<program, handlers>> /\ i \in 1..Len(handlers)
    BY <1>2, <2>1 DEF Mount, Unmounted
  <2>3. layers \in Seq(Registered)
    BY DEF LayersInv
  <2>4. \A l \in 1..Len(layers') : layers'[l] = handlers[i] \/
          (l \in 1..Len(layers) /\ layers'[l] = layers[l])
    BY <2>1, <2>3
  <2> QED BY <2>2, <2>4 DEF OfProgramInv
<1>3. CASE NextController
  BY <1>3 DEF NextController, OfProgramInv
<1>4. CASE UNCHANGED <<program, handlers, layers>>
  BY <1>4 DEF OfProgramInv
<1>5. UNCHANGED <<program, handlers, layers>> \/ Register \/ Mount \/ NextController
  BY DEF DocNext, docVars, Describe, DescribeNothing, vars, Throw, Receive, Skip, PassOn, Refuse,
         Act, Take, NotFound
<1> QED BY <1>1, <1>2, <1>3, <1>4, <1>5

\* One place more has a greatest of its object, be it itself, and may be another's.
LEMMA GreatestOfMore ==
  ASSUME NEW n \in Nat, NEW new \in Nat, new = n + 1,
         NEW object, NEW size \in [1..new -> Nat],
         \A l \in 1..n : \E m \in 1..n : Greatest(object, size, n, l, m)
  PROVE  \A l \in 1..new : \E m \in 1..new : Greatest(object, size, new, l, m)
<1>3. /\ new \in Nat /\ new \in 1..new /\ \A k \in 1..n : k \in 1..new
      /\ \A k \in 1..new : size[k] \in Nat /\ k <= new /\ (k \in 1..n \/ k = new)
  OBVIOUS
<1>1. ASSUME NEW l \in 1..n PROVE \E m \in 1..new : Greatest(object, size, new, l, m)
  <2>1. PICK m \in 1..n : Greatest(object, size, n, l, m)
    OBVIOUS
  <2>4. m \in 1..new /\ m \in Nat /\ size[m] \in Nat /\ size[new] \in Nat
    BY <1>3
  <2>2. CASE object[l] = object[new] /\ size[new] > size[m]
    <3>1. Greatest(object, size, new, l, new)
      <4>1. ASSUME NEW k \in 1..new, object[l] = object[k]
            PROVE  size[k] < size[new] \/ (size[k] = size[new] /\ new <= k)
        <5>1. CASE k \in 1..n
          <6>1. size[k] \in Nat
            BY <1>3
          <6>2. size[k] < size[m] \/ size[k] = size[m]
            BY <2>1, <4>1, <5>1 DEF Greatest
          <6>3. size[new] > size[m]
            BY <2>2
          <6>4. size[k] < size[new]
            BY <2>4, <6>1, <6>2, <6>3
          <6> QED BY <6>4
        <5>2. CASE k = new
          BY <1>3, <5>2
        <5> QED BY <1>3, <5>1, <5>2
      <4> QED BY <1>3, <2>2, <4>1 DEF Greatest
    <3> QED BY <1>3, <3>1
  <2>3. CASE ~(object[l] = object[new] /\ size[new] > size[m])
    <3>1. Greatest(object, size, new, l, m)
      <4>1. ASSUME NEW k \in 1..new, object[l] = object[k]
            PROVE  size[k] < size[m] \/ (size[k] = size[m] /\ m <= k)
        <5>1. CASE k \in 1..n
          BY <2>1, <4>1, <5>1 DEF Greatest
        <5>2. CASE k = new
          <6>1. object[l] = object[new] /\ ~(size[new] > size[m])
            BY <2>3, <4>1, <5>2
          <6> QED BY <1>3, <2>4, <5>2, <6>1
        <5> QED BY <1>3, <5>1, <5>2
      <4> QED BY <2>1, <2>4, <4>1 DEF Greatest
    <3> QED BY <1>3, <3>1
  <2> QED BY <2>2, <2>3
<1>2. \E m \in 1..new : Greatest(object, size, new, new, m)
  <2>1. CASE \E l \in 1..n : object[l] = object[new]
    <3>1. PICK l \in 1..n : object[l] = object[new]
      BY <2>1
    <3>2. PICK m \in 1..new : Greatest(object, size, new, l, m)
      BY <1>1
    <3>3. Greatest(object, size, new, new, m)
      BY <3>1, <3>2 DEF Greatest
    <3> QED BY <3>3
  <2>2. CASE \A l \in 1..n : object[l] # object[new]
    <3>1. Greatest(object, size, new, new, new)
      BY <1>3, <2>2 DEF Greatest
    <3> QED BY <1>3, <3>1
  <2> QED BY <2>1, <2>2
<1> QED BY <1>1, <1>2, <1>3

LEMMA LongestNext ==
  ASSUME LayersInv, OfProgramInv', LongestInv, [DocNext]_docVars
  PROVE  LongestInv'
<1>1. CASE Mount
  <2> DEFINE n == Len(layers)  new == Len(layers')
             object == Objects(layers')  size == Sizes(layers')
  <2>1. PICK i \in Unmounted : layers' = Append(layers, handlers[i])
    BY <1>1 DEF Mount
  <2>2. layers \in Seq(Registered)
    BY DEF LayersInv
  <2>3. n \in Nat /\ new \in Nat /\ new = n + 1 /\ \A l \in 1..n : layers'[l] = layers[l]
    BY <2>1, <2>2
  <2>4. size \in [1..new -> Nat]
    <3>1. ASSUME NEW l \in 1..new PROVE Len(layers'[l].key) \in Nat
      BY DEF OfProgramInv, OfProgram
    <3> QED BY <3>1 DEF Sizes
  <2>5. ASSUME NEW l \in 1..n PROVE \E m \in 1..n : Greatest(object, size, n, l, m)
    <3>1. PICK m \in 1..n : Greatest(Objects(layers), Sizes(layers), n, l, m)
      BY DEF LongestInv
    <3>2. \A k \in 1..n : object[k] = Objects(layers)[k] /\ size[k] = Sizes(layers)[k]
      BY <2>3 DEF Objects, Sizes
    <3>3. Greatest(object, size, n, l, m)
      BY <3>1, <3>2 DEF Greatest
    <3> QED BY <3>3
  <2> HIDE DEF n, new, object, size
  <2>6. \A l \in 1..new : \E m \in 1..new : Greatest(object, size, new, l, m)
    BY <2>3, <2>4, <2>5, GreatestOfMore
  <2> QED BY <2>6 DEF LongestInv, new, object, size
<1>2. CASE UNCHANGED layers
  BY <1>2 DEF LongestInv
<1>3. Mount \/ UNCHANGED layers
  BY DEF DocNext, docVars, Describe, DescribeNothing, vars, Register, NextController, Throw,
         Receive, Skip, PassOn, Refuse, Act, Take, NotFound
<1> QED BY <1>1, <1>2, <1>3

-------------------------------------------------------------------------------
LEMMA SamePaths ==
  ASSUME UNCHANGED layers
  PROVE  Paths' = Paths
  BY DEF Paths, Described, Operation, Path, Shorter, FullestKey, BasePath, Longest, Same

\* A document is there from before the first request, and is not written twice.
LEMMA DocumentNext ==
  ASSUME LayersInv, DocumentInv, [DocNext]_docVars
  PROVE  DocumentInv'
<1>1. CASE Describe
  <2>1. UNCHANGED <<layers, phase, at, program>> /\ phase = "routing" /\ at > Len(program)
    BY <1>1 DEF Describe, Mounted, vars
  <2>2. document' = [written |-> TRUE, paths |-> Paths']
    BY <1>1, <2>1, SamePaths DEF Describe
  <2> QED BY <2>1, <2>2 DEF DocumentInv
<1>2. CASE document' = document /\ (Register \/ Throw \/ Mount \/ NextController)
  <2>1. phase = "routing" /\ at <= Len(program) /\ phase' \notin {"asking", "done"}
    BY <1>2 DEF Register, Throw, Routing, Mount, NextController, Constructed
  <2>2. at \in Nat /\ Len(program) \in Nat
    BY DEF LayersInv
  <2>3. document = Unwritten
    BY <2>1, <2>2 DEF DocumentInv
  <2> QED BY <1>2, <2>1, <2>3 DEF DocumentInv
<1>3. CASE /\ UNCHANGED <<document, layers, program>> /\ phase' \in {"asking", "done"}
           /\ document # Unwritten \/ phase \in {"asking", "done"}
  BY <1>3, SamePaths DEF DocumentInv
<1>4. CASE DescribeNothing
  BY <1>4 DEF DescribeNothing, Mounted, DocumentInv
<1>5. CASE UNCHANGED docVars
  BY <1>5, SamePaths DEF docVars, DocumentInv
<1> QED
  <2>1. CASE document' = document /\ (Skip \/ PassOn \/ Refuse \/ Act \/ NotFound)
    <3>1. /\ UNCHANGED <<document, layers, program>> /\ phase' \in {"asking", "done"}
          /\ phase \in {"asking", "done"}
      BY <2>1 DEF Skip, PassOn, Refuse, Act, Take, NotFound, Asking
    <3> QED BY <3>1, <1>3
  <2>2. CASE document # Unwritten /\ document' = document /\ Receive
    BY <2>2, <1>3 DEF Receive
  <2> QED BY <1>1, <1>2, <1>4, <1>5, <2>1, <2>2 DEF DocNext

\* Only the layer that is asked takes the request.
LEMMA TakenNext ==
  ASSUME LayersInv, TakenInv, [DocNext]_docVars
  PROVE  TakenInv'
<1>1. CASE Refuse \/ Act
  <2>1. taker' \in {[layer |-> at, how |-> "refused"], [layer |-> at, how |-> "acted"]}
        /\ phase' = "done" /\ at' = at /\ layers' = layers /\ at \in 1..Len(layers)
    BY <1>1 DEF Refuse, Act, Take, Asking, LayersInv
  <2> QED BY <2>1 DEF TakenInv
<1>2. CASE NotFound
  BY <1>2 DEF NotFound, TakenInv
<1>3. CASE phase # "done" /\ taker' = taker
  BY <1>3 DEF TakenInv
<1>4. CASE UNCHANGED <<phase, at, layers, taker>>
  BY <1>4 DEF TakenInv
<1> QED
  <2>1. \/ Refuse \/ Act \/ NotFound
        \/ phase # "done" /\ taker' = taker
        \/ UNCHANGED <<phase, at, layers, taker>>
    BY DEF DocNext, docVars, Describe, DescribeNothing, Mounted, vars, Register, Routing,
           NextController, Mount, Constructed, Throw, Receive, Skip, PassOn, Asking
  <2> QED BY <2>1, <1>1, <1>2, <1>3, <1>4

DocInv == RouteInv /\ OfProgramInv /\ LongestInv /\ DocumentInv /\ TakenInv

LEMMA DocInitially == DocInit => DocInv
<1> SUFFICES ASSUME DocInit PROVE DocInv
  OBVIOUS
<1>1. RouteInv
  BY RouteInitially DEF DocInit
<1>2. handlers = <<>> /\ layers = <<>> /\ program \in Programs
      /\ phase = "routing" /\ document = Unwritten /\ taker.layer = 0
  BY DEF DocInit, Init, Nobody
<1> QED BY <1>1, <1>2 DEF DocInv, OfProgramInv, LongestInv, DocumentInv, TakenInv

LEMMA DocStep == DocInv /\ [DocNext]_docVars => DocInv'
<1> SUFFICES ASSUME DocInv, [DocNext]_docVars PROVE DocInv'
  OBVIOUS
<1>1. LayersInv /\ RouteInv'
  BY DescribedNext DEF DocInv, RouteInv
<1>2. OfProgramInv'
  BY <1>1, OfProgramNext DEF DocInv
<1>3. LongestInv' /\ DocumentInv' /\ TakenInv'
  BY <1>1, <1>2, LongestNext, DocumentNext, TakenNext DEF DocInv
<1> QED BY <1>1, <1>2, <1>3 DEF DocInv

-------------------------------------------------------------------------------
LEMMA LayerTyped ==
  ASSUME LayersInv, NEW l \in 1..Len(layers)
  PROVE  /\ layers[l].route \in Routes
         /\ layers[l].route.method \in Methods /\ layers[l].route.response \in Responses
<1>1. layers[l] \in Registered
  BY DEF LayersInv
<1> QED BY <1>1 DEF Registered, Accepted, Routes

\* An object has one verb and one list of parameters, wherever it is routed.
LEMMA SameMethod ==
  ASSUME OfProgramInv, LayersInv,
         NEW l \in 1..Len(layers), NEW m \in 1..Len(layers), Same(l, m)
  PROVE  /\ layers[l].route.method = layers[m].route.method
         /\ layers[l].route.params = layers[m].route.params
<1>1. PICK c \in 1..Len(program) : \E r \in 1..Len(program[c].routes) :
        layers[l].route = program[c].routes[r]
  BY DEF OfProgramInv, OfProgram
<1>2. PICK d \in 1..Len(program) : \E q \in 1..Len(program[d].routes) :
        layers[m].route = program[d].routes[q]
  BY DEF OfProgramInv, OfProgram
<1>3. [layers[l].route EXCEPT !.path = layers[m].route.path] = layers[m].route
  <2>1. PICK r \in 1..Len(program[c].routes) : layers[l].route = program[c].routes[r]
    BY <1>1
  <2>2. PICK q \in 1..Len(program[d].routes) : layers[m].route = program[d].routes[q]
    BY <1>2
  <2>3. program[c].routes[r].object = program[d].routes[q].object
    BY <2>1, <2>2 DEF Same
  <2>4. OneObject(program[c].routes[r], program[d].routes[q])
    BY RoutingAssumption, Zenon DEF OfProgramInv
  <2>5. [program[c].routes[r] EXCEPT !.path = program[d].routes[q].path] = program[d].routes[q]
    BY <2>3, <2>4 DEF OneObject
  <2> QED BY <2>1, <2>2, <2>5
<1>4. layers[l].route \in Routes /\ layers[m].route \in Routes
  BY LayerTyped
<1> QED BY <1>3, <1>4 DEF Routes

LEMMA LongestIs ==
  ASSUME LongestInv, NEW l \in 1..Len(layers)
  PROVE  Longest(l) \in 1..Len(layers) /\ Same(l, Longest(l))
<1> DEFINE Is(m) == /\ Same(l, m)
                    /\ \A n \in 1..Len(layers) : Same(l, n) =>
                         \/ Len(layers[n].key) < Len(layers[m].key)
                         \/ Len(layers[n].key) = Len(layers[m].key) /\ m <= n
<1>1. PICK m \in 1..Len(layers) : Greatest(Objects(layers), Sizes(layers), Len(layers), l, m)
  BY DEF LongestInv
<1>2. Is(m)
  BY <1>1 DEF Greatest, Objects, Sizes, Same
<1>3. Longest(l) = CHOOSE n \in 1..Len(layers) : Is(n)
  BY DEF Longest
<1> HIDE DEF Is
<1>4. Longest(l) \in 1..Len(layers) /\ Is(Longest(l))
  BY <1>2, <1>3
<1> QED BY <1>4 DEF Is

\* Under one prefix, a key is that prefix and a path, and the prefix is a name.
LEMMA KeyPlain ==
  ASSUME DocInv, Plain, NEW l \in 1..Len(layers)
  PROVE  LET key == layers[l].key IN
           /\ \E S : key \in Seq(S)
           /\ Len(key) > 0 /\ key[1] = program[1].api
           /\ key[1].word = "api" /\ ~IsPlace(key[1])
<1>1. PICK c \in 1..Len(program) : layers[l].key[1] = program[c].api
  BY DEF DocInv, OfProgramInv, OfProgram
<1>2. program \in Seq(Controllers)
  BY DEF DocInv, RouteInv, LayersInv
<1>3. 1 \in 1..Len(program) /\ program[c] \in Controllers
  BY <1>1, <1>2
<1>4. program[c].api = program[1].api /\ program[c].api.word = "api"
  BY <1>3 DEF Plain
<1>5. program[c].api \in [word : STRING, caps : SUBSET Letters]
  BY <1>3 DEF Controllers, Names
<1>6. ~IsPlace(program[c].api)
  BY <1>5 DEF IsPlace
<1> QED BY <1>1, <1>4, <1>6 DEF DocInv, OfProgramInv, OfProgram

LEMMA PathPlain ==
  ASSUME DocInv, Plain, NEW l \in 1..Len(layers)
  PROVE  Path(l) = Tail(FullestKey(l))
<1>1. 1 \in 1..Len(layers)
  BY DEF DocInv, RouteInv, LayersInv
<1>2. Longest(l) \in 1..Len(layers) /\ Longest(1) \in 1..Len(layers)
  BY <1>1, LongestIs DEF DocInv
<1>3. FullestKey(l)[1].word = "api" /\ FullestKey(1)[1].word = "api"
  BY <1>2, KeyPlain DEF FullestKey
<1> QED BY <1>3 DEF Path, BasePath

\* No two handlers are described under one operation.
LEMMA OneOperation ==
  ASSUME DocInv, Plain, NEW l \in Described, NEW m \in Described,
         Operation(l) = Operation(m)
  PROVE  l = m
<1>1. l \in 1..Len(layers) /\ m \in 1..Len(layers) /\ Len(layers) \in Nat
  BY DEF Described, DocInv, RouteInv, LayersInv
<1> DEFINE ll == Longest(l)  mm == Longest(m)
<1>2. ll \in 1..Len(layers) /\ mm \in 1..Len(layers) /\ Same(l, ll) /\ Same(m, mm)
  BY <1>1, LongestIs DEF DocInv
<1>3. Tail(layers[ll].key) = Tail(layers[mm].key)
      /\ layers[l].route.method = layers[m].route.method
  BY <1>1, PathPlain DEF Operation, FullestKey
<1>4. layers[ll].route.method = layers[mm].route.method
  BY <1>1, <1>2, <1>3, SameMethod DEF DocInv, RouteInv
<1>5. layers[ll].key = layers[mm].key
  <2> DEFINE one == layers[ll].key  other == layers[mm].key
  <2>1. PICK S : one \in Seq(S)
    BY <1>2, KeyPlain
  <2>2. PICK T : other \in Seq(T)
    BY <1>2, KeyPlain
  <2>3. Len(one) > 0 /\ Len(other) > 0 /\ one[1] = other[1] /\ Tail(one) = Tail(other)
    BY <1>2, <1>3, KeyPlain
  <2> HIDE DEF one, other
  <2>4. Len(one) = Len(other)
    BY <2>1, <2>2, <2>3
  <2>5. ASSUME NEW k \in 1..Len(one) PROVE one[k] = other[k]
    <3>1. CASE k = 1
      BY <3>1, <2>3
    <3>2. CASE k # 1
      <4>1. Tail(one)[k - 1] = one[k] /\ Tail(other)[k - 1] = other[k]
        BY <2>1, <2>2, <2>4, <3>2
      <4> QED BY <4>1, <2>3
    <3> QED BY <3>1, <3>2
  <2>6. one = other
    BY <2>1, <2>2, <2>4, <2>5
  <2> QED BY <2>6 DEF one, other
<1>6. ll = mm
  BY <1>2, <1>4, <1>5 DEF Plain
<1>7. Same(l, m)
  BY <1>2, <1>6 DEF Same
<1>8. ~(l < m) /\ ~(m < l)
  BY <1>1, <1>7 DEF Described, Same
<1> QED BY <1>1, <1>8

\* So an operation of the document is the endpoint of the handler it is made of.
LEMMA PathsPlain ==
  ASSUME DocInv, Plain, NEW l \in Described
  PROVE  Operation(l) \in DOMAIN Paths /\ Paths[Operation(l)] = Endpoint(layers[l].route)
<1> DEFINE Last(k) == Operation(k) = Operation(l)
                      /\ \A m \in Described : Operation(m) = Operation(l) => m <= k
<1>1. l \in Nat
  BY DEF Described
<1>2. Last(l)
  BY <1>1, OneOperation
<1>3. ASSUME NEW k \in Described, Last(k) PROVE k = l
  BY <1>3, OneOperation
<1>4. (CHOOSE k \in Described : Last(k)) = l
  BY <1>2, <1>3
<1>5. Operation(l) \in DOMAIN Paths
  BY DEF Paths
<1>6. Paths[Operation(l)] = Endpoint(layers[CHOOSE k \in Described : Last(k)].route)
  BY DEF Paths
<1> QED BY <1>4, <1>5, <1>6

-------------------------------------------------------------------------------
LEMMA EndpointReads ==
  ASSUME NEW route \in Routes, route.method \notin {"options", "trace"},
         route.payload # "none" => route.method \in {"post", "put"}
  PROVE  LET endpoint == Endpoint(route) IN
           [path |-> endpoint.path, query |-> endpoint.query, body |-> endpoint.body]
             = Reads(route)
<1>1. route.method \in {"get", "head", "delete", "post", "put", "patch"}
  BY DEF Routes, Methods
<1> QED BY <1>1 DEF Endpoint, Reads, Query, HasBody

LEMMA EndpointAnswers ==
  ASSUME NEW l \in 1..Len(layers), LayersInv
  PROVE  {400, Answer(layers[l].route.response)} \subseteq Endpoint(layers[l].route).responses
<1>1. layers[l].route.response \in {"json", "created", "accepted", "modified"}
  BY LayerTyped DEF Responses
<1> QED BY <1>1 DEF Answer, Endpoint, Statuses

LEMMA Served == DocInv => ServedAsDocumented
<1> SUFFICES ASSUME DocInv, Plain, taker.layer # 0, Alone(taker.layer),
                    layers[taker.layer].route.method \notin {"options", "trace"}
             PROVE  LET layer == layers[taker.layer]  route == layer.route IN
                      \E op \in DOMAIN document.paths :
                        LET endpoint == document.paths[op] IN
                          /\ Fits(op) \/ (request.method = "head" /\ route.method = "get")
                          /\ endpoint.object = route.object
                          /\ [path |-> endpoint.path, query |-> endpoint.query,
                              body |-> endpoint.body] = Reads(route)
                          /\ taker.how = "refused" => 400 \in endpoint.responses
                          /\ taker.how = "acted" =>
                               Answer(route.response) \in endpoint.responses
  BY DEF ServedAsDocumented
<1> DEFINE l == taker.layer  route == layers[l].route  op == Operation(l)
           key == layers[l].key
<1>1. phase = "done" /\ l = at /\ l \in 1..Len(layers) /\ taker.how \in {"refused", "acted"}
  BY DEF DocInv, TakenInv
<1>2. LayersInv /\ OfProgram(program, layers[l]) /\ Matches(layers[l])
  <2>1. AskedInv /\ LayersInv /\ Len(layers) \in Nat
    BY DEF DocInv, RouteInv, LayersInv
  <2> QED BY <1>1, <2>1 DEF DocInv, OfProgramInv, AskedInv, Keeps
<1>3. l \in Described
  BY <1>1, <1>2 DEF Described, Alone, LayersInv
<1>4. op \in DOMAIN Paths /\ Paths[op] = Endpoint(route)
  BY <1>3, PathsPlain
<1>5. document.paths = Paths
  BY <1>1 DEF DocInv, DocumentInv
<1>6. op = <<Tail(key), route.method>>
  <2>1. Longest(l) = l
    BY <1>1, LongestIs DEF Alone, DocInv
  <2> QED BY <1>1, <2>1, PathPlain DEF Operation, FullestKey
<1>7. Fits(op) \/ (request.method = "head" /\ route.method = "get")
  <2> SUFFICES ASSUME route.method = request.method PROVE Fits(op)
    BY <1>2 DEF Matches
  <2>1. PICK S : key \in Seq(S)
    BY <1>1, KeyPlain
  <2>2. Len(key) > 0 /\ key[1].word = "api" /\ ~IsPlace(key[1])
    BY <1>1, KeyPlain
  <2>3. Len(key) = Len(request.path)
        /\ \A k \in 1..Len(key) : ~IsPlace(key[k]) => key[k].word = request.path[k].word
    BY <1>2 DEF Matches
  <2>4. op[1] = Tail(key) /\ op[2] = route.method
    BY <1>6
  <2> HIDE DEF key, op
  <2>5. Len(request.path) = Len(Tail(key)) + 1 /\ request.path[1].word = "api"
    BY <2>1, <2>2, <2>3
  <2>6. ASSUME NEW k \in 1..Len(Tail(key))
        PROVE  IsPlace(Tail(key)[k]) \/ Tail(key)[k].word = request.path[k + 1].word
    <3>1. Tail(key)[k] = key[k + 1] /\ k + 1 \in 1..Len(key)
      BY <2>1, <2>2
    <3> QED BY <3>1, <2>3
  <2> QED BY <2>4, <2>5, <2>6 DEF Fits
<1>8. Endpoint(route).object = route.object
  BY DEF Endpoint
<1>9. LET endpoint == Endpoint(route) IN
        [path |-> endpoint.path, query |-> endpoint.query, body |-> endpoint.body] = Reads(route)
  BY <1>1, <1>2, LayerTyped, EndpointReads DEF OfProgram
<1>10. {400, Answer(route.response)} \subseteq Endpoint(route).responses
  BY <1>1, <1>2, EndpointAnswers
<1> HIDE DEF op, route, l
<1> QED BY <1>4, <1>5, <1>7, <1>8, <1>9, <1>10 DEF route, l

(* What a handler serves is documented under an operation of its own, for    *)
(* any controllers under one prefix: parameters agree, and the statuses of   *)
(* results and of refused parameters are listed.                             *)
THEOREM ServedIsDocumented == DocSpec => []ServedAsDocumented
  BY DocInitially, DocStep, Served, PTL DEF DocSpec

LEMMA Documented == DocInv => DocumentedIsServed
<1> SUFFICES ASSUME DocInv, Plain, phase = "done", taker.layer = 0,
                    NEW op \in DOMAIN document.paths, Fits(op),
                    \A l \in 1..Len(layers) : Matches(layers[l]) =>
                      /\ layers[l].route.object = document.paths[op].object
                      /\ \A i \in 1..Len(layers[l].route.params) : ~Ignores(layers[l], i)
             PROVE  FALSE
  BY DEF DocumentedIsServed
<1>1. document.paths = Paths
  BY DEF DocInv, DocumentInv
<1>2. PICK l \in Described : op = Operation(l)
  BY <1>1 DEF Paths
<1>3. l \in 1..Len(layers)
  BY DEF Described
<1> DEFINE n == Longest(l)  key == layers[n].key
<1>4. n \in 1..Len(layers) /\ Same(l, n)
  BY <1>3, LongestIs DEF DocInv
<1>5. op[1] = Tail(key) /\ op[2] = layers[n].route.method
  BY <1>2, <1>3, <1>4, PathPlain, SameMethod DEF Operation, FullestKey, DocInv, RouteInv
<1>6. PICK S : key \in Seq(S)
  BY <1>4, KeyPlain
<1>7. Len(key) > 0 /\ key[1].word = "api"
  BY <1>4, KeyPlain
<1>8. Matches(layers[n])
  <2> HIDE DEF key, n
  <2>1. /\ layers[n].route.method = request.method
        /\ Len(request.path) = Len(Tail(key)) + 1 /\ request.path[1].word = "api"
        /\ \A k \in 1..Len(Tail(key)) :
             IsPlace(Tail(key)[k]) \/ Tail(key)[k].word = request.path[k + 1].word
    BY <1>5 DEF Fits
  <2>2. Len(key) = Len(request.path)
    BY <1>6, <1>7, <2>1
  <2>3. ASSUME NEW k \in 1..Len(key), ~IsPlace(key[k])
        PROVE  key[k].word = request.path[k].word
    <3>1. CASE k = 1
      BY <1>7, <2>1, <3>1
    <3>2. CASE k # 1
      <4>1. k - 1 \in 1..Len(Tail(key)) /\ Tail(key)[k - 1] = key[k] /\ k - 1 + 1 = k
        BY <1>6, <3>2
      <4> QED BY <4>1, <2>1, <2>3
    <3> QED BY <3>1, <3>2
  <2> QED BY <2>1, <2>2, <2>3 DEF Matches, key
<1>9. Passed(n)
  <2>1. AskedInv /\ at \in Nat /\ Len(layers) \in Nat
    BY DEF DocInv, RouteInv, LayersInv
  <2>2. at > Len(layers)
    BY <2>1 DEF AskedInv
  <2> QED BY <1>4, <2>1, <2>2 DEF AskedInv
<1> QED BY <1>4, <1>8, <1>9 DEF Passed

(* What is documented is served: a request that fits an operation reaches    *)
(* its handler, for any controllers under one prefix.                        *)
THEOREM DocumentedServed == DocSpec => []DocumentedIsServed
  BY DocInitially, DocStep, Documented, PTL DEF DocSpec

-------------------------------------------------------------------------------
\* An operation's endpoint is that of the last handler described under it.
LEMMA PathsAre ==
  ASSUME DocInv, NEW op \in DOMAIN Paths
  PROVE  \E l \in Described : Operation(l) = op /\ Paths[op] = Endpoint(layers[l].route)
<1> DEFINE S == {l \in Described : Operation(l) = op}
           Last(l) == Operation(l) = op /\ \A m \in Described : Operation(m) = op => m <= l
<1>1. Len(layers) \in Nat
  BY DEF DocInv, RouteInv, LayersInv
<1>2. S \in SUBSET (1..Len(layers)) /\ S # {}
  BY DEF Paths, Described
<1>3. PICK m \in S : \A k \in S : k <= m
  <2> HIDE DEF S
  <2> QED BY <1>1, <1>2, LastOf
<1>4. m \in Described /\ Last(m)
  BY <1>3
<1>5. Paths[op] = Endpoint(layers[CHOOSE l \in Described : Last(l)].route)
  BY DEF Paths
<1>6. (CHOOSE l \in Described : Last(l)) \in Described /\ Last(CHOOSE l \in Described : Last(l))
  BY <1>4
<1> QED BY <1>5, <1>6

LEMMA RemnantIsNoPlace == \A segment, n : ~IsPlace(Remnant(segment, n))
  BY DEF Remnant, IsPlace

\* What is put before a path occurs there, and nothing else besides.
LEMMA OccursAfter ==
  ASSUME NEW S, NEW rest \in Seq(S), NEW r, NEW x, r # x
  PROVE  Occurs(x, <<r>> \o rest) <=> Occurs(x, rest)
<1> DEFINE all == <<r>> \o rest
<1>1. Len(rest) \in Nat
  OBVIOUS
<1>2. Len(all) = Len(rest) + 1 /\ all[1] = r /\ \A k \in 1..Len(rest) : all[k + 1] = rest[k]
  OBVIOUS
<1> HIDE DEF all
<1>3. ASSUME NEW k \in 1..Len(all), all[k] = x PROVE Occurs(x, rest)
  <2>1. k - 1 \in 1..Len(rest) /\ (k - 1) + 1 = k
    BY <1>1, <1>2, <1>3
  <2> QED BY <1>2, <1>3, <2>1 DEF Occurs
<1>4. ASSUME NEW k \in 1..Len(rest), rest[k] = x PROVE Occurs(x, all)
  <2>1. k + 1 \in 1..Len(all) /\ all[k + 1] = x
    BY <1>1, <1>2, <1>4
  <2> QED BY <2>1 DEF Occurs
<1>5. Occurs(x, all) <=> Occurs(x, rest)
  BY <1>3, <1>4 DEF Occurs
<1> QED BY <1>5 DEF all

\* However many letters are cut off a path, its end brings no new places.
LEMMA CutOffPlaces ==
  ASSUME NEW S, NEW segments \in Seq(S), NEW n, NEW x, IsPlace(x), Occurs(x, CutOff(segments, n))
  PROVE  Occurs(x, segments)
<1> DEFINE End == CHOOSE End : End = [k \in 0..Len(segments) |->
                    IF k = 0 THEN 0 ELSE End[k - 1] + 1 + Len(Text(segments[k]))]
           early == {k \in 1..Len(segments) : End[k - 1] < n}
           first == Cardinality(early)
           whole == SubSeq(segments, first + 1, Len(segments))
           remnant == Remnant(segments[first], n - End[first - 1])
<1>1. CutOff(segments, n) = whole \/ CutOff(segments, n) = <<remnant>> \o whole
  BY DEF CutOff
<1>2. Len(segments) \in Nat
  OBVIOUS
<1>3. first \in Nat
  <2>1. IsFiniteSet(1..Len(segments)) /\ early \in SUBSET (1..Len(segments))
    BY <1>2, FS_Interval
  <2>2. IsFiniteSet(early)
    BY <2>1, FS_Subset
  <2> QED BY <2>2, FS_CardinalityType
<1>4. remnant # x
  BY RemnantIsNoPlace
<1> HIDE DEF End, first, remnant
<1>5. whole \in Seq(S) /\ \A k \in 1..Len(whole) :
        first + k \in 1..Len(segments) /\ whole[k] = segments[first + k]
  BY <1>2, <1>3
<1>6. Occurs(x, whole)
  <2> HIDE DEF whole
  <2> QED BY <1>1, <1>4, <1>5, OccursAfter
<1> HIDE DEF whole
<1> QED BY <1>5, <1>6 DEF Occurs

\* The places of a documented path are some of those of its key, and all of
\* them where no more than the prefix is cut.
LEMMA PathPlaces ==
  ASSUME DocInv, NEW l \in 1..Len(layers), NEW x, IsPlace(x)
  PROVE  /\ Occurs(x, Path(l)) => Occurs(x, FullestKey(l))
         /\ ~Shorter(l) => (Occurs(x, Path(l)) <=> Occurs(x, FullestKey(l)))
<1> DEFINE key == FullestKey(l)  remnant == Remnant(key[1], Len(BasePath) + 1)
           surplus == Len(BasePath) - Len(key[1].word)
<1>1. Longest(l) \in 1..Len(layers)
  BY LongestIs DEF DocInv
<1>2. key \in Seq(Segs)
  BY <1>1, LayerRegistered DEF FullestKey, DocInv, RouteInv
<1>3. Len(key) > 0 /\ \E c \in 1..Len(program) : key[1] = program[c].api
  BY <1>1 DEF FullestKey, DocInv, OfProgramInv, OfProgram
<1>4. key[1] # x
  <2>1. program \in Seq(Controllers)
    BY DEF DocInv, RouteInv, LayersInv
  <2>2. \A c \in 1..Len(program) : program[c] \in Controllers
    BY <2>1
  <2>3. \A controller \in Controllers : controller.api \in Names
    BY DEF Controllers
  <2> QED BY <1>3, <2>2, <2>3, NameIsNoPlace
<1>5. remnant # x
  BY RemnantIsNoPlace
<1>6. \/ Path(l) = Tail(key) \/ Path(l) = <<remnant>> \o Tail(key)
      \/ Shorter(l) /\ Path(l) = CutOff(Tail(key), surplus)
  BY DEF Path
<1> HIDE DEF key, remnant, surplus
<1>7. Tail(key) \in Seq(Segs)
  BY <1>2, <1>3
<1>8. Occurs(x, Tail(key)) <=> Occurs(x, key)
  <2>1. Len(Tail(key)) = Len(key) - 1
        /\ \A k \in 1..(Len(key) - 1) : Tail(key)[k] = key[k + 1]
    BY <1>2, <1>3
  <2>2. ASSUME NEW k \in 1..Len(key), key[k] = x PROVE Occurs(x, Tail(key))
    <3>1. k - 1 \in 1..(Len(key) - 1) /\ (k - 1) + 1 = k
      BY <1>2, <1>4, <2>2
    <3> QED BY <2>1, <2>2, <3>1 DEF Occurs
  <2>3. ASSUME NEW k \in 1..Len(Tail(key)), Tail(key)[k] = x PROVE Occurs(x, key)
    <3>1. k + 1 \in 1..Len(key) /\ key[k + 1] = x
      BY <1>2, <2>1, <2>3
    <3> QED BY <3>1 DEF Occurs
  <2> QED BY <2>2, <2>3 DEF Occurs
<1>9. Occurs(x, <<remnant>> \o Tail(key)) <=> Occurs(x, Tail(key))
  BY <1>5, <1>7, OccursAfter
<1>10. Occurs(x, CutOff(Tail(key), surplus)) => Occurs(x, Tail(key))
  BY <1>7, CutOffPlaces
<1> QED BY <1>6, <1>8, <1>9, <1>10 DEF key

LEMMA PlacesDescribed == DocInv => PlaceholdersDeclared
<1> SUFFICES ASSUME DocInv, document # Unwritten, NEW op \in DOMAIN document.paths
             PROVE  LET endpoint == document.paths[op]
                        l == Documenting(endpoint.object)  route == layers[l].route
                    IN /\ Placeholders(op[1]) \subseteq endpoint.path
                       /\ /\ ~Shorter(l)
                          /\ \A j \in Parents(route) :
                               \A i \in 1..j : route.params[i].kind # "path"
                          => Placeholders(op[1]) = endpoint.path
  BY DEF PlaceholdersDeclared
<1>1. document.paths = Paths
  BY DEF DocInv, DocumentInv
<1>2. PICK l \in Described : Operation(l) = op /\ Paths[op] = Endpoint(layers[l].route)
  BY <1>1, PathsAre
<1> DEFINE route == layers[l].route  path == op[1]  params == route.params
<1>3. LayersInv /\ Len(layers) \in Nat /\ l \in 1..Len(layers)
  BY DEF Described, DocInv, RouteInv, LayersInv
<1>4. (CHOOSE m \in Described : layers[m].route.object = Paths[op].object) = l
  <2>1. Paths[op].object = route.object
    BY <1>2 DEF Endpoint
  <2>2. ASSUME NEW m \in Described, layers[m].route.object = route.object PROVE m = l
    <3>1. m \in 1..Len(layers) /\ ~(m < l) /\ ~(l < m)
      BY <1>3, <2>2 DEF Described, Same
    <3> QED BY <1>3, <3>1
  <2> QED BY <2>1, <2>2
<1>5. Paths[op].path = PathNames(route)
  BY <1>2 DEF Endpoint
<1>6. route \in Routes /\ OneParent(route)
  BY <1>3, LayerRegistered
<1>7. Longest(l) \in 1..Len(layers) /\ layers[Longest(l)].route.params = params
  BY <1>3, LongestIs, SameMethod DEF DocInv
<1>8. \A x : IsPlace(x) =>
        /\ Occurs(x, path) => \E i \in Bound(route) : x = Place(params[i])
        /\ ~Shorter(l) => (Occurs(x, path) <=> \E i \in Bound(route) : x = Place(params[i]))
  <2>1. path = Path(l)
    BY <1>2 DEF Operation
  <2>2. Bound(layers[Longest(l)].route) = Bound(route)
    BY <1>7 DEF Bound, Parents
  <2> QED BY <1>3, <1>7, <2>1, <2>2, PathPlaces, LayerRegistered DEF FullestKey
<1>9. Bound(route) \subseteq {i \in 1..Len(params) : params[i].kind \in {"path", "parent"}}
  <2>1. \A i \in 1..Len(params) : params[i].kind \in {"path", "parent", "other"}
    <3> HIDE DEF route
    <3> QED BY <1>6, ParamsTyped
  <2> QED BY <2>1 DEF Bound
<1>10. \A i : IsPlace(Place(params[i])) /\ Place(params[i]).param = params[i].name
  BY DEF IsPlace, Place
<1>11. Placeholders(path) \subseteq PathNames(route)
  <2>1. \A i \in Bound(route) : params[i].name \in PathNames(route)
    BY <1>9 DEF PathNames, Named
  <2> HIDE DEF path, params, route
  <2>2. ASSUME NEW k \in 1..Len(path), IsPlace(path[k]) PROVE path[k].param \in PathNames(route)
    BY <1>8, <1>10, <2>1, <2>2 DEF Occurs
  <2> QED BY <2>2 DEF Placeholders
<1>12. ASSUME ~Shorter(l), \A j \in Parents(route) : \A i \in 1..j : params[i].kind # "path"
       PROVE  PathNames(route) \subseteq Placeholders(path)
  <2>1. {i \in 1..Len(params) : params[i].kind \in {"path", "parent"}} \subseteq Bound(route)
    <3>1. Len(params) \in Nat
      BY <1>6, ParamsTyped
    <3>2. ASSUME NEW i \in 1..Len(params), params[i].kind \in {"path", "parent"},
                 NEW j \in Parents(route)
          PROVE  j <= i
      <4>1. j \in 1..Len(params) /\ params[j].kind = "parent"
        BY DEF Parents
      <4>2. CASE params[i].kind = "parent"
        BY <1>6, <4>1, <4>2, <3>1 DEF OneParent, Parents
      <4>3. CASE params[i].kind = "path"
        BY <1>12, <3>1, <4>1, <4>3
      <4> QED BY <3>2, <4>2, <4>3
    <3> QED BY <3>2 DEF Bound
  <2>2. PathNames(route) \subseteq {params[i].name : i \in Bound(route)}
    BY <2>1 DEF PathNames, Named
  <2> HIDE DEF path, params, route
  <2>3. ASSUME NEW i \in Bound(route)
        PROVE  \E k \in 1..Len(path) : IsPlace(path[k]) /\ path[k].param = params[i].name
    BY <1>8, <1>10, <1>12 DEF Occurs
  <2> QED BY <2>2, <2>3 DEF Placeholders
<1>13. Documenting(Paths[op].object) = l
  BY <1>4 DEF Documenting
<1> HIDE DEF path, params
<1> QED BY <1>1, <1>5, <1>11, <1>12, <1>13 DEF path, params

(* Every placeholder of a documented path is described as a parameter in the *)
(* path, and for any controllers none of whose prefixes is shorter than that *)
(* of the first handler's path every such parameter has its placeholder.     *)
THEOREM PlaceholdersAgree == DocSpec => []PlaceholdersDeclared
  BY DocInitially, DocStep, PlacesDescribed, PTL DEF DocSpec
===============================================================================
