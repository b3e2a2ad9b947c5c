---------------------------- MODULE RoutingProofs ----------------------------
(***************************************************************************)
(* OperationsReached for any programs and requests, also of the router     *)
(* that OpenApi composes with the document.                                *)
(***************************************************************************)
EXTENDS OpenApi, FiniteSetTheorems, TLAPS

-------------------------------------------------------------------------------
(* What a path is made of.                                                  *)

\* The n-th index of a set: how many there are up to each tells them apart.
Nth(S, n) == CHOOSE i \in S : Cardinality(UpTo(S, i)) = n

LEMMA Counted ==
  ASSUME NEW N \in Nat, NEW S \in SUBSET (1..N)
  PROVE  /\ IsFiniteSet(S) /\ Cardinality(S) \in Nat
         /\ \A i \in S : Cardinality(UpTo(S, i)) \in 1..Cardinality(S)
         /\ \A i, j \in S : Cardinality(UpTo(S, i)) = Cardinality(UpTo(S, j)) => i = j
         /\ \A n \in 1..Cardinality(S) : \E i \in S : Cardinality(UpTo(S, i)) = n
<1>1. IsFiniteSet(S) /\ Cardinality(S) \in Nat
  <2>1. IsFiniteSet(1..N)
    BY FS_Interval
  <2>2. IsFiniteSet(S)
    BY <2>1, FS_Subset
  <2> QED BY <2>2, FS_CardinalityType
<1>2. ASSUME NEW i \in S
      PROVE  /\ UpTo(S, i) \in SUBSET S /\ i \in UpTo(S, i) /\ IsFiniteSet(UpTo(S, i))
             /\ Cardinality(UpTo(S, i)) \in 1..Cardinality(S)
  <2>1. UpTo(S, i) \in SUBSET S /\ i \in UpTo(S, i)
    BY DEF UpTo
  <2>2. IsFiniteSet(UpTo(S, i)) /\ Cardinality(UpTo(S, i)) <= Cardinality(S)
    BY <1>1, <2>1, FS_Subset
  <2>3. Cardinality(UpTo(S, i)) \in Nat /\ Cardinality(UpTo(S, i)) # 0
    BY <2>1, <2>2, FS_CardinalityType, FS_EmptySet
  <2> QED BY <1>1, <2>1, <2>2, <2>3
<1>3. ASSUME NEW i \in S, NEW j \in S, i < j
      PROVE  Cardinality(UpTo(S, i)) # Cardinality(UpTo(S, j))
  <2>1. UpTo(S, i) \in SUBSET UpTo(S, j) /\ j \notin UpTo(S, i) /\ j \in UpTo(S, j)
    <3>1. \A k \in S : k \in Nat
      OBVIOUS
    <3>2. i \in Nat /\ j \in Nat /\ ~(j <= i) /\ j <= j
      BY <1>3, <3>1
    <3>3. \A k \in S : k <= i => k <= j
      BY <1>3, <3>1, <3>2
    <3>4. UpTo(S, i) \subseteq UpTo(S, j)
      BY <3>3 DEF UpTo
    <3>5. j \notin UpTo(S, i) /\ j \in UpTo(S, j)
      BY <3>2 DEF UpTo
    <3> QED BY <3>4, <3>5
  <2>2. Cardinality(UpTo(S, j)) = Cardinality(UpTo(S, i)) => UpTo(S, j) = UpTo(S, i)
    BY <1>2, <2>1, FS_Subset
  <2> QED BY <2>1, <2>2
<1>4. \A i, j \in S : Cardinality(UpTo(S, i)) = Cardinality(UpTo(S, j)) => i = j
  BY <1>3
<1> DEFINE count == [i \in S |-> Cardinality(UpTo(S, i))]  T == 1..Cardinality(S)
<1>5. count \in Injection(S, T)
  BY <1>2, <1>4 DEF Injection, IsInjective
<1>6. IsFiniteSet(T) /\ Cardinality(T) = Cardinality(S)
  BY <1>1, FS_Interval
<1>7. count \in Surjection(S, T)
  BY <1>5, <1>6, FS_Injection
<1>8. \A n \in T : \E i \in S : count[i] = n
  BY <1>7 DEF Surjection
<1> QED BY <1>1, <1>2, <1>4, <1>8

LEMMA LastOf ==
  ASSUME NEW N \in Nat, NEW S \in SUBSET (1..N), S # {}
  PROVE  \E m \in S : \A k \in S : k <= m
<1>1. IsFiniteSet(S) /\ Cardinality(S) \in Nat
      /\ \A n \in 1..Cardinality(S) : \E i \in S : Cardinality(UpTo(S, i)) = n
  BY Counted
<1>2. PICK m \in S : Cardinality(UpTo(S, m)) = Cardinality(S)
  <2>1. Cardinality(S) # 0
    BY <1>1, FS_EmptySet
  <2> QED BY <1>1, <2>1
<1>3. UpTo(S, m) \in SUBSET S
  BY DEF UpTo
<1>4. UpTo(S, m) = S
  BY <1>1, <1>2, <1>3, FS_Subset
<1> QED BY <1>4 DEF UpTo

\* An element of a sequence.
Occurs(x, s) == \E k \in 1..Len(s) : s[k] = x

\* Places has a place for each parameter in the path, and no other.
LEMMA PlacesAre ==
  ASSUME NEW params, Len(params) \in Nat
  PROVE  LET here == {Place(params[i]) : i \in PathIndexes(params)} IN
           /\ Places(params) \in Seq(here)
           /\ \A x : Occurs(x, Places(params)) <=> x \in here
<1> DEFINE S == PathIndexes(params)  N == Len(params)
           here == {Place(params[i]) : i \in S}
<1>1. N \in Nat /\ S \in SUBSET (1..N)
  BY DEF PathIndexes
<1>2. Places(params) = [n \in 1..Cardinality(S) |-> Place(params[Nth(S, n)])]
  BY DEF Places, Nth
<1> HIDE DEF S, N
<1>3. /\ Cardinality(S) \in Nat
      /\ \A i \in S : Cardinality(UpTo(S, i)) \in 1..Cardinality(S)
      /\ \A i, j \in S : Cardinality(UpTo(S, i)) = Cardinality(UpTo(S, j)) => i = j
      /\ \A n \in 1..Cardinality(S) : \E i \in S : Cardinality(UpTo(S, i)) = n
  BY <1>1, Counted
<1>4. \A n \in 1..Cardinality(S) : Nth(S, n) \in S
  BY <1>3 DEF Nth
<1>5. \A i \in S : Nth(S, Cardinality(UpTo(S, i))) = i
  BY <1>3 DEF Nth
<1>6. Places(params) \in [1..Cardinality(S) -> here]
  BY <1>2, <1>4
<1>7. Places(params) \in Seq(here) /\ Len(Places(params)) = Cardinality(S)
  BY <1>3, <1>6
<1>8. ASSUME NEW i \in S PROVE Occurs(Place(params[i]), Places(params))
  <2>1. Cardinality(UpTo(S, i)) \in 1..Cardinality(S)
    BY <1>3
  <2>2. Places(params)[Cardinality(UpTo(S, i))] = Place(params[i])
    BY <1>2, <1>5, <2>1
  <2> QED BY <1>7, <2>1, <2>2 DEF Occurs
<1>9. \A x : Occurs(x, Places(params)) => x \in here
  BY <1>6, <1>7 DEF Occurs
<1> QED BY <1>7, <1>8, <1>9 DEF S

\* What occurs in a path occurs in one of its three parts.
LEMMA OccursInThree ==
  ASSUME NEW X, NEW s \in Seq(X), NEW t \in Seq(X), NEW u \in Seq(X), NEW x
  PROVE  Occurs(x, s \o t \o u) <=> Occurs(x, s) \/ Occurs(x, t) \/ Occurs(x, u)
<1>1. ASSUME NEW v \in Seq(X), NEW w \in Seq(X)
      PROVE  Occurs(x, v \o w) <=> Occurs(x, v) \/ Occurs(x, w)
  <2>1. ASSUME NEW k \in 1..Len(v) PROVE k \in 1..Len(v \o w) /\ (v \o w)[k] = v[k]
    OBVIOUS
  <2>2. ASSUME NEW k \in 1..Len(w)
        PROVE  Len(v) + k \in 1..Len(v \o w) /\ (v \o w)[Len(v) + k] = w[k]
    OBVIOUS
  <2>3. ASSUME NEW k \in 1..Len(v \o w)
        PROVE  \/ k \in 1..Len(v) /\ (v \o w)[k] = v[k]
               \/ k - Len(v) \in 1..Len(w) /\ (v \o w)[k] = w[k - Len(v)]
    OBVIOUS
  <2> QED BY <2>1, <2>2, <2>3 DEF Occurs
<1>2. s \o t \in Seq(X)
  OBVIOUS
<1> QED BY <1>1, <1>2

Segs == Names \cup [param : STRING]

\* The parameters in a path that has one parent parameter or none.
OneParent(route) == \A i, j \in Parents(route) : i = j
Bound(route) == {i \in 1..Len(route.params) : /\ route.params[i].kind # "other"
                                              /\ \A j \in Parents(route) : j <= i}

After(route) == Places(IF Parents(route) = {} THEN route.params
                       ELSE LET p == CHOOSE i \in Parents(route) : TRUE
                            IN SubSeq(route.params, p + 1, Len(route.params)))

LEMMA ParamsTyped ==
  ASSUME NEW route \in Routes
  PROVE  /\ Len(route.params) \in Nat /\ route.params \in Seq(Params)
         /\ \A i \in 1..Len(route.params) :
              /\ Place(route.params[i]) \in [param : STRING]
              /\ route.params[i].name \in STRING
              /\ route.params[i].kind \in {"path", "parent", "other"}
<1>1. route.params \in Seq(Params)
  BY DEF Routes
<1>2. \A i \in 1..Len(route.params) : route.params[i] \in Params
  BY <1>1
<1> QED BY <1>1, <1>2 DEF Params, Place

LEMMA AfterIs ==
  ASSUME NEW route \in Routes, OneParent(route)
  PROVE  /\ After(route) \in Seq(Segs)
         /\ \A x : Occurs(x, After(route)) <=>
              \E i \in Bound(route) : /\ route.params[i].kind = "path"
                                      /\ x = Place(route.params[i])
<1> DEFINE params == route.params  N == Len(params)
<1>1. /\ N \in Nat /\ params \in Seq(Params)
      /\ \A i \in 1..N : Place(params[i]) \in Segs
  BY ParamsTyped DEF Segs
<1>2. CASE Parents(route) = {}
  <2> DEFINE here == {Place(params[i]) : i \in PathIndexes(params)}
  <2>1. After(route) = Places(params)
    BY <1>2 DEF After
  <2>2. After(route) \in Seq(here) /\ \A x : Occurs(x, After(route)) <=> x \in here
    BY <1>1, <2>1, PlacesAre
  <2>3. PathIndexes(params) = {i \in Bound(route) : params[i].kind = "path"}
    BY <1>2 DEF PathIndexes, InPath, Bound
  <2>4. here \subseteq Segs
    BY <1>1 DEF PathIndexes
  <2>5. After(route) \in Seq(Segs)
    <3> HIDE DEF here
    <3> QED BY <2>2, <2>4
  <2> QED BY <2>2, <2>3, <2>5
<1>3. CASE Parents(route) # {}
  <2> DEFINE p == CHOOSE i \in Parents(route) : TRUE
             rest == SubSeq(params, p + 1, N)
             here == {Place(rest[i]) : i \in PathIndexes(rest)}
  <2>1. p \in 1..N /\ params[p].kind = "parent" /\ Parents(route) = {p}
    BY <1>3 DEF Parents, OneParent
  <2>2. After(route) = Places(rest)
    BY <1>3 DEF After
  <2> HIDE DEF p
  <2>3. /\ rest \in Seq(Params) /\ Len(rest) = N - p /\ Len(rest) \in Nat
        /\ \A i \in 1..(N - p) : rest[i] = params[p + i]
    BY <1>1, <2>1
  <2> HIDE DEF rest
  <2>4. After(route) \in Seq(here) /\ \A x : Occurs(x, After(route)) <=> x \in here
    BY <2>2, <2>3, PlacesAre
  <2>5. \A i \in 1..(N - p) : p + i \in 1..N
    BY <1>1, <2>1
  <2>6. here \subseteq Segs
    BY <1>1, <2>3, <2>5 DEF PathIndexes
  <2>7. After(route) \in Seq(Segs)
    <3> HIDE DEF here
    <3> QED BY <2>4, <2>6
  <2>8. ASSUME NEW x, x \in here
        PROVE  \E i \in Bound(route) : params[i].kind = "path" /\ x = Place(params[i])
    <3>1. PICK i \in 1..(N - p) : InPath(rest[i]) /\ x = Place(rest[i])
      BY <2>3, <2>8 DEF PathIndexes
    <3>2. p + i \in 1..N /\ rest[i] = params[p + i] /\ p <= p + i
      BY <2>1, <2>3, <2>5
    <3>3. p + i \in Bound(route)
      BY <2>1, <3>1, <3>2 DEF Bound, InPath
    <3> QED BY <3>1, <3>2, <3>3 DEF InPath
  <2>9. ASSUME NEW i \in Bound(route), params[i].kind = "path" PROVE Place(params[i]) \in here
    <3>1. i \in 1..N /\ p <= i /\ i # p
      BY <2>1, <2>9 DEF Bound
    <3>2. i - p \in 1..(N - p) /\ p + (i - p) = i
      BY <1>1, <2>1, <3>1
    <3>3. rest[i - p] = params[i]
      BY <2>3, <3>2
    <3> QED BY <2>3, <2>9, <3>2, <3>3 DEF PathIndexes, InPath
  <2> QED BY <2>4, <2>7, <2>8, <2>9
<1> QED BY <1>2, <1>3

LEMMA KeyHead ==
  ASSUME NEW X, NEW s \in Seq(X), NEW t \in Seq(X), NEW u \in Seq(X), Len(s) > 0
  PROVE  s \o t \o u \in Seq(X) /\ Len(s \o t \o u) > 0 /\ (s \o t \o u)[1] = s[1]
<1>1. s \o t \in Seq(X) /\ Len(s \o t) > 0 /\ (s \o t)[1] = s[1]
  OBVIOUS
<1> QED BY <1>1

LEMMA NameIsNoPlace == \A name \in Names : ~IsPlace(name)
  BY DEF Names, IsPlace

\* A path starts with its controller's prefix, and has a place for each
\* parameter that no parent parameter dropped, and no other.
LEMMA KeyIs ==
  ASSUME NEW controller \in Controllers, NEW route \in Routes, OneParent(route)
  PROVE  LET key == Key(controller, route) IN
           /\ key \in Seq(Segs) /\ Len(key) > 0 /\ key[1] = controller.api
           /\ \A x : IsPlace(x) =>
                (Occurs(x, key) <=> \E i \in Bound(route) : x = Place(route.params[i]))
<1> DEFINE params == route.params
<1>1. /\ After(route) \in Seq(Segs)
      /\ \A x : Occurs(x, After(route)) <=>
           \E i \in Bound(route) : params[i].kind = "path" /\ x = Place(params[i])
  BY AfterIs
<1>2. controller.api \in Names /\ controller.name \in Names /\ route.path \in Seq(Names)
  BY DEF Controllers, Routes
<1>3. \A name \in Names : Decapitalize(name) \in Names
  BY DEF Names, Decapitalize
<1>4. \A i \in Bound(route) : params[i].kind \in {"path", "parent"}
  BY ParamsTyped DEF Bound
<1>5. CASE Parents(route) = {}
  <2> DEFINE names == [i \in 1..Len(route.path) |-> Decapitalize(route.path[i])]
             first == <<controller.api, Decapitalize(controller.name)>>
             key == first \o names \o After(route)
  <2>1. Key(controller, route) = key
    BY <1>5 DEF Key, KeyOf, After
  <2>2. names \in Seq(Names)
    <3>1. Len(route.path) \in Nat /\ \A i \in 1..Len(route.path) : route.path[i] \in Names
      BY <1>2
    <3>2. names \in [1..Len(route.path) -> Names]
      BY <1>3, <3>1
    <3> QED BY <3>1, <3>2
  <2>3. first \in Seq(Names) /\ Len(first) = 2 /\ first[1] = controller.api
    BY <1>2, <1>3
  <2> HIDE DEF names, first
  <2>4. names \in Seq(Segs) /\ first \in Seq(Segs)
    BY <2>2, <2>3 DEF Segs
  <2>5. key \in Seq(Segs) /\ Len(key) > 0 /\ key[1] = controller.api
    <3>1. Len(first) > 0 /\ After(route) \in Seq(Segs)
      BY <1>1, <2>3
    <3>2. key \in Seq(Segs) /\ Len(key) > 0 /\ key[1] = first[1]
      BY <2>4, <3>1, KeyHead
    <3> QED BY <2>3, <3>2
  <2>6. ASSUME NEW x, IsPlace(x)
        PROVE  Occurs(x, key) <=> \E i \in Bound(route) : x = Place(params[i])
    <3>1. ~Occurs(x, first) /\ ~Occurs(x, names)
      <4>1. ASSUME NEW s \in Seq(Names) PROVE ~Occurs(x, s)
        BY <2>6, NameIsNoPlace DEF Occurs
      <4> QED BY <4>1, <2>2, <2>3
    <3>2. Occurs(x, key) <=> Occurs(x, After(route))
      BY <1>1, <2>4, <3>1, OccursInThree
    <3>3. \A i \in Bound(route) : params[i].kind = "path"
      BY <1>4, <1>5 DEF Bound, Parents
    <3> QED BY <1>1, <3>2, <3>3
  <2> QED BY <2>1, <2>5, <2>6
<1>6. CASE Parents(route) # {}
  <2> DEFINE p == CHOOSE i \in Parents(route) : TRUE
             first == <<controller.api, controller.name, Place(params[p])>>
             key == first \o route.path \o After(route)
  <2>1. Key(controller, route) = key
    BY <1>6 DEF Key, KeyOf, After
  <2>2. p \in 1..Len(params) /\ params[p].kind = "parent" /\ Parents(route) = {p}
    BY <1>6 DEF Parents, OneParent
  <2> HIDE DEF p
  <2>3. Place(params[p]) \in Segs
    BY <2>2, ParamsTyped DEF Segs
  <2>4. /\ first \in Seq(Segs) /\ Len(first) = 3 /\ first[1] = controller.api
        /\ first[2] = controller.name /\ first[3] = Place(params[p])
    BY <1>2, <2>3 DEF Segs
  <2> HIDE DEF first
  <2>5. route.path \in Seq(Segs)
    BY <1>2 DEF Segs
  <2>6. key \in Seq(Segs) /\ Len(key) > 0 /\ key[1] = controller.api
    <3>1. Len(first) > 0 /\ first \in Seq(Segs) /\ After(route) \in Seq(Segs)
      BY <1>1, <2>4
    <3>2. key \in Seq(Segs) /\ Len(key) > 0 /\ key[1] = first[1]
      BY <2>5, <3>1, KeyHead
    <3> QED BY <2>4, <3>2
  <2>7. ASSUME NEW x, IsPlace(x)
        PROVE  Occurs(x, key) <=> \E i \in Bound(route) : x = Place(params[i])
    <3>1. ~Occurs(x, route.path)
      BY <1>2, <2>7, NameIsNoPlace DEF Occurs
    <3>2. Occurs(x, first) <=> x = Place(params[p])
      <4>1. x # first[1] /\ x # first[2]
        BY <1>2, <2>4, <2>7, NameIsNoPlace
      <4>2. \A k : k \in 1..Len(first) <=> k \in {1, 2, 3}
        BY <2>4
      <4> QED BY <2>4, <4>1, <4>2 DEF Occurs
    <3>3. Occurs(x, key) <=> x = Place(params[p]) \/ Occurs(x, After(route))
      BY <1>1, <2>4, <2>5, <3>1, <3>2, OccursInThree
    <3>4. p \in Bound(route)
      BY <2>2 DEF Bound
    <3>5. \A i \in Bound(route) : params[i].kind = "path" \/ i = p
      BY <1>4, <2>2 DEF Bound, Parents
    <3> QED BY <1>1, <3>3, <3>4, <3>5
  <2> QED BY <2>1, <2>6, <2>7
<1> QED BY <1>5, <1>6

\* What Controller.route accepts: a payload is then the only parameter, and
\* there is one parent parameter or none.
Accepted ==
  {route \in Routes : /\ route.payload # "none" => route.params = <<>>
                      /\ OneParent(route)}
Registered ==
  {[key |-> Key(controller, route), route |-> route, service |-> c] :
     controller \in Controllers, route \in Accepted, c \in Nat}

LayersInv ==
  /\ program \in Seq(Controllers)
  /\ phase \in {"routing", "rejected", "asking", "done"}
  /\ at \in Nat \ {0}
  /\ handlers \in Seq(Registered)
  /\ layers \in Seq(Registered)
  /\ request \in Requests \cup {NoRequest}

\* A layer that was asked and matched has passed the request on.
Passed(l) ==
  Matches(layers[l]) => \E i \in 1..Len(layers[l].route.params) : Ignores(layers[l], i)

\* The layer that takes a request matches it and its first parameter is no
\* value to ignore.
Keeps(l) ==
  /\ Matches(layers[l])
  /\ layers[l].route.params # <<>> => ~Ignores(layers[l], 1)

AskedInv ==
  /\ phase \in {"asking", "done"} =>
       \A l \in 1..Len(layers) : l < at => Passed(l)
  /\ phase = "done" =>
       \/ taker.layer = at /\ at \in 1..Len(layers) /\ Keeps(at)
       \/ at > Len(layers)

\* Nothing is asked past the last controller or layer, and the layer that took
\* the request was asked.
BoundsInv ==
  /\ phase \in {"routing", "rejected"} => at <= Len(program) + 1
  /\ phase \in {"asking", "done"} => at <= Len(layers) + 1
  /\ phase # "done" => taker = Nobody
  /\ phase = "done" =>
       \/ taker.layer = at /\ at <= Len(layers)
       \/ taker.layer = 0 /\ taker.how = "notfound"

RouteInv == LayersInv /\ AskedInv /\ BoundsInv

-------------------------------------------------------------------------------
LEMMA ProgramTyped == Programs \subseteq Seq(Controllers)
  BY RoutingAssumption

LEMMA RequestsTyped == Requests \subseteq [method : Methods, path : Seq(Names)]
  BY RoutingAssumption

LEMMA LayersInit == Init => LayersInv
  BY ProgramTyped DEF Init, LayersInv

\* A route that is registered belongs to a controller of the program.
LEMMA RegisterTyped ==
  ASSUME LayersInv, Register
  PROVE  handlers' \in Seq(Registered)
<1>1. at \in 1..Len(program) /\ Len(handlers) + 1 \in 1..Len(Controller.routes)
  <2>1. Controller \in Controllers
    BY DEF LayersInv, Register, Routing, Controller
  <2> QED
    BY <2>1 DEF LayersInv, Register, Routing, Controllers
<1>2. Controller \in Controllers
  BY <1>1 DEF LayersInv, Controller
<1>3. Route \in Routes
  BY <1>1, <1>2 DEF Route, Controllers
<1>4. Route \in Accepted
  BY <1>3 DEF Accepted, Register, Tested, ParamsTested, OneParent
<1>5. [key |-> Key(Controller, Route), route |-> Route, service |-> at] \in Registered
  BY <1>2, <1>4 DEF Registered, LayersInv
<1> QED
  BY <1>5 DEF Register, LayersInv

LEMMA LayersNext == LayersInv /\ [Next]_vars => LayersInv'
<1> SUFFICES ASSUME LayersInv, [Next]_vars PROVE LayersInv'
  OBVIOUS
<1>1. CASE Register
  BY <1>1, RegisterTyped DEF Register, Routing, LayersInv
<1>2. CASE Throw
  BY <1>2 DEF Throw, LayersInv
<1>3. CASE Mount
  <2>1. PICK i \in Unmounted : layers' = Append(layers, handlers[i])
    BY <1>3 DEF Mount
  <2>2. handlers[i] \in Registered
    BY <2>1 DEF Unmounted, LayersInv
  <2> QED
    BY <1>3, <2>1, <2>2 DEF Mount, LayersInv
<1>4. CASE NextController
  BY <1>4 DEF NextController, LayersInv
<1>5. CASE Receive
  BY <1>5 DEF Receive, LayersInv
<1>6. CASE Skip
  BY <1>6 DEF Skip, LayersInv
<1>7. CASE PassOn
  BY <1>7 DEF PassOn, LayersInv
<1>8. CASE Refuse
  BY <1>8 DEF Refuse, Take, LayersInv
<1>9. CASE Act
  BY <1>9 DEF Act, Take, LayersInv
<1>10. CASE NotFound
  BY <1>10 DEF NotFound, LayersInv
<1>11. CASE UNCHANGED vars
  BY <1>11 DEF vars, LayersInv
<1> QED
  BY <1>1, <1>2, <1>3, <1>4, <1>5, <1>6, <1>7, <1>8, <1>9, <1>10, <1>11 DEF Next

-------------------------------------------------------------------------------
LEMMA AskedInit == Init => AskedInv
  BY DEF Init, AskedInv

\* Asking a layer changes neither the layers nor the request.
LEMMA SameAsked ==
  ASSUME UNCHANGED <<layers, request>>, NEW l
  PROVE  (Passed(l))' <=> Passed(l)
  BY DEF Passed, Matches, Ignores, Segments

LEMMA SameKept ==
  ASSUME UNCHANGED <<layers, request>>, NEW l
  PROVE  Keeps(l)' <=> Keeps(l)
  BY DEF Keeps, Matches, Ignores, Segments

LEMMA AskedNext == RouteInv /\ [Next]_vars => AskedInv'
<1> SUFFICES ASSUME LayersInv, AskedInv, [Next]_vars PROVE AskedInv'
  BY DEF RouteInv
<1> USE DEF LayersInv
<1>1. CASE Register \/ Throw \/ Mount \/ NextController
  <2>1. phase' \in {"routing", "rejected"}
    BY <1>1 DEF Register, Routing, Throw, Mount, NextController, Constructed
  <2> QED
    BY <2>1 DEF AskedInv
<1>2. CASE Receive
  BY <1>2 DEF Receive, AskedInv
<1>3. CASE Skip
  <2>1. UNCHANGED <<layers, request>> /\ phase = "asking" /\ phase' = "asking" /\ at' = at + 1
    BY <1>3 DEF Skip, Asking
  <2>2. Passed(at)
    BY <1>3 DEF Skip, Layer, Passed
  <2>3. ASSUME NEW l \in 1..Len(layers), l < at' PROVE Passed(l)
    BY <2>1, <2>2, <2>3 DEF AskedInv
  <2> QED
    BY <2>1, <2>3, SameAsked DEF AskedInv
<1>4. CASE PassOn
  <2>1. UNCHANGED <<layers, request>> /\ phase = "asking" /\ phase' = "asking" /\ at' = at + 1
    BY <1>4 DEF PassOn, Asking
  <2>2. Passed(at)
    BY <1>4 DEF PassOn, Layer, Passed
  <2>3. ASSUME NEW l \in 1..Len(layers), l < at' PROVE Passed(l)
    BY <2>1, <2>2, <2>3 DEF AskedInv
  <2> QED
    BY <2>1, <2>3, SameAsked DEF AskedInv
<1>5. CASE Refuse \/ Act
  <2>1. UNCHANGED <<layers, request, at>> /\ phase = "asking" /\ at \in 1..Len(layers)
        /\ taker'.layer = at
    BY <1>5 DEF Refuse, Act, Take, Asking
  <2>2. \A l \in 1..Len(layers) : l < at => Passed(l)
    BY <2>1 DEF AskedInv
  <2>3. Matches(layers[at])
    BY <1>5 DEF Refuse, Act, Layer
  <2>4. layers[at].route \in Accepted
    BY <2>1 DEF Registered
  <2>5. ASSUME layers[at].route.params # <<>> PROVE ~Ignores(layers[at], 1)
    <3>1. Len(layers[at].route.params) \in Nat \ {0} /\ layers[at].route.payload = "none"
      BY <2>4, <2>5 DEF Accepted, Routes
    <3>2. CASE Refuse
      BY <3>1, <3>2 DEF Refuse, Layer
    <3>3. CASE Act
      BY <3>1, <3>3 DEF Act, Layer
    <3> QED
      BY <1>5, <3>2, <3>3
  <2>6. Keeps(at)
    BY <2>3, <2>5 DEF Keeps
  <2> QED
    BY <2>1, <2>2, <2>6, SameAsked, SameKept DEF AskedInv
<1>6. CASE NotFound
  <2>1. UNCHANGED <<layers, request, at>> /\ phase = "asking" /\ at > Len(layers)
    BY <1>6 DEF NotFound
  <2> QED
    BY <2>1, SameAsked DEF AskedInv
<1>7. CASE UNCHANGED vars
  <2>1. UNCHANGED <<layers, request, at, phase, taker>>
    BY <1>7 DEF vars
  <2> QED
    BY <2>1, SameAsked, SameKept DEF AskedInv
<1> QED
  BY <1>1, <1>2, <1>3, <1>4, <1>5, <1>6, <1>7 DEF Next

LEMMA BoundsInit == Init => BoundsInv
  BY ProgramTyped DEF Init, BoundsInv

LEMMA BoundsNext ==
  ASSUME LayersInv, BoundsInv, [Next]_vars
  PROVE  BoundsInv'
<1> USE DEF BoundsInv
<1>1. at \in Nat /\ Len(program) \in Nat /\ Len(layers) \in Nat
  BY DEF LayersInv
<1>2. CASE Register \/ Throw \/ Mount
  <2>1. /\ UNCHANGED <<program, at, taker>> /\ phase = "routing"
        /\ phase' \in {"routing", "rejected"}
    BY <1>2 DEF Register, Routing, Throw, Mount, Constructed
  <2> QED BY <2>1
<1>3. CASE NextController
  BY <1>1, <1>3 DEF NextController, Constructed
<1>4. CASE Receive
  BY <1>1, <1>4 DEF Receive
<1>5. CASE Skip \/ PassOn
  BY <1>1, <1>5 DEF Skip, PassOn, Asking
<1>6. CASE Refuse \/ Act
  BY <1>1, <1>6 DEF Refuse, Act, Take, Asking
<1>7. CASE NotFound
  BY <1>7 DEF NotFound
<1>8. CASE UNCHANGED vars
  BY <1>8 DEF vars
<1> QED BY <1>2, <1>3, <1>4, <1>5, <1>6, <1>7, <1>8 DEF Next

-------------------------------------------------------------------------------
\* Compared by the word alone, as Controller.call compares them.
LEMMA LowerWord ==
  ASSUME NEW m \in Names, NEW n \in Names, m.word = n.word
  PROVE  Lower(m) = Lower(n)
  BY DEF Names, Lower

\* A layer whose first parameter declares the name passes the request on.
LEMMA DeclaredIgnored ==
  ASSUME LayersInv, NEW l \in 1..Len(layers), Matches(layers[l]), Declares(layers[l])
  PROVE  Ignores(layers[l], 1)
<1>1. layers[l].route \in Routes
  BY DEF LayersInv, Registered, Accepted
<1>2. PICK k \in Segments(layers[l], 1) :
        \E name \in layers[l].route.params[1].ignore : name.word = request.path[k].word
  BY DEF Declares
<1>3. PICK name \in layers[l].route.params[1].ignore : name.word = request.path[k].word
  BY <1>2
<1>4. name \in Names
  <2>1. layers[l].route.params \in Seq(Params) /\ layers[l].route.params # <<>>
    BY <1>1 DEF Routes, Declares
  <2>2. layers[l].route.params[1] \in Params
    BY <2>1
  <2> QED
    BY <2>2 DEF Params
<1>5. request.path[k] \in Names
  <2>1. request.path \in Seq(Names)
    <3>1. CASE request \in Requests
      BY <3>1, RequestsTyped
    <3>2. CASE request = NoRequest
      BY <3>2 DEF NoRequest
    <3> QED
      BY <3>1, <3>2 DEF LayersInv
  <2>2. k \in 1..Len(request.path)
    BY <1>2 DEF Segments, Matches
  <2> QED
    BY <2>1, <2>2
<1>6. Lower(request.path[k]) = Lower(name)
  BY <1>3, <1>4, <1>5, LowerWord
<1> QED
  BY <1>2, <1>3, <1>6 DEF Ignores

\* A layer without parameters in its path ignores nothing.
LEMMA WholeKept ==
  ASSUME NEW layer, NamesWhole(layer), NEW i
  PROVE  ~Ignores(layer, i)
<1>1. IsPlace(Place(layer.route.params[i]))
  BY DEF IsPlace, Place
<1> QED
  BY <1>1 DEF Ignores, Segments, NamesWhole

LEMMA RouteReached == RouteInv => OperationsReached
<1> SUFFICES ASSUME RouteInv, phase = "done", NEW l \in 1..Len(layers),
                    Matches(layers[l]), NamesWhole(layers[l]),
                    \A j \in 1..(l - 1) : Matches(layers[j]) => Declares(layers[j])
             PROVE  taker.layer = l
  BY DEF OperationsReached
<1> USE DEF RouteInv
<1>1. ~Passed(l)
  BY WholeKept DEF Passed
<1>2. at <= l
  BY <1>1 DEF AskedInv, LayersInv
<1>3. taker.layer = at /\ at \in 1..Len(layers) /\ Keeps(at)
  BY <1>2 DEF AskedInv, LayersInv
<1>4. ~(at < l)
  <2> SUFFICES ASSUME at < l PROVE FALSE
    OBVIOUS
  <2>1. Declares(layers[at]) /\ Matches(layers[at])
    BY <1>3 DEF Keeps, LayersInv
  <2>2. Ignores(layers[at], 1)
    BY <1>3, <2>1, DeclaredIgnored
  <2> QED
    BY <1>3, <2>1, <2>2 DEF Keeps, Declares
<1> QED
  BY <1>2, <1>3, <1>4 DEF LayersInv

LEMMA LayerRegistered ==
  ASSUME LayersInv, NEW l \in 1..Len(layers)
  PROVE  /\ layers[l].route \in Routes /\ OneParent(layers[l].route)
         /\ layers[l].key \in Seq(Segs)
         /\ \A x : IsPlace(x) =>
              (Occurs(x, layers[l].key)
                 <=> \E i \in Bound(layers[l].route) : x = Place(layers[l].route.params[i]))
<1>1. PICK controller \in Controllers, route \in Accepted, c \in Nat :
        layers[l] = [key |-> Key(controller, route), route |-> route, service |-> c]
  <2>1. layers[l] \in Registered
    BY DEF LayersInv
  <2> QED BY <2>1 DEF Registered
<1>2. route \in Routes /\ OneParent(route)
  BY DEF Accepted
<1> QED BY <1>1, <1>2, KeyIs

LEMMA HandlerRegistered ==
  ASSUME NEW handler \in Registered
  PROVE  handler.route \in Routes /\ handler.key \in Seq(Segs)
<1>1. PICK controller \in Controllers, route \in Accepted, c \in Nat :
        handler = [key |-> Key(controller, route), route |-> route, service |-> c]
  BY DEF Registered
<1>2. route \in Routes /\ OneParent(route)
  BY DEF Accepted
<1> QED BY <1>1, <1>2, KeyIs

LEMMA RouteTyped == RouteInv => TypeOK
<1> SUFFICES ASSUME RouteInv PROVE TypeOK
  OBVIOUS
<1> USE DEF RouteInv
<1>1. at \in Nat \ {0} /\ Len(program) \in Nat /\ Len(layers) \in Nat
  BY DEF LayersInv
<1>2. at \in 1..(Len(program) + Len(layers) + 1)
  BY <1>1 DEF BoundsInv, LayersInv
<1>3. taker.layer \in 0..Len(layers)
  BY <1>1 DEF BoundsInv, LayersInv, Nobody
<1>4. \A i \in 1..Len(handlers) : handlers[i] \in Registered
  BY DEF LayersInv
<1>5. \A i \in 1..Len(handlers) :
        handlers[i].route \in Routes /\ handlers[i].key \in Seq(Names \cup [param : STRING])
  BY <1>4, HandlerRegistered DEF Segs
<1> QED BY <1>2, <1>3, <1>5 DEF TypeOK, LayersInv

\* A place is in the key for every parameter that was not dropped.
LEMMA RouteBound == RouteInv => PathParamsBound
<1> SUFFICES ASSUME RouteInv, taker.how = "acted",
                    NEW i \in 1..Len(layers[taker.layer].route.params),
                    layers[taker.layer].route.params[i].kind # "other",
                    \A j \in Parents(layers[taker.layer].route) : j <= i
             PROVE  Segments(layers[taker.layer], i) # {}
  BY DEF PathParamsBound
<1>1. taker.layer \in 1..Len(layers)
  BY DEF RouteInv, LayersInv, BoundsInv, Nobody
<1> DEFINE layer == layers[taker.layer]
<1>2. IsPlace(Place(layer.route.params[i]))
  BY DEF IsPlace, Place
<1>3. i \in Bound(layer.route)
  BY DEF Bound
<1>4. Occurs(Place(layer.route.params[i]), layer.key)
  BY <1>1, <1>2, <1>3, LayerRegistered DEF RouteInv
<1> QED BY <1>4 DEF Occurs, Segments

LEMMA RouteInitially == Init => RouteInv
  BY LayersInit, AskedInit, BoundsInit DEF RouteInv

LEMMA RouteNext == RouteInv /\ [Next]_vars => RouteInv'
  BY LayersNext, AskedNext, BoundsNext DEF RouteInv

(* The router keeps to its types, whatever controllers it is given.          *)
THEOREM TypeCorrect == Spec => []TypeOK
  BY RouteInitially, RouteNext, RouteTyped, PTL DEF Spec

(* A route that acts finds every parameter of its path in the request's      *)
(* path, whatever its parameters are and in whatever order they stand.       *)
THEOREM PathBound == Spec => []PathParamsBound
  BY RouteInitially, RouteNext, RouteBound, PTL DEF Spec

(* An operation takes the requests that name it, past every layer whose      *)
(* first parameter ignores its name: whatever the program, the order in      *)
(* which its paths were registered and the letters of the request.           *)
THEOREM Reached == Spec => []OperationsReached
  BY RouteInitially, RouteNext, RouteReached, PTL DEF Spec

-------------------------------------------------------------------------------
(* Every declared route is one layer.                                       *)

\* What a controller under construction has filed.
Filed ==
  /\ at <= Len(program) => Len(handlers) <= Len(program[at].routes)
  /\ at > Len(program) => handlers = <<>>
  /\ \A i \in 1..Len(handlers) : handlers[i] = Made(at, i)
  /\ \A i, j \in 1..Len(handlers) : i # j => Apart(handlers[i], handlers[j])

\* What those before it, and it, have mounted.
MountedSoFar ==
  /\ \A l \in 1..Len(layers) : layers[l].service <= at
  /\ \A l \in 1..Len(layers) : layers[l].service = at =>
       \E i \in 1..Len(handlers) : layers[l] = handlers[i]
  /\ \A c \in 1..Len(program) : c < at =>
       \A r \in 1..Len(program[c].routes) : \E l \in 1..Len(layers) : layers[l] = Made(c, r)

InOrder ==
  \A l, m \in 1..Len(layers) : l < m =>
    \/ layers[l].service < layers[m].service
    \/ layers[l].service = layers[m].service /\ Apart(layers[l], layers[m])

MountInv ==
  /\ phase = "routing" => Filed /\ MountedSoFar
  /\ InOrder
  /\ phase \in {"asking", "done"} =>
       \A c \in 1..Len(program) : \A r \in 1..Len(program[c].routes) :
         \E l \in 1..Len(layers) : layers[l] = Made(c, r)

LEMMA MountInit == Init => MountInv
  BY ProgramTyped DEF Init, MountInv, Filed, MountedSoFar, InOrder

LEMMA ServiceTyped ==
  ASSUME LayersInv
  PROVE  /\ \A l \in 1..Len(layers) : layers[l].service \in Nat
         /\ Len(layers) \in Nat /\ Len(handlers) \in Nat /\ at \in Nat /\ Len(program) \in Nat
<1>1. \A layer \in Registered : layer.service \in Nat
  BY DEF Registered
<1> QED BY <1>1 DEF LayersInv

LEMMA MountRegister ==
  ASSUME LayersInv, MountInv, Register
  PROVE  MountInv'
<1>1. /\ phase = "routing" /\ UNCHANGED <<program, phase, at, layers>>
      /\ at <= Len(program) /\ Len(handlers) < Len(program[at].routes)
  BY DEF Register, Routing, Controller
<1> DEFINE new == Made(at, Len(handlers) + 1)
<1>2. handlers' = Append(handlers, new)
  BY DEF Register, Made, Controller, Route
<1>3. \A i \in 1..Len(handlers) : Apart(handlers[i], new) /\ Apart(new, handlers[i])
  <2>1. \A i \in 1..Len(handlers) :
          ~(handlers[i].key = new.key /\ handlers[i].route.method = new.route.method)
    BY DEF Register, Taken, Made, Controller, Route
  <2> QED BY <2>1 DEF Apart
<1>4. Filed /\ MountedSoFar /\ InOrder
  BY <1>1 DEF MountInv
<1>5. \A c, r : Made(c, r)' = Made(c, r)
  BY <1>1 DEF Made, Key, KeyOf
<1>6. handlers \in Seq(Registered) /\ Len(handlers) \in Nat
  BY DEF LayersInv
<1> HIDE DEF new
<1>7. /\ Len(handlers') = Len(handlers) + 1 /\ handlers'[Len(handlers) + 1] = new
      /\ \A i \in 1..Len(handlers) : handlers'[i] = handlers[i]
  BY <1>2, <1>6
<1>8. \A i \in 1..Len(handlers') :
        \/ i = Len(handlers) + 1 /\ handlers'[i] = new
        \/ i \in 1..Len(handlers) /\ handlers'[i] = handlers[i]
  BY <1>6, <1>7
<1>9. Filed'
  <2>1. \A i \in 1..Len(handlers') : handlers'[i] = Made(at, i)
    BY <1>4, <1>8 DEF Filed, new
  <2>2. \A i, j \in 1..Len(handlers') : i # j => Apart(handlers'[i], handlers'[j])
    BY <1>3, <1>4, <1>8 DEF Filed
  <2>3. Len(handlers') <= Len(program[at].routes)
    <3>1. Len(program[at].routes) \in Nat
      <4>1. program[at] \in Controllers
        BY <1>1 DEF LayersInv
      <4> QED BY <4>1 DEF Controllers
    <3> QED BY <1>1, <1>6, <1>7, <3>1
  <2>4. ~(at > Len(program))
    BY <1>1, ServiceTyped
  <2>5. \A i, j \in 1..Len(handlers') : i # j => Apart(handlers'[i], handlers'[j])
    BY <2>2
  <2> QED BY <1>1, <1>5, <2>1, <2>2, <2>3, <2>4 DEF Filed, Apart
<1>10. MountedSoFar'
  <2>1. \A i \in 1..Len(handlers) : i \in 1..Len(handlers')
    BY <1>6, <1>7
  <2> QED BY <1>1, <1>4, <1>5, <1>7, <2>1 DEF MountedSoFar
<1>11. InOrder'
  BY <1>1, <1>4 DEF InOrder, Apart
<1> QED BY <1>1, <1>9, <1>10, <1>11 DEF MountInv

LEMMA MountMount ==
  ASSUME LayersInv, MountInv, Mount
  PROVE  MountInv'
<1>1. PICK i \in Unmounted : layers' = Append(layers, handlers[i])
  BY DEF Mount
<1>2. phase = "routing" /\ UNCHANGED <<program, phase, at, handlers>>
  BY DEF Mount, Constructed
<1>3. Filed /\ MountedSoFar /\ InOrder
  BY <1>2 DEF MountInv
<1>4. i \in 1..Len(handlers) /\ \A l \in 1..Len(layers) : layers[l] # handlers[i]
  BY DEF Unmounted
<1>5. \A c, r : Made(c, r)' = Made(c, r)
  BY <1>2 DEF Made, Key, KeyOf
<1>6. layers \in Seq(Registered) /\ Len(layers) \in Nat
  BY DEF LayersInv
<1>7. /\ Len(layers') = Len(layers) + 1 /\ layers'[Len(layers) + 1] = handlers[i]
      /\ \A l \in 1..Len(layers) : l \in 1..Len(layers') /\ layers'[l] = layers[l]
  BY <1>1, <1>6
<1>8. \A l \in 1..Len(layers') :
        \/ l = Len(layers) + 1 /\ layers'[l] = handlers[i]
        \/ l \in 1..Len(layers) /\ layers'[l] = layers[l]
  BY <1>6, <1>7
<1>9. handlers[i].service = at /\ at \in Nat
  <2>1. at \in Nat
    BY ServiceTyped
  <2>2. handlers[i] = Made(at, i)
    BY <1>3, <1>4 DEF Filed
  <2> QED BY <2>1, <2>2 DEF Made
<1>10. MountedSoFar'
  <2>1. \A l \in 1..Len(layers') : layers'[l].service <= at
    BY <1>3, <1>8, <1>9 DEF MountedSoFar
  <2>2. \A l \in 1..Len(layers') : layers'[l].service = at =>
          \E j \in 1..Len(handlers) : layers'[l] = handlers[j]
    BY <1>3, <1>4, <1>8 DEF MountedSoFar
  <2>3. \A c \in 1..Len(program) : c < at =>
          \A r \in 1..Len(program[c].routes) : \E l \in 1..Len(layers') : layers'[l] = Made(c, r)
    <3> SUFFICES ASSUME NEW c \in 1..Len(program), c < at, NEW r \in 1..Len(program[c].routes)
                 PROVE  \E l \in 1..Len(layers') : layers'[l] = Made(c, r)
      OBVIOUS
    <3>1. PICK l \in 1..Len(layers) : layers[l] = Made(c, r)
      BY <1>3 DEF MountedSoFar
    <3> QED BY <1>7, <3>1
  <2> QED BY <1>2, <1>5, <2>1, <2>2, <2>3 DEF MountedSoFar
<1>11. InOrder'
  <2> SUFFICES ASSUME NEW l \in 1..Len(layers'), NEW m \in 1..Len(layers'), l < m
               PROVE  \/ layers'[l].service < layers'[m].service
                      \/ /\ layers'[l].service = layers'[m].service
                         /\ Apart(layers'[l], layers'[m])
    BY DEF InOrder, Apart
  <2>1. l \in 1..Len(layers) /\ layers'[l] = layers[l]
    BY <1>6, <1>7, <1>8
  <2>2. CASE m \in 1..Len(layers) /\ layers'[m] = layers[m]
    BY <1>3, <2>1, <2>2 DEF InOrder
  <2>3. CASE m = Len(layers) + 1 /\ layers'[m] = handlers[i]
    <3>1. layers[l].service <= at /\ layers[l].service \in Nat
      BY <1>3, <2>1, ServiceTyped DEF MountedSoFar
    <3>2. ASSUME layers[l].service = at PROVE Apart(layers[l], handlers[i])
      <4>1. PICK j \in 1..Len(handlers) : layers[l] = handlers[j]
        BY <1>3, <2>1, <3>2 DEF MountedSoFar
      <4>2. j # i
        BY <1>4, <2>1, <4>1
      <4> QED BY <1>3, <1>4, <4>1, <4>2 DEF Filed
    <3> QED BY <1>9, <2>1, <2>3, <3>1, <3>2
  <2> QED BY <1>8, <2>2, <2>3
<1>12. Filed'
  BY <1>2, <1>3, <1>5 DEF Filed, Apart
<1> QED BY <1>2, <1>10, <1>11, <1>12 DEF MountInv

LEMMA MountNextController ==
  ASSUME LayersInv, BoundsInv, MountInv, NextController
  PROVE  MountInv'
<1>1. /\ phase = "routing" /\ UNCHANGED <<program, phase, layers>>
      /\ at' = at + 1 /\ handlers' = <<>> /\ at <= Len(program)
      /\ Len(handlers) = Len(program[at].routes) /\ Unmounted = {}
  BY DEF NextController, Constructed, Controller
<1>2. Filed /\ MountedSoFar /\ InOrder
  BY <1>1 DEF MountInv
<1>3. \A c, r : Made(c, r)' = Made(c, r)
  BY <1>1 DEF Made, Key, KeyOf
<1>4. at \in Nat /\ Len(program) \in Nat /\ \A l \in 1..Len(layers) : layers[l].service \in Nat
  BY ServiceTyped
<1>5. \A r \in 1..Len(program[at].routes) : \E l \in 1..Len(layers) : layers[l] = Made(at, r)
  BY <1>1, <1>2 DEF Unmounted, Filed
<1>6. MountedSoFar'
  <2>1. \A l \in 1..Len(layers) : layers[l].service <= at + 1 /\ layers[l].service # at + 1
    BY <1>2, <1>4 DEF MountedSoFar
  <2>2. \A c \in 1..Len(program) : c < at + 1 =>
          \A r \in 1..Len(program[c].routes) : \E l \in 1..Len(layers) : layers[l] = Made(c, r)
    <3>1. \A c \in 1..Len(program) : c < at + 1 => c < at \/ c = at
      BY <1>4
    <3> QED BY <1>2, <1>5, <3>1 DEF MountedSoFar
  <2> QED BY <1>1, <1>3, <2>1, <2>2 DEF MountedSoFar
<1>7. Filed'
  <2>1. at + 1 <= Len(program) => Len(program[at + 1].routes) \in Nat
    <3> SUFFICES ASSUME at + 1 <= Len(program) PROVE Len(program[at + 1].routes) \in Nat
      OBVIOUS
    <3>1. program[at + 1] \in Controllers
      BY <1>4 DEF LayersInv
    <3> QED BY <3>1 DEF Controllers
  <2> QED BY <1>1, <2>1 DEF Filed
<1>8. InOrder'
  BY <1>1, <1>2 DEF InOrder, Apart
<1> QED BY <1>1, <1>6, <1>7, <1>8 DEF MountInv

\* What neither files nor mounts leaves the layers as they are.
LEMMA MountKept ==
  ASSUME MountInv, UNCHANGED <<program, layers>>,
         \/ phase' = "rejected"
         \/ phase' = phase /\ (phase = "routing" => UNCHANGED <<at, handlers>>)
         \/ phase \in {"asking", "done"} /\ phase' \in {"asking", "done"}
  PROVE  MountInv'
<1>1. \A c, r : Made(c, r)' = Made(c, r)
  BY DEF Made, Key, KeyOf
<1>2. InOrder'
  BY DEF MountInv, InOrder, Apart
<1>3. CASE phase' = "rejected"
  BY <1>2, <1>3 DEF MountInv
<1>4. CASE phase' = "routing" /\ phase = "routing" /\ UNCHANGED <<at, handlers>>
  <2>1. Filed' /\ MountedSoFar'
    BY <1>1, <1>4 DEF MountInv, Filed, MountedSoFar, Apart
  <2> QED BY <1>2, <1>4, <2>1 DEF MountInv
<1>5. CASE phase \in {"asking", "done"} /\ phase' \in {"asking", "done"}
  BY <1>1, <1>2, <1>5 DEF MountInv
<1>6. CASE phase' = phase /\ phase \notin {"routing", "rejected", "asking", "done"}
  BY <1>2, <1>6 DEF MountInv
<1> QED BY <1>3, <1>4, <1>5, <1>6

LEMMA MountNext == RouteInv /\ MountInv /\ [Next]_vars => MountInv'
<1> SUFFICES ASSUME RouteInv, MountInv, [Next]_vars PROVE MountInv'
  OBVIOUS
<1>1. LayersInv /\ BoundsInv
  BY DEF RouteInv
<1>2. CASE Receive
  <2>1. /\ phase = "routing" /\ phase' = "asking" /\ at > Len(program)
        /\ UNCHANGED <<program, layers>>
    BY <1>2 DEF Receive
  <2>2. \A c \in 1..Len(program) : c < at
    BY <1>1, <2>1, ServiceTyped
  <2>3. \A c, r : Made(c, r)' = Made(c, r)
    BY <2>1 DEF Made, Key, KeyOf
  <2>4. InOrder'
    BY <2>1 DEF MountInv, InOrder, Apart
  <2> QED BY <2>1, <2>2, <2>3, <2>4 DEF MountInv, MountedSoFar
<1>3. CASE Throw \/ UNCHANGED vars
  <2>1. /\ UNCHANGED <<program, layers, at, handlers>>
        /\ phase' = "rejected" \/ phase' = phase
    BY <1>3 DEF Throw, vars
  <2> QED BY <2>1, MountKept
<1>4. CASE Skip \/ PassOn \/ Refuse \/ Act \/ NotFound
  <2>1. /\ UNCHANGED <<program, layers>>
        /\ phase \in {"asking", "done"} /\ phase' \in {"asking", "done"}
    BY <1>4 DEF Skip, PassOn, Refuse, Act, Take, NotFound, Asking
  <2> QED BY <2>1, MountKept
<1> QED
  BY <1>1, <1>2, <1>3, <1>4, MountRegister, MountMount, MountNextController DEF Next

LEMMA MountedAll == MountInv => RoutesMounted
  BY DEF MountInv, InOrder, RoutesMounted

LEMMA MountInitially == Init => RouteInv /\ MountInv
  BY RouteInitially, MountInit

(* Every route of the program is one layer, in the order of the program,     *)
(* whatever the controllers and the order in which each mounts its routes.   *)
THEOREM MountedOnce == Spec => []RoutesMounted
  BY MountInitially, RouteNext, MountNext, MountedAll, PTL DEF Spec

-------------------------------------------------------------------------------
(* The server that documents its routes before it serves them.              *)

\* A description that throws leaves the router as it is.
LEMMA DescribedNext == RouteInv /\ [DocNext]_docVars => RouteInv'
<1> SUFFICES ASSUME RouteInv, [DocNext]_docVars PROVE RouteInv'
  OBVIOUS
<1>1. CASE [Next]_vars
  BY <1>1, RouteNext
<1>2. CASE DescribeNothing
  BY <1>2 DEF DescribeNothing, Mounted, RouteInv, LayersInv, AskedInv, BoundsInv
<1>3. [Next]_vars \/ DescribeNothing
  BY DEF DocNext, docVars, vars, Next, Describe
<1> QED
  BY <1>1, <1>2, <1>3

LEMMA DescribedMount == RouteInv /\ MountInv /\ [DocNext]_docVars => MountInv'
<1> SUFFICES ASSUME RouteInv, MountInv, [DocNext]_docVars PROVE MountInv'
  OBVIOUS
<1>1. CASE [Next]_vars
  BY <1>1, MountNext
<1>2. CASE DescribeNothing
  BY <1>2, MountKept DEF DescribeNothing
<1>3. [Next]_vars \/ DescribeNothing
  BY DEF DocNext, docVars, vars, Next, Describe
<1> QED
  BY <1>1, <1>2, <1>3

(* What holds of the router holds of the one that is documented.             *)
THEOREM DescribedRouter ==
  DocSpec => [](TypeOK /\ PathParamsBound /\ OperationsReached /\ RoutesMounted)
<1>1. DocInit => RouteInv /\ MountInv
  BY MountInitially DEF DocInit
<1>2. RouteInv /\ MountInv => TypeOK /\ PathParamsBound /\ OperationsReached /\ RoutesMounted
  BY RouteTyped, RouteBound, RouteReached, MountedAll
<1> QED
  BY <1>1, <1>2, DescribedNext, DescribedMount, PTL DEF DocSpec
===============================================================================
