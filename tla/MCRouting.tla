------------------------------ MODULE MCRouting ------------------------------
(***************************************************************************)
(* Values for TLC: controllers of up to three routes, from a pool that has *)
(* the collisions and the mistakes which the tests declare; pairs of       *)
(* controllers, with prefixes, names and Handler objects of their own or   *)
(* in common; and routes for the other verbs.                              *)
(***************************************************************************)
EXTENDS OpenApi

N(word, caps) == [word |-> word, caps |-> caps]
Op == N("list", {"inner"})          \* "subInstances" of the tests
Api == N("api", {})
Value == N("1234", {})

P(name, kind) == [name |-> name, valid |-> TRUE, kind |-> kind,
                  required |-> FALSE, ignore |-> {}]
Ignoring(param) == [param EXCEPT !.ignore = {Op}]

R(path, method, params) ==
  [path |-> path, object |-> 0, method |-> method, arity |-> Len(params),
   payload |-> "none", params |-> params, response |-> "json"]
Body(route) == [route EXCEPT !.payload = "object", !.arity = 1]

Pool == {
  R(<<>>, "get", <<Ignoring(P("id", "parent"))>>),
  R(<<>>, "get", <<P("q", "other"), [Ignoring(P("id", "path")) EXCEPT !.required = TRUE]>>),
  R(<<Op>>, "get", <<>>),
  R(<<N("list", {"first", "inner"})>>, "get", <<P("q", "other")>>),
  R(<<Op>>, "get", <<P("a", "path"), Ignoring(P("id", "parent")), P("b", "path")>>),
  R(<<Op>>, "get", <<P("id", "path")>>),
  [Body(R(<<Op>>, "post", <<>>)) EXCEPT !.response = "created"] }

Mistakes == {
  R(<<Op>>, "get", <<P("a", "parent"), P("b", "parent")>>),
  R(<<Op>>, "get", <<[P("a", "other") EXCEPT !.valid = FALSE]>>),
  [R(<<Op>>, "get", <<>>) EXCEPT !.arity = 2],
  Body(R(<<Op>>, "get", <<>>)),
  [Body(R(<<Op>>, "post", <<>>)) EXCEPT !.payload = "scalar"] }

Others ==
  {[R(<<Op>>, m, <<P("id", "path"), P("q", "other")>>) EXCEPT !.response = r] :
     m \in Methods, r \in Responses}

\* Each route has a Handler object of its own, but where it is named.
One(api, name, routes, first) ==
  [api |-> api, name |-> name,
   routes |-> [i \in 1..Len(routes) |-> [routes[i] EXCEPT !.object = first + i]]]
Thing == N("thing", {"first"})
Other == N("other", {"first"})

Twice(route, path) == <<[route EXCEPT !.object = 1], [route EXCEPT !.object = 1, !.path = path]>>

\* Prefixes that are shorter than "api", and so much longer that the cut ends in
\* a name, before or in the middle of a placeholder, or after one.
Firsts == {N(word, {}) : word \in {"v2", "intern", "backoffice", "administrator", "administration"}}

MCPrograms == UNION {
  {<<One(Api, Thing, rs, 0)>> : rs \in UNION {[1..n -> Pool] : n \in 0..3}},
  {<<One(Api, Thing, <<good, bad>>, 0)>> : good \in Pool, bad \in Mistakes},
  {<<One(Api, Thing, <<r, s>>, 0)>> : r, s \in Others},
  {<<One(Api, name, <<r>>, 0), One(api, Thing, <<s>>, 1)>> :
     name \in {Thing, Other}, r, s \in Pool, api \in {Api, N("v2", {}), N("intern", {})}},
  {<<One(first, Other, <<r>>, 0), One(Api, Thing, <<s>>, 1)>> : r, s \in Pool, first \in Firsts},
  {<<[api |-> Api, name |-> Thing, routes |-> Twice(r, <<>>)]>> : r \in Pool},
  {<<[api |-> Api, name |-> Other, routes |-> <<[r EXCEPT !.object = 1]>>],
     [api |-> Api, name |-> Thing, routes |-> <<[r EXCEPT !.object = 1]>>]>> : r \in Pool} }

Spellings(word) == {N(word, caps) : caps \in SUBSET Letters}
Thinglike == {N("thing", {}), Thing}

Paths1 ==
  {<<t>> : t \in Thinglike}
    \cup {<<t, s>> : t \in Thinglike, s \in Spellings("list") \cup {Value}}
    \cup {<<t, s, u>> : t \in Thinglike, s, u \in {Op, Value}}
    \cup {<<Thing, Value, Op, Value>>}

MCRequests ==
  [method : {"get", "post"}, path : {<<Api>> \o p : p \in Paths1}]
    \cup [method : Methods \ {"options"}, path : {<<Api, Thing, Op, Value>>}]
    \cup [method : {"get"}, path : {<<N("v2", {}), Thing, Op>>, <<Api, Other, Op>>,
                                    <<Api, Other>>}]
===============================================================================
