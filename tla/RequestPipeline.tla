--------------------------- MODULE RequestPipeline ---------------------------
(***************************************************************************)
(* src/src/controller/responder.ts and Controller.handle: the life of one  *)
(* request.  Express offers it to the routes that match its path and verb, *)
(* in the order they were registered; Responder.route takes it, the        *)
(* Controller authorizes it, reads its parameters and runs the action, and *)
(* the Responder answers.  Unless its handler of errors fails, it then     *)
(* calls `next`, after an answer as well, so that the next matching route  *)
(* is entered; only the headers already sent stop it there.                *)
(*                                                                         *)
(* The values of the parameters and what the actions do are chosen where   *)
(* the code reads them, and DataTypes says what is made of a value, which  *)
(* may be any wherever it comes from (query, body or path).  Statuses are  *)
(* named: "own" is that of an HttpError the action rejects with.           *)
(***************************************************************************)
EXTENDS Naturals, Sequences, DataTypes

CONSTANTS
  Chains,       \* the sequences of routes that match one request
  Tokens,       \* what the authorization header may hold
  Inputs,       \* the values a parameter may be given
  Keyed,        \* TRUE: the Vault holds a JWT_KEY, so tokens are verified
  Results,      \* what an action may resolve with
  Rejections    \* what an action may reject with, or throw

Params == [type : Types, dto : BOOLEAN, required : BOOLEAN, ignores : BOOLEAN]
Routes == [restricted : {"open", "token", "systems"}, params : Seq(Params),
           response : {"status", "json"}]

(* What the Responder's own handler of errors fails on: nothing at all       *)
(* (undefined or null), of which it reads toJSON; what has no message and    *)
(* JSON.stringify throws on (a circular object, a BigInt), or whose toJSON   *)
(* throws; a status that HTTP does not have, or a message that cannot be     *)
(* serialized.                                                               *)
Unhandled == {"nothing", "unreadable", "unsendable"}

ASSUME PipelineAssumption ==
  /\ Chains \subseteq Seq(Routes)
  /\ Tokens \subseteq {"none", "garbled", "expired", "forged", "stranger", "known"}
  /\ Inputs \subseteq Values
  /\ Keyed \in BOOLEAN
  /\ Results \subseteq {"plain", "circular", "lookalike"}
  /\ Rejections \subseteq {"own", "internal"} \cup Unhandled

VARIABLES
  chain,    \* the routes that match this request
  token,    \* its authorization header
  at,       \* the route that has it: a position in the chain
  stage,    \* where it is there
  args,     \* the arguments `call` has collected
  outcome,  \* what the promise of `handle` was settled with
  called,   \* the actions run: [route, args], in order
  sent      \* the statuses of the answers sent, in order

vars == <<chain, token, at, stage, args, outcome, called, sent>>

Route == chain[at]

Goto(s) == stage' = s
Keep == UNCHANGED <<chain, token>>

-------------------------------------------------------------------------------
Init == /\ chain \in Chains
        /\ token \in Tokens
        /\ at = 1
        /\ stage = (IF Len(chain) = 0 THEN "unmatched" ELSE "enter")
        /\ args = <<>> /\ outcome = "none"
        /\ called = <<>> /\ sent = <<>>

\* Both callbacks of the promise that `handle` returns.
Resolve(result) == Goto("resolved") /\ outcome' = result
Reject(status) == Goto("rejected") /\ outcome' = status

(* new JWT(authorization) and tryForSubjects.  Without a key a token is only *)
(* decoded: its signature and expiration go unread, and so does its subject. *)
Unauthorized == {"none", "garbled"} \cup (IF Keyed THEN {"expired"} ELSE {})
Unverified == IF Keyed THEN {"forged"} ELSE {}
Subjects == IF Keyed THEN {"known"} ELSE {}

Refuses(route, status) ==
  /\ route.restricted # "open"
  /\ \/ token \in Unauthorized /\ status = "unauthorized"
     \/ token \in Unverified /\ status = "internal"
     \/ /\ route.restricted = "systems"
        /\ token \notin Unauthorized \cup Unverified \cup Subjects
        /\ status = "forbidden"

Refusals == {"unauthorized", "internal", "forbidden"}

\* Setting the request-id header throws when the headers are sent: Express
\* then closes the connection instead of running the action.
EnterAnswered ==
  /\ stage = "enter" /\ sent # <<>>
  /\ Goto("closed")
  /\ UNCHANGED <<at, args, outcome, called, sent>> /\ Keep

EnterAdmittedAnswered ==
  /\ stage = "enter" /\ \A status \in Refusals : ~Refuses(Route, status)
  /\ Goto("params")
  /\ args' = <<>> /\ outcome' = "none"
  /\ UNCHANGED <<at, called, sent>> /\ Keep
EnterAdmitted ==
  /\ stage = "enter" /\ sent = <<>>
  /\ \A status \in Refusals : ~Refuses(Route, status)
  /\ Goto("params")
  /\ args' = <<>> /\ outcome' = "none"
  /\ UNCHANGED <<at, called, sent>> /\ Keep

EnterRefused ==
  /\ stage = "enter" /\ sent = <<>>
  /\ \E status \in Refusals : Refuses(Route, status) /\ Reject(status)
  /\ UNCHANGED <<at, args, called, sent>> /\ Keep

Enter == EnterAnswered \/ EnterAdmitted \/ EnterRefused

-------------------------------------------------------------------------------
(* call: params.every reads one parameter after the other, and stops at the *)
(* first that is missing, is a name to ignore, or is of the wrong type.      *)

Reading == stage = "params" /\ Len(args) < Len(Route.params)
Param == Route.params[Len(args) + 1]
Undefined == One("undefined")

Push(arg) == /\ args' = Append(args, arg)
             /\ UNCHANGED <<at, stage, outcome, called, sent>> /\ Keep

ReadAnyEmpty == Reading /\ Push(Undefined)
ReadEmpty == Reading /\ ~Param.required /\ Push(Undefined)

ReadMissing == /\ Reading /\ Param.required
               /\ Reject("badrequest")
               /\ UNCHANGED <<at, args, called, sent>> /\ Keep

\* A value that names another operation: the promise resolves with
\* rejectedByHandler, as it does for an action's own result of that shape.
ReadIgnoredForGood == /\ Reading /\ Param.ignores
                      /\ Goto("silent")
                      /\ UNCHANGED <<at, args, outcome, called, sent>> /\ Keep
ReadIgnored == /\ Reading /\ Param.ignores
               /\ Resolve("lookalike")
               /\ UNCHANGED <<at, args, called, sent>> /\ Keep

ReadRight == /\ Reading
             /\ \E v \in Inputs : \E arg \in Digest(Param.type, Param.dto, v) : Push(arg)

\* digest throws, or the constructor of the DTO does.
ReadWrong == /\ Reading
             /\ Param.dto \/ \E v \in Inputs : Digest(Param.type, Param.dto, v) = {}
             /\ Reject("badrequest")
             /\ UNCHANGED <<at, args, called, sent>> /\ Keep

Read == ReadEmpty \/ ReadMissing \/ ReadIgnored \/ ReadRight \/ ReadWrong

\* Every parameter read: the action runs.
Act == /\ stage = "params" /\ Len(args) = Len(Route.params)
       /\ called' = Append(called, [route |-> at, args |-> args])
       /\ Goto("acting")
       /\ UNCHANGED <<at, args, outcome, sent>> /\ Keep

\* It throws, returns no promise ("internal"), or its promise is settled.
Settle == /\ stage = "acting"
          /\ \/ \E result \in Results : Resolve(result)
             \/ \E status \in Rejections : Reject(status)
          /\ UNCHANGED <<at, args, called, sent>> /\ Keep

-------------------------------------------------------------------------------
(* The Responder, once the promise of `handle` is settled.                  *)

Send(status) == sent' = Append(sent, status)

RespondNothing == /\ stage = "resolved" /\ outcome = "lookalike"
                  /\ Goto("next")
                  /\ UNCHANGED <<at, args, outcome, called, sent>> /\ Keep

RespondStatus == /\ stage = "resolved" /\ outcome # "lookalike"
                 /\ Route.response = "status"
                 /\ Send("ok") /\ Goto("next")
                 /\ UNCHANGED <<at, args, outcome, called>> /\ Keep

\* handleByType: a page of results is put into headers and a body on the way.
RespondJson == /\ stage = "resolved" /\ outcome \notin {"lookalike", "circular"}
               /\ Route.response = "json"
               /\ Send("ok") /\ Goto("next")
               /\ UNCHANGED <<at, args, outcome, called>> /\ Keep

\* response.json throws on what cannot be serialized; the same catch takes it.
RespondCircular == /\ stage = "resolved" /\ outcome = "circular"
                   /\ Route.response = "json"
                   /\ Reject("internal")
                   /\ UNCHANGED <<at, args, called, sent>> /\ Keep

Fail == /\ stage = "rejected" /\ outcome \notin Unhandled
        /\ Send(outcome) /\ Goto("next")
        /\ UNCHANGED <<at, args, outcome, called>> /\ Keep

\* The catch throws: the last catch logs that, and neither an answer nor `next`
\* follows.
FailSilently == /\ stage = "rejected" /\ outcome \in Unhandled
                /\ Goto("silent")
                /\ UNCHANGED <<at, args, outcome, called, sent>> /\ Keep

Respond == RespondNothing \/ RespondStatus \/ RespondJson \/ RespondCircular
             \/ Fail \/ FailSilently

\* next: the following route that matches, or Express's final handler.
PassOnTooFar == /\ stage = "next"
                /\ at' = at + 1
                /\ Goto("enter")
                /\ UNCHANGED <<args, outcome, called, sent>> /\ Keep
PassOnSameRoute == /\ stage = "next"
                   /\ at' = at
                   /\ Goto("enter")
                   /\ UNCHANGED <<args, outcome, called, sent>> /\ Keep
PassOn == /\ stage = "next"
          /\ at' = at + 1
          /\ Goto(IF at = Len(chain) THEN "unmatched" ELSE "enter")
          /\ UNCHANGED <<args, outcome, called, sent>> /\ Keep

\* The final handler answers 404, unless the request is answered.
Finish == /\ stage = "unmatched"
          /\ IF sent = <<>> THEN Send("notfound") ELSE UNCHANGED sent
          /\ Goto("closed")
          /\ UNCHANGED <<at, args, outcome, called>> /\ Keep

Next == Enter \/ Read \/ Act \/ Settle \/ Respond \/ PassOn \/ Finish

Spec == Init /\ [][Next]_vars

(* Node runs the callbacks of settled promises; an action's promise is      *)
(* assumed to be settled at some time.                                      *)
FairSpec == Spec /\ WF_vars(Next)

-------------------------------------------------------------------------------
Stages == {"enter", "params", "acting", "resolved", "rejected", "next",
           "unmatched", "closed", "silent"}
Statuses == {"ok", "own", "badrequest", "notfound"} \cup Refusals
Outcomes == Statuses \cup Results \cup Rejections \cup {"none", "lookalike"}

Arguments == {Undefined} \cup UNION {Promised(type, dto) : type \in Types, dto \in BOOLEAN}

TypeOK ==
  /\ chain \in Chains /\ token \in Tokens
  /\ at \in 1..(Len(chain) + 1)
  /\ stage \in Stages
  /\ stage \notin {"unmatched", "closed"} => at \in 1..Len(chain)
  /\ args \in Seq(Arguments)
  /\ outcome \in Outcomes
  /\ called \in Seq([route : Nat, args : Seq(Arguments)])
  /\ sent \in Seq(Outcomes)

(* The client gets at most one answer, although `next` offers a request     *)
(* that is answered to every later route that matches.                      *)
AnsweredOnce == Len(sent) <= 1

(* An action runs only on a request its route admits, with an argument for  *)
(* each parameter: what the parameter's type promises, or undefined if it   *)
(* may be.  Routes that the request passed before leave nothing behind that *)
(* could stand in for one.                                                  *)
Suits(arg, param) ==
  IF arg = Undefined THEN ~param.required ELSE arg \in Promised(param.type, param.dto)

ActsWhenAdmitted ==
  \A k \in 1..Len(called) :
    LET route == chain[called[k].route] IN
      /\ \A status \in Refusals : ~Refuses(route, status)
      /\ Len(called[k].args) = Len(route.params)
      /\ \A i \in 1..Len(route.params) :
           Suits(called[k].args[i], route.params[i])

(* Once the request is answered -- refused by the first route that matched, *)
(* say -- no action of another route runs, whatever its restrictions are.   *)
NothingActsOnAnswered == [][sent # <<>> => called' = called]_vars

\* How many steps at most a request is from leaving the route that has it.
Rest ==
  CASE stage = "enter"     -> 7 + Len(Route.params)
    [] stage = "params"    -> 6 + Len(Route.params) - Len(args)
    [] stage = "acting"    -> 5
    [] stage = "resolved"  -> 4
    [] stage = "rejected"  -> 3
    [] stage = "next"      -> 2
    [] stage = "unmatched" -> 1
    [] OTHER               -> 0

(* A request is handled in finitely many steps, through promises that       *)
(* reject in the middle of an answer and routes that pass it on: each step  *)
(* brings it nearer to the end of its route, or to the next of the chain,   *)
(* and it never comes back to a route.                                      *)
Advances == [][at' = at + 1 \/ (at' = at /\ Rest' < Rest)]_vars

(* Where a request ends the client has its answer: no route closes the       *)
(* connection unanswered, and none keeps the request, passed on or refused   *)
(* as it may be, but that whose own action ran last and rejected with what   *)
(* the Responder's handler of errors fails on.                               *)
KeptByAction ==
  /\ stage = "silent" /\ outcome \in Unhandled
  /\ called # <<>> /\ called[Len(called)].route = at
EndsAnswered == stage \in {"closed", "silent"} => sent # <<>> \/ KeptByAction

(* Every request is answered, by the route it was not passed on from or by   *)
(* the final handler, unless an action rejects with what the Responder's     *)
(* handler of errors fails on.                                               *)
Answered == <>(sent # <<>> \/ KeptByAction)

(* 'should handle exceptions inside operations': an operation that throws   *)
(* or rejects is answered too.                                              *)
ExceptionsAnswered == <>(sent # <<>>)
===============================================================================
