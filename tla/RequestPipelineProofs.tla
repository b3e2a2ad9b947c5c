------------------------ MODULE RequestPipelineProofs ------------------------
(***************************************************************************)
(* Theorems of RequestPipeline for every set of chains of routes: a type   *)
(* invariant, at most one answer, and that actions run only on requests    *)
(* they admit and that are not answered.                                   *)
(***************************************************************************)
EXTENDS RequestPipeline, TLAPS

-------------------------------------------------------------------------------
(* Types.                                                                  *)

Calls == [route : Nat, args : Seq(Arguments)]

(* What digest returns is what the type of the parameter promises, and never *)
(* undefined.                                                                *)
THEOREM DigestPromised ==
  ASSUME NEW type \in Types, NEW dto \in BOOLEAN, NEW v \in Values,
         NEW arg \in Digest(type, dto, v)
  PROVE  arg \in Promised(type, dto) /\ arg # Undefined
<1> USE DEF Digest, Promised, If, One, Undefined
<1>1. CASE type = "Boolean"
  BY <1>1 DEF BooleanType
<1>2. CASE type = "Number"
  BY <1>2 DEF NumberType
<1>3. CASE type \in {"Date", "DateTime"}
  BY <1>3 DEF DateTimeType
<1>4. CASE type \in {"String", "Password"}
  BY <1>4 DEF StringType
<1>5. CASE type = "StringArray"
  BY <1>5 DEF StringArrayType, Many
<1>6. CASE type = "NumberArray"
  BY <1>6 DEF NumberArrayType, Many
<1>7. CASE type = "Object"
  BY <1>7 DEF ObjectType, Boxed
<1>8. CASE type = "ObjectArray"
  <2>0. \A a \in DOMAIN Parsed : Parsed[a] \in {"object", "number", "boolean", "null", "list"}
    BY DEF Parsed
  <2>1. \A as \in Listed(v) : as \subseteq {"object", "number", "boolean", "null", "list"}
    <3>1. ASSUME NEW as \in Listed(v)
          PROVE  \/ All(v, DOMAIN Parsed) /\ as = {Parsed[a] : a \in v.of}
                 \/ as = {"object"}
                 \/ as = {"null"}
      BY DEF Listed
    <3>2. ASSUME NEW as \in Listed(v)
          PROVE  as \subseteq {"object", "number", "boolean", "null", "list"}
      <4>1. CASE All(v, DOMAIN Parsed) /\ as = {Parsed[a] : a \in v.of}
        BY <2>0, <4>1 DEF All
      <4>2. CASE as = {"object"} \/ as = {"null"}
        BY <4>2
      <4> QED
        BY <3>1, <3>2, <4>1, <4>2
    <3> QED
      BY <3>2
  <2>2. PICK as \in Listed(v) : arg = Many(IF dto THEN {"dto" : a \in as} ELSE as)
    BY <1>8 DEF ObjectArrayType
  <2> QED
    BY <1>8, <2>1, <2>2 DEF Many
<1> QED
  BY <1>1, <1>2, <1>3, <1>4, <1>5, <1>6, <1>7, <1>8 DEF Types

(* So the argument that ReadRight pushes suits its parameter. *)
LEMMA RightSuits ==
  ASSUME NEW param \in Params, NEW v \in Inputs,
         NEW arg \in Digest(param.type, param.dto, v)
  PROVE  arg \in Arguments /\ Suits(arg, param)
<1>1. param.type \in Types /\ param.dto \in BOOLEAN /\ v \in Values
  BY PipelineAssumption DEF Params
<1>2. arg \in Promised(param.type, param.dto) /\ arg # Undefined
  BY <1>1, DigestPromised
<1> QED
  BY <1>1, <1>2 DEF Arguments, Suits

(* The initial states are well typed, that of an empty chain too. *)
LEMMA TypeInit == Init => TypeOK
<1> SUFFICES ASSUME Init PROVE TypeOK
  OBVIOUS
<1> USE PipelineAssumption DEF Init
<1>1. chain \in Seq(Routes)
  OBVIOUS
<1>2. Len(chain) \in Nat
  BY <1>1
<1>3. at \in 1..(Len(chain) + 1)
  BY <1>2
<1>4. stage \in Stages /\ (stage \notin {"unmatched", "closed"} => at \in 1..Len(chain))
  BY <1>2 DEF Stages
<1>5. args = <<>> /\ called = <<>> /\ sent = <<>> /\ outcome \in Outcomes
  BY DEF Outcomes
<1> QED
  BY <1>3, <1>4, <1>5 DEF TypeOK

(* An answer that is appended, and a call, keep the types of the two histories. *)
LEMMA SendType ==
  ASSUME TypeOK, NEW status \in Outcomes, Send(status)
  PROVE  sent' \in Seq(Outcomes)
<1>1. sent \in Seq(Outcomes)
  BY DEF TypeOK
<1> QED
  BY <1>1 DEF Send

LEMMA ActType ==
  ASSUME TypeOK, Act
  PROVE  called' \in Seq(Calls)
<1>1. [route |-> at, args |-> args] \in Calls
  BY DEF TypeOK, Calls
<1>2. called \in Seq(Calls)
  BY DEF TypeOK, Calls
<1> QED
  BY <1>1, <1>2 DEF Act

(* The route that has the request is one, with a sequence of parameters. *)
LEMMA RouteTypes ==
  ASSUME TypeOK, at \in 1..Len(chain)
  PROVE  /\ Route.params \in Seq(Params)
         /\ Len(Route.params) \in Nat
<1>1. chain \in Seq(Routes)
  BY PipelineAssumption DEF TypeOK
<1>2. Route \in Routes
  BY <1>1 DEF Route
<1> QED
  BY <1>2 DEF Routes

(* Reading a value or none pushes an argument that suits its parameter. *)
LEMMA ReadSuits ==
  ASSUME TypeOK, ReadEmpty \/ ReadRight
  PROVE  \E arg \in Arguments : Push(arg) /\ Suits(arg, Param)
<1>1. CASE ReadEmpty
  BY <1>1 DEF ReadEmpty, Arguments, Suits
<1>2. CASE ReadRight
  <2>1. at \in 1..Len(chain) /\ Reading
    BY <1>2 DEF ReadRight, Reading, TypeOK
  <2>2. Route.params \in Seq(Params) /\ args \in Seq(Arguments)
    BY <2>1, RouteTypes DEF TypeOK
  <2>3. Len(args) + 1 \in 1..Len(Route.params)
    BY <2>1, <2>2 DEF Reading
  <2>4. Param \in Params
    BY <2>2, <2>3 DEF Param
  <2>5. PICK v \in Inputs : \E arg \in Digest(Param.type, Param.dto, v) : Push(arg)
    BY <1>2 DEF ReadRight
  <2>6. PICK arg \in Digest(Param.type, Param.dto, v) : Push(arg)
    BY <2>5
  <2>7. arg \in Arguments /\ Suits(arg, Param)
    BY <2>4, RightSuits
  <2> QED
    BY <2>6, <2>7
<1> QED
  BY <1>1, <1>2

(* Every step keeps the types. *)
LEMMA TypeStep == TypeOK /\ [Next]_vars => TypeOK'
<1> SUFFICES ASSUME TypeOK, [Next]_vars PROVE TypeOK'
  OBVIOUS
<1> USE PipelineAssumption
<1>0. chain' = chain /\ token' = token
  BY DEF Next, vars, Enter, EnterAnswered, EnterAdmitted, EnterRefused, Read, ReadEmpty,
         ReadMissing, ReadIgnored, ReadRight, ReadWrong, Push, Act, Settle, Respond,
         RespondNothing, RespondStatus, RespondJson, RespondCircular, Fail, FailSilently,
         PassOn, Finish, Keep
<1>n. Len(chain) \in Nat
  BY DEF TypeOK
<1>1. CASE Enter
  BY <1>0, <1>1 DEF TypeOK, Enter, EnterAnswered, EnterAdmitted, EnterRefused, Goto, Reject,
                    Stages, Outcomes, Statuses, Refusals
<1>2. CASE Read
  <2>1. args' = args \/ \E arg \in Arguments : args' = Append(args, arg)
    <3>1. CASE ReadEmpty \/ ReadRight
      BY <3>1, ReadSuits DEF Push
    <3>2. CASE ReadMissing \/ ReadIgnored \/ ReadWrong
      BY <3>2 DEF ReadMissing, ReadIgnored, ReadWrong
    <3> QED
      BY <1>2, <3>1, <3>2 DEF Read
  <2>2. args' \in Seq(Arguments)
    <3>1. args \in Seq(Arguments)
      BY DEF TypeOK, Arguments
    <3> QED
      BY <2>1, <3>1
  <2>3. UNCHANGED <<at, called, sent>>
    BY <1>2 DEF Read, ReadEmpty, ReadMissing, ReadIgnored, ReadRight, ReadWrong, Push
  <2>4. \/ UNCHANGED <<stage, outcome>>
        \/ stage = "params" /\ stage' \in {"resolved", "rejected"}
             /\ outcome' \in {"badrequest", "lookalike"}
    BY <1>2 DEF Read, ReadEmpty, ReadMissing, ReadIgnored, ReadRight, ReadWrong, Push,
                Reading, Resolve, Reject, Goto
  <2> QED
    BY <1>0, <2>2, <2>3, <2>4 DEF TypeOK, Stages, Outcomes, Statuses, Arguments
<1>3. CASE Act
  BY <1>0, <1>3, ActType DEF TypeOK, Act, Goto, Stages, Calls
<1>4. CASE Settle
  BY <1>0, <1>4 DEF TypeOK, Settle, Resolve, Reject, Goto, Stages, Outcomes
<1>5. CASE Respond
  <2>1. sent' \in Seq(Outcomes)
    <3>1. sent \in Seq(Outcomes) /\ outcome \in Outcomes /\ "ok" \in Outcomes
      BY DEF TypeOK, Outcomes, Statuses
    <3>2. CASE UNCHANGED sent
      BY <3>1, <3>2
    <3>3. CASE Send("ok") \/ Send(outcome)
      BY <3>1, <3>3, SendType
    <3> QED
      BY <1>5, <3>2, <3>3 DEF Respond, RespondNothing, RespondStatus, RespondJson,
                              RespondCircular, Fail, FailSilently
  <2>2. UNCHANGED <<at, args, called>>
    BY <1>5 DEF Respond, RespondNothing, RespondStatus, RespondJson, RespondCircular,
                Fail, FailSilently
  <2>3. /\ stage \in {"resolved", "rejected"} /\ stage' \in {"next", "rejected", "silent"}
        /\ outcome' \in {outcome, "internal"}
    BY <1>5 DEF Respond, RespondNothing, RespondStatus, RespondJson, RespondCircular,
                Fail, FailSilently, Goto, Reject
  <2> QED
    BY <1>0, <2>1, <2>2, <2>3 DEF TypeOK, Stages, Outcomes, Statuses, Refusals, Outcomes
<1>6. CASE PassOn
  BY <1>0, <1>n, <1>6 DEF TypeOK, PassOn, Goto, Stages
<1>7. CASE Finish
  <2>1. sent' \in Seq(Outcomes)
    BY <1>7, SendType DEF Finish, TypeOK, Outcomes, Statuses
  <2> QED
    BY <1>0, <1>7, <2>1 DEF TypeOK, Finish, Goto, Stages, Outcomes
<1>8. CASE UNCHANGED vars
  BY <1>8 DEF TypeOK, vars
<1> QED
  BY <1>1, <1>2, <1>3, <1>4, <1>5, <1>6, <1>7, <1>8 DEF Next

(* The type invariant of RequestPipeline holds for every set of chains: in  *)
(* particular `next` never runs past the routes that match the request.     *)
THEOREM TypeCorrect == Spec => []TypeOK
<1> QED
  BY TypeInit, TypeStep, PTL DEF Spec

-------------------------------------------------------------------------------
(* One answer.                                                             *)

(* An answer is sent only by a request that has none, and what follows it is *)
(* `next`, the entry into another route, or the end.                         *)
Answering == sent # <<>> => stage \in {"next", "enter", "unmatched", "closed"}
OneAnswer == Answering /\ AnsweredOnce

(* Every step keeps OneAnswer. *)
LEMMA AnswerStep == TypeOK /\ OneAnswer /\ [Next]_vars => OneAnswer'
<1> SUFFICES ASSUME TypeOK, OneAnswer, [Next]_vars PROVE OneAnswer'
  OBVIOUS
<1> USE DEF OneAnswer, Answering, AnsweredOnce
<1>n. sent \in Seq(Outcomes)
  BY DEF TypeOK, Outcomes
<1>s. ASSUME NEW status, Send(status), sent = <<>>
      PROVE  Len(sent') = 1
  BY <1>s DEF Send
<1>1. CASE Enter
  BY <1>1 DEF Enter, EnterAnswered, EnterAdmitted, EnterRefused, Goto
<1>2. CASE Read
  BY <1>2 DEF Read, ReadEmpty, ReadMissing, ReadIgnored, ReadRight, ReadWrong, Push, Reading
<1>3. CASE Act
  BY <1>3 DEF Act
<1>4. CASE Settle
  BY <1>4 DEF Settle
<1>5. CASE Respond
  <2>1. sent = <<>>
    BY <1>5 DEF Respond, RespondNothing, RespondStatus, RespondJson, RespondCircular,
                Fail, FailSilently
  <2>2. \/ UNCHANGED sent
        \/ stage' = "next" /\ \E status : Send(status)
    BY <1>5 DEF Respond, RespondNothing, RespondStatus, RespondJson, RespondCircular,
                Fail, FailSilently, Goto
  <2>3. CASE UNCHANGED sent
    BY <2>1, <2>3
  <2>4. CASE stage' = "next" /\ \E status : Send(status)
    <3>1. PICK status : Send(status)
      BY <2>4
    <3>2. Len(sent') = 1
      BY <1>s, <2>1, <3>1
    <3> QED
      BY <2>4, <3>2
  <2> QED
    BY <2>2, <2>3, <2>4
<1>6. CASE PassOn
  BY <1>6 DEF PassOn, Goto
<1>7. CASE Finish
  <2>1. stage' = "closed"
    BY <1>7 DEF Finish, Goto
  <2>2. Len(sent') <= 1
    <3>1. CASE sent = <<>>
      <4>1. Send("notfound")
        BY <1>7, <3>1 DEF Finish
      <4>2. Len(sent') = 1
        BY <1>s, <3>1, <4>1
      <4> QED
        BY <4>2
    <3>2. CASE sent # <<>>
      BY <1>7, <3>2 DEF Finish
    <3> QED
      BY <3>1, <3>2
  <2> QED
    BY <2>1, <2>2
<1>8. CASE UNCHANGED vars
  BY <1>8 DEF vars
<1> QED
  BY <1>1, <1>2, <1>3, <1>4, <1>5, <1>6, <1>7, <1>8 DEF Next

(* OneAnswer is an invariant. *)
LEMMA AnswerAlways == Spec => []OneAnswer
<1>1. Init => OneAnswer
  BY DEF Init, OneAnswer, Answering, AnsweredOnce
<1> QED
  BY <1>1, AnswerStep, TypeCorrect, PTL DEF Spec

(* At most one answer is sent, however many routes match a request. *)
THEOREM OneAnswerOnly == Spec => []AnsweredOnce
<1> QED
  BY AnswerAlways, PTL DEF OneAnswer

(* No action runs once the request is answered. *)
THEOREM NothingActsAfterAnswer == Spec => NothingActsOnAnswered
<1>1. ASSUME OneAnswer, [Next]_vars PROVE [sent # <<>> => called' = called]_vars
  <2> USE <1>1 DEF OneAnswer, Answering
  <2>1. CASE Act
    BY <2>1 DEF Act
  <2>2. CASE ~Act
    BY <2>2 DEF Next, vars, Enter, EnterAnswered, EnterAdmitted, EnterRefused, Read, ReadEmpty,
                ReadMissing, ReadIgnored, ReadRight, ReadWrong, Push, Settle, Respond,
                RespondNothing, RespondStatus, RespondJson, RespondCircular, Fail,
                FailSilently, PassOn, Finish
  <2> QED
    BY <2>1, <2>2
<1> QED
  BY <1>1, AnswerAlways, PTL DEF Spec, NothingActsOnAnswered

-------------------------------------------------------------------------------
(* Actions run on what their route admits.                                 *)

(* The arguments collected so far fit the parameters of a route. *)
Fits(as, route) ==
  /\ Len(as) <= Len(route.params)
  /\ \A i \in 1..Len(as) : Suits(as[i], route.params[i])

Admits(route) == \A status \in Refusals : ~Refuses(route, status)

(* While parameters are read the route admits the request, and the arguments *)
(* collected are those of this route alone.                                  *)
Admitting == stage = "params" => Admits(Route) /\ Fits(args, Route)
CallsInChain == \A k \in 1..Len(called) : called[k].route \in 1..Len(chain)
Admitted == Admitting /\ CallsInChain /\ ActsWhenAdmitted

(* An argument that fits the parameter at its place extends those that fit. *)
LEMMA PushFits ==
  ASSUME TypeOK, stage = "params", Admitting, NEW arg \in Arguments, Reading, Push(arg),
         Suits(arg, Param)
  PROVE  Fits(args', Route)
<1>1. at \in 1..Len(chain)
  BY DEF TypeOK
<1>2. Len(Route.params) \in Nat
  BY <1>1, RouteTypes
<1>3. args \in Seq(Arguments)
  BY DEF TypeOK, Arguments
<1>4. Len(args) \in Nat /\ Len(args) < Len(Route.params)
  BY <1>3 DEF Reading
<1>5. args' = Append(args, arg)
  BY DEF Push
<1>6. Len(args') = Len(args) + 1 /\ args'[Len(args) + 1] = arg
      /\ \A i \in 1..Len(args) : args'[i] = args[i]
  BY <1>3, <1>5
<1>7. \A i \in 1..Len(args) : Suits(args[i], Route.params[i])
  BY DEF Admitting, Fits
<1>8. ASSUME NEW i \in 1..Len(args')
      PROVE  Suits(args'[i], Route.params[i])
  <2>1. CASE i = Len(args) + 1
    BY <1>6, <1>8, <2>1 DEF Param
  <2>2. CASE i # Len(args) + 1
    <3>1. i \in 1..Len(args)
      BY <1>4, <1>6, <2>2
    <3> QED
      BY <1>6, <1>7, <1>8, <3>1
  <2> QED
    BY <2>1, <2>2
<1>9. Len(args') <= Len(Route.params)
  BY <1>2, <1>4, <1>6
<1> QED
  BY <1>8, <1>9 DEF Fits

(* The call that `Act` records is admitted, and those before stay so. *)
LEMMA ActAdmitted ==
  ASSUME TypeOK, Admitted, Act
  PROVE  CallsInChain' /\ ActsWhenAdmitted'
<1> DEFINE call == [route |-> at, args |-> args]
<1>1. at \in 1..Len(chain) /\ chain' = chain /\ token' = token
  BY DEF TypeOK, Act, Keep
<1>2. called \in Seq(Calls) /\ called' = Append(called, call)
  BY DEF TypeOK, Calls, Act
<1>3. Len(called) \in Nat /\ Len(called') = Len(called) + 1
      /\ called'[Len(called) + 1] = call
      /\ \A k \in 1..Len(called) : called'[k] = called[k]
  BY <1>2
<1>4. Admits(Route) /\ Fits(args, Route) /\ Len(args) = Len(Route.params)
  BY DEF Admitted, Admitting, Act
<1> DEFINE Good(k) ==
      /\ called'[k].route \in 1..Len(chain)
      /\ Admits(chain[called'[k].route])
      /\ Len(called'[k].args) = Len(chain[called'[k].route].params)
      /\ \A i \in 1..Len(chain[called'[k].route].params) :
           Suits(called'[k].args[i], chain[called'[k].route].params[i])
<1>5. ASSUME NEW k \in 1..Len(called') PROVE Good(k)
  <2>1. CASE k = Len(called) + 1
    <3>1. called'[k].route = at /\ called'[k].args = args
      BY <1>3, <2>1
    <3> QED
      BY <1>1, <1>4, <3>1 DEF Fits, Route
  <2>2. CASE k # Len(called) + 1
    <3>1. k \in 1..Len(called)
      BY <1>3, <2>2
    <3>2. called'[k] = called[k]
      BY <1>3, <3>1
    <3> QED
      BY <3>1, <3>2 DEF Admitted, CallsInChain, ActsWhenAdmitted, Admits
  <2> QED
    BY <2>1, <2>2
<1>6. CallsInChain'
  BY <1>1, <1>5 DEF CallsInChain
<1>7. ActsWhenAdmitted'
  BY <1>1, <1>5 DEF ActsWhenAdmitted, Admits, Refuses
<1> QED
  BY <1>6, <1>7

(* Every step keeps Admitted. *)
LEMMA AdmittedStep == TypeOK /\ Admitted /\ [Next]_vars => Admitted'
<1> SUFFICES ASSUME TypeOK, Admitted, [Next]_vars PROVE Admitted'
  OBVIOUS
<1>0. chain' = chain /\ token' = token
  BY DEF Next, vars, Enter, EnterAnswered, EnterAdmitted, EnterRefused, Read, ReadEmpty,
         ReadMissing, ReadIgnored, ReadRight, ReadWrong, Push, Act, Settle, Respond,
         RespondNothing, RespondStatus, RespondJson, RespondCircular, Fail, FailSilently,
         PassOn, Finish, Keep
<1>1. ASSUME called' = called PROVE CallsInChain' /\ ActsWhenAdmitted'
  BY <1>0, <1>1 DEF Admitted, CallsInChain, ActsWhenAdmitted, Refuses
<1>2. ASSUME called' = called, stage' # "params" PROVE Admitted'
  BY <1>1, <1>2 DEF Admitted, Admitting
<1>3. CASE Enter
  <2>1. CASE EnterAdmitted
    <3>1. at \in 1..Len(chain)
      BY <2>1 DEF TypeOK, EnterAdmitted
    <3>2. Len(Route.params) \in Nat
      BY <3>1, RouteTypes
    <3>3. args' = <<>> /\ at' = at /\ called' = called /\ Admits(Route)
      BY <2>1 DEF EnterAdmitted, Admits
    <3>4. Admits(Route)' /\ Fits(args, Route)'
      BY <1>0, <3>2, <3>3 DEF Admits, Refuses, Fits, Route
    <3> QED
      BY <1>1, <3>3, <3>4 DEF Admitted, Admitting
  <2>2. CASE EnterAnswered \/ EnterRefused
    BY <1>2, <2>2 DEF EnterAnswered, EnterRefused, Goto, Reject
  <2> QED
    BY <1>3, <2>1, <2>2 DEF Enter
<1>4. CASE Read
  <2>1. CASE ReadEmpty \/ ReadRight
    <3>1. PICK arg \in Arguments : Push(arg) /\ Suits(arg, Param)
      BY <2>1, ReadSuits
    <3>2. Reading /\ stage = "params" /\ Admitting
      BY <2>1 DEF ReadEmpty, ReadRight, Reading, Admitted
    <3>3. Fits(args', Route)
      BY <3>1, <3>2, PushFits
    <3>4. at' = at /\ called' = called
      BY <3>1 DEF Push
    <3>5. Admits(Route)' /\ Fits(args, Route)'
      BY <1>0, <3>2, <3>3, <3>4 DEF Admitting, Admits, Refuses, Fits, Route
    <3> QED
      BY <1>1, <3>4, <3>5 DEF Admitted, Admitting
  <2>2. CASE ReadMissing \/ ReadIgnored \/ ReadWrong
    BY <1>2, <2>2 DEF ReadMissing, ReadIgnored, ReadWrong, Resolve, Reject, Goto
  <2> QED
    BY <1>4, <2>1, <2>2 DEF Read
<1>5. CASE Act
  <2>1. CallsInChain' /\ ActsWhenAdmitted'
    BY <1>5, ActAdmitted
  <2> QED
    BY <1>5, <2>1 DEF Admitted, Admitting, Act, Goto
<1>6. CASE Settle
  BY <1>2, <1>6 DEF Settle, Resolve, Reject, Goto
<1>7. CASE Respond
  BY <1>2, <1>7 DEF Respond, RespondNothing, RespondStatus, RespondJson, RespondCircular,
                    Fail, FailSilently, Goto, Reject
<1>8. CASE PassOn
  BY <1>2, <1>8 DEF PassOn, Goto
<1>9. CASE Finish
  BY <1>2, <1>9 DEF Finish, Goto
<1>10. CASE UNCHANGED vars
  BY <1>0, <1>1, <1>10 DEF vars, Admitted, Admitting, Admits, Refuses, Fits, Route
<1> QED
  BY <1>3, <1>4, <1>5, <1>6, <1>7, <1>8, <1>9, <1>10 DEF Next

(* Actions run only on requests that their routes admit, with an argument  *)
(* for each parameter that is what its type promises, or undefined where   *)
(* none is required.                                                       *)
THEOREM ActsAdmitted == Spec => []ActsWhenAdmitted
<1>1. Init => Admitted
  BY DEF Init, Admitted, Admitting, CallsInChain, ActsWhenAdmitted
<1> QED
  BY <1>1, AdmittedStep, TypeCorrect, PTL DEF Spec, Admitted

-------------------------------------------------------------------------------
(* A request comes to an end, and is answered by then.                     *)

\* Only an action rejects with what the Responder fails on, and then it is the
\* one of the route that has the request.
ByAction ==
  stage = "acting" \/ (stage \in {"rejected", "silent"} /\ outcome \in Unhandled)
    => called # <<>> /\ called[Len(called)].route = at

EndsInv == EndsAnswered /\ ByAction

LEMMA ByActionStep ==
  ASSUME TypeOK, ByAction, [Next]_vars
  PROVE  ByAction'
<1> USE DEF ByAction
<1>1. CASE Act
  <2> DEFINE call == [route |-> at, args |-> args]
  <2>1. called' = Append(called, call) /\ at' = at
    BY <1>1 DEF Act
  <2>2. \E S : called \in Seq(S)
    BY DEF TypeOK
  <2>3. called' # <<>> /\ called'[Len(called')] = call
    <3> HIDE DEF call
    <3> QED BY <2>1, <2>2
  <2> QED BY <2>1, <2>3
<1>2. CASE Settle
  BY <1>2 DEF Settle, Resolve, Reject, Goto
<1>3. CASE FailSilently
  BY <1>3 DEF FailSilently, Goto
<1>4. CASE UNCHANGED vars
  BY <1>4 DEF vars
<1>5. CASE stage' \notin {"acting", "rejected", "silent"}
  BY <1>5
<1>6. CASE stage' = "rejected" /\ outcome' \in Refusals \cup {"badrequest"}
  BY <1>6 DEF Refusals, Unhandled
<1>7. CASE UNCHANGED <<stage, outcome, called, at>>
  BY <1>7
<1>8. \/ Act \/ Settle \/ FailSilently \/ UNCHANGED vars
      \/ stage' \notin {"acting", "rejected", "silent"}
      \/ stage' = "rejected" /\ outcome' \in Refusals \cup {"badrequest"}
      \/ UNCHANGED <<stage, outcome, called, at>>
  BY DEF Next, Enter, EnterAnswered, EnterAdmitted, EnterRefused, Read, ReadEmpty, ReadMissing,
         ReadIgnored, ReadRight, ReadWrong, Push, Reading, Respond, RespondNothing,
         RespondStatus, RespondJson, RespondCircular, Fail, PassOn, Finish, Resolve, Reject,
         Goto, Refusals
<1> QED BY <1>1, <1>2, <1>3, <1>4, <1>5, <1>6, <1>7, <1>8

LEMMA EndsStep == TypeOK /\ EndsInv /\ [Next]_vars => EndsInv'
<1> SUFFICES ASSUME TypeOK, EndsInv, [Next]_vars PROVE EndsInv'
  OBVIOUS
<1>0. ByAction'
  BY ByActionStep DEF EndsInv
<1> SUFFICES EndsAnswered'
  BY <1>0 DEF EndsInv
<1> USE DEF EndsInv, EndsAnswered
<1>1. CASE Finish
  <2>1. sent \in Seq(Outcomes)
    BY DEF TypeOK
  <2>2. CASE sent = <<>>
    BY <1>1, <2>2 DEF Finish, Send
  <2>3. CASE sent # <<>>
    BY <1>1, <2>3 DEF Finish
  <2> QED BY <2>2, <2>3
<1>2. CASE EnterAnswered
  BY <1>2 DEF EnterAnswered
<1>3. CASE FailSilently
  BY <1>0, <1>3 DEF FailSilently, Goto, ByAction, KeptByAction
<1>4. CASE stage' \notin {"closed", "silent"}
  BY <1>4
<1>5. CASE UNCHANGED vars
  BY <1>5 DEF vars, KeptByAction
<1>6. \/ Finish \/ EnterAnswered \/ FailSilently \/ UNCHANGED vars
      \/ stage' \notin {"closed", "silent"}
  BY DEF Next, Enter, EnterAdmitted, EnterRefused, Read, ReadEmpty, ReadMissing, ReadIgnored,
         ReadRight, ReadWrong, Push, Reading, Act, Settle, Respond, RespondNothing,
         RespondStatus, RespondJson, RespondCircular, Fail, PassOn, Resolve, Reject, Goto
<1> QED BY <1>1, <1>2, <1>3, <1>4, <1>5, <1>6

(* A request ends answered, unless the action that ran last rejects with    *)
(* what the Responder's handler of errors fails on, for any chain.          *)
THEOREM AnsweredAtEnd == Spec => []EndsAnswered
<1>1. Init => EndsInv
  BY DEF Init, EndsInv, EndsAnswered, ByAction
<1> QED
  BY <1>1, EndsStep, TypeCorrect, PTL DEF Spec, EndsInv

\* In a route, a request has so many steps left.
LEMMA RestTyped ==
  ASSUME TypeOK, stage \notin {"unmatched", "closed"}
  PROVE  Len(Route.params) \in Nat /\ Len(args) \in Nat /\ at \in Nat
<1>1. at \in 1..Len(chain)
  BY DEF TypeOK
<1> QED BY <1>1, RouteTypes DEF TypeOK

LEMMA AdvanceStep ==
  ASSUME TypeOK, Next
  PROVE  at' = at + 1 \/ (at' = at /\ Rest' < Rest)
<1>1. chain' = chain
  BY DEF Next, Enter, EnterAnswered, EnterAdmitted, EnterRefused, Read, ReadEmpty,
         ReadMissing, ReadIgnored, ReadRight, ReadWrong, Push, Act, Settle, Respond,
         RespondNothing, RespondStatus, RespondJson, RespondCircular, Fail, FailSilently,
         PassOn, Finish, Keep
<1> DEFINE p == Len(Route.params)
<1>2. CASE Enter
  <2>1. stage = "enter" /\ at' = at /\ Rest = 7 + p /\ p \in Nat
    BY <1>2, RestTyped DEF Enter, EnterAnswered, EnterAdmitted, EnterRefused, Rest
  <2>2. \/ stage' = "params" /\ args' = <<>>
        \/ stage' \in {"closed", "rejected"}
    BY <1>2 DEF Enter, EnterAnswered, EnterAdmitted, EnterRefused, Goto, Reject
  <2>3. CASE stage' = "params" /\ args' = <<>>
    <3>1. Route' = Route
      BY <1>1, <2>1 DEF Route
    <3>2. Rest' = 6 + p - 0
      BY <2>3, <3>1 DEF Rest
    <3> HIDE DEF p
    <3> QED BY <2>1, <3>2
  <2>4. CASE stage' \in {"closed", "rejected"}
    <3>1. Rest' \in {0, 3}
      BY <2>4 DEF Rest
    <3> HIDE DEF p
    <3> QED BY <2>1, <3>1
  <2> QED BY <2>2, <2>3, <2>4
<1>3. CASE Read
  <2>1. Reading /\ stage = "params" /\ at' = at
    BY <1>3 DEF Read, ReadEmpty, ReadMissing, ReadIgnored, ReadRight, ReadWrong, Push, Reading
  <2>2. /\ p \in Nat /\ Len(args) \in Nat /\ Len(args) < p
        /\ Rest = 6 + p - Len(args)
    BY <2>1, RestTyped DEF Reading, Rest
  <2>3. \/ stage' = "params" /\ \E arg : args' = Append(args, arg)
        \/ stage' \in {"resolved", "rejected"}
    BY <1>3, <2>1 DEF Read, ReadEmpty, ReadMissing, ReadIgnored, ReadRight, ReadWrong, Push,
                      Resolve, Reject, Goto
  <2>4. CASE stage' = "params" /\ \E arg : args' = Append(args, arg)
    <3>1. Len(args') = Len(args) + 1
      BY <2>4 DEF TypeOK
    <3>2. Rest' = 6 + p - (Len(args) + 1)
      BY <1>1, <2>1, <2>4, <3>1 DEF Rest, Route
    <3> HIDE DEF p
    <3> QED BY <2>1, <2>2, <3>2
  <2>5. CASE stage' \in {"resolved", "rejected"}
    <3>1. Rest' \in {3, 4}
      BY <2>5 DEF Rest
    <3> HIDE DEF p
    <3> QED BY <2>1, <2>2, <3>1
  <2> QED BY <2>3, <2>4, <2>5
<1>4. CASE Act
  <2>1. stage = "params" /\ at' = at /\ stage' = "acting" /\ Len(args) = p
    BY <1>4 DEF Act, Goto
  <2>2. p \in Nat /\ Rest = 6 + p - p /\ Rest' = 5
    BY <2>1, RestTyped DEF Rest
  <2> HIDE DEF p
  <2> QED BY <2>1, <2>2
<1>5. CASE Settle
  BY <1>5 DEF Settle, Resolve, Reject, Goto, Rest
<1>6. CASE Respond
  BY <1>6 DEF Respond, RespondNothing, RespondStatus, RespondJson, RespondCircular, Fail,
              FailSilently, Reject, Goto, Rest
<1>7. CASE PassOn
  BY <1>7 DEF PassOn
<1>8. CASE Finish
  BY <1>8 DEF Finish, Goto, Rest
<1> QED BY <1>2, <1>3, <1>4, <1>5, <1>6, <1>7, <1>8 DEF Next

(* No request is handled for ever: each step ends a route or brings the     *)
(* request nearer to its end, whatever the actions do.                      *)
THEOREM RequestsAdvance == Spec => Advances
<1>1. TypeOK /\ [Next]_vars => [at' = at + 1 \/ (at' = at /\ Rest' < Rest)]_vars
  BY AdvanceStep
<1> QED
  BY <1>1, TypeCorrect, PTL DEF Spec, Advances
===============================================================================
