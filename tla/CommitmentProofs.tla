--------------------------- MODULE CommitmentProofs ---------------------------
(***************************************************************************)
(* What commitment.ts guarantees for any number of Commitments, any        *)
(* sharing of Retries objects, any `times` and any executor.               *)
(***************************************************************************)
EXTENDS Commitment, FiniteSetTheorems, TLAPS

Action(c) == \/ New(c)
             \/ Resolve(c)
             \/ \E reason \in Reasons : Reject(c, reason)
             \/ Prepared(c)
             \/ NotPrepared(c)
             \/ Timer(c)

\* Next is an action of one of the Commitments.
LEMMA NextIsAction == Next <=> \E c \in Commitments : Action(c)
  BY DEF Next, Action, CallBack, Prepare

-------------------------------------------------------------------------------
(* The type invariant.                                                     *)

\* The initial state is well typed.
LEMMA TypeInit == Init => TypeOK
  BY CommitmentAssumption DEF Init, TypeOK, CommitmentAssumption

\* An action of one Commitment keeps the types.
LEMMA TypeStep ==
  ASSUME TypeOK, NEW c \in Commitments, Action(c)
  PROVE  TypeOK'
<1> USE CommitmentAssumption DEF CommitmentAssumption, TypeOK, Settled, Plus, Minus, Settle
<1>1. CASE New(c)
  BY <1>1 DEF New, Execute, Positive
<1>2. CASE Resolve(c)
  BY <1>2 DEF Resolve, Called
<1>3. CASE \E reason \in Reasons : Reject(c, reason)
  <2> PICK reason \in Reasons : Reject(c, reason)
    BY <1>3
  <2>1. CASE RejectUnreadable(c, reason)
    BY <2>1 DEF RejectUnreadable, Called
  <2>2. CASE RejectRetry(c, reason)
    BY <2>2 DEF RejectRetry, Called, Spend, CountAttempt
  <2>3. CASE RejectThrow(c, reason)
    BY <2>3 DEF RejectThrow, Called, Spend, CountAttempt
  <2>4. CASE RejectExhausted(c, reason)
    BY <2>4 DEF RejectExhausted, Called, Spend
  <2>5. CASE RejectExempt(c, reason)
    BY <2>5 DEF RejectExempt, Called
  <2> QED BY <2>1, <2>2, <2>3, <2>4, <2>5 DEF Reject
<1>4. CASE Prepared(c)
  BY <1>4 DEF Prepared
<1>5. CASE NotPrepared(c)
  BY <1>5 DEF NotPrepared
<1>6. CASE Timer(c)
  BY <1>6 DEF Timer, Execute
<1> QED BY <1>1, <1>2, <1>3, <1>4, <1>5, <1>6 DEF Action

(* Type correctness: the fields of commitment.ts keep their types, and no  *)
(* count of callbacks, preparations or timers in flight goes below zero.   *)
THEOREM TypeCorrect == Spec => []TypeOK
<1>1. TypeOK /\ [Next]_vars => TypeOK'
  <2> SUFFICES ASSUME TypeOK, [Next]_vars PROVE TypeOK'
    OBVIOUS
  <2>1. CASE Next
    BY <2>1, NextIsAction, TypeStep
  <2>2. CASE UNCHANGED vars
    BY <2>2 DEF TypeOK, vars
  <2> QED BY <2>1, <2>2
<1> QED BY TypeInit, <1>1, PTL DEF Spec

-------------------------------------------------------------------------------
(* The budget.                                                             *)

\* Nothing runs for a Commitment that was not constructed yet.
Unborn == \A c \in Commitments :
            promise[c] = "none" => runs[c] = 0 /\ open[c] = 0 /\ preparing[c] = 0 /\ waiting[c] = 0

\* A Retries object only ever loses retries.
TimesShrink == \A b \in Budgets : Positive(times[b]) <= Positive(Times[b])

BudgetInv == TypeOK /\ Unborn /\ TimesShrink /\ RetriesWithinBudget

\* Before any constructor ran, no budget is spent.
LEMMA BudgetInit == Init => BudgetInv
  BY TypeInit, CommitmentAssumption
  DEF Init, BudgetInv, Unborn, TimesShrink, RetriesWithinBudget, CommitmentAssumption, Positive

\* A Commitment that is not constructed has made no attempt, and an action of
\* another leaves it so.
LEMMA UnbornStep ==
  ASSUME TypeOK, Unborn, NEW c \in Commitments, Action(c)
  PROVE  Unborn'
<1> USE DEF TypeOK, Unborn, Plus, Minus, Settle
<1>1. CASE New(c)
  BY <1>1 DEF New, Execute
<1>2. CASE Resolve(c)
  BY <1>2 DEF Resolve, Called
<1>3. CASE \E reason \in Reasons : Reject(c, reason)
  BY <1>3 DEF Reject, RejectUnreadable, RejectRetry, RejectThrow, RejectExhausted, RejectExempt, Called
<1>4. CASE Prepared(c) \/ NotPrepared(c)
  BY <1>4 DEF Prepared, NotPrepared
<1>5. CASE Timer(c)
  BY <1>5 DEF Timer, Execute
<1> QED BY <1>1, <1>2, <1>3, <1>4, <1>5 DEF Action

\* An action takes from a Retries object what it adds to the attempts.
LEMMA BudgetStep ==
  ASSUME BudgetInv, NEW c \in Commitments, Action(c)
  PROVE  BudgetInv'
<1>1. TypeOK' /\ Unborn'
  BY TypeStep, UnbornStep DEF BudgetInv
<1>2. TimesShrink' /\ RetriesWithinBudget'
  <2> USE CommitmentAssumption
      DEF CommitmentAssumption, BudgetInv, TypeOK, Unborn, TimesShrink, RetriesWithinBudget,
          Retried, Positive, Limit, Plus, Minus, Settle
  <2>1. CASE New(c)
    BY <2>1 DEF New, Execute
  <2>2. CASE Resolve(c)
    BY <2>2 DEF Resolve, Called
  <2>3. CASE \E reason \in Reasons : Reject(c, reason)
    <3> PICK reason \in Reasons : Reject(c, reason)
      BY <2>3
    <3>1. CASE RejectUnreadable(c, reason)
      BY <3>1 DEF RejectUnreadable, Called
    <3>2. CASE RejectRetry(c, reason)
      BY <3>2 DEF RejectRetry, Called, Spend, HasTimes
    <3>3. CASE RejectThrow(c, reason)
      BY <3>3 DEF RejectThrow, Called, Spend, HasTimes
    <3>4. CASE RejectExhausted(c, reason)
      BY <3>4 DEF RejectExhausted, Called, Spend, HasTimes
    <3>5. CASE RejectExempt(c, reason)
      BY <3>5 DEF RejectExempt, Called
    <3> QED BY <3>1, <3>2, <3>3, <3>4, <3>5 DEF Reject
  <2>4. CASE Prepared(c)
    BY <2>4 DEF Prepared
  <2>5. CASE NotPrepared(c)
    BY <2>5 DEF NotPrepared
  <2>6. CASE Timer(c)
    BY <2>6 DEF Timer, Execute
  <2> QED BY <2>1, <2>2, <2>3, <2>4, <2>5, <2>6 DEF Action
<1> QED BY <1>1, <1>2 DEF BudgetInv

\* Every step keeps the budget invariant.
LEMMA BudgetNext == BudgetInv /\ [Next]_vars => BudgetInv'
<1> SUFFICES ASSUME BudgetInv, [Next]_vars PROVE BudgetInv'
  OBVIOUS
<1>1. CASE Next
  BY <1>1, NextIsAction, BudgetStep
<1>2. CASE UNCHANGED vars
  BY <1>2 DEF BudgetInv, TypeOK, Unborn, TimesShrink, RetriesWithinBudget, Retried, vars
<1> QED BY <1>1, <1>2

(* No Commitment is run more often than the `times` it was given allow,    *)
(* whatever its executor does with its callbacks and however many others   *)
(* count down the same Retries object.                                     *)
THEOREM BudgetKept == Spec => []RetriesWithinBudget
<1>1. BudgetInv => RetriesWithinBudget
  BY DEF BudgetInv
<1> QED BY BudgetInit, BudgetNext, <1>1, PTL DEF Spec

-------------------------------------------------------------------------------
(* The shared budget: a rejection that is retried adds one element to the   *)
(* retries of its Retries object, and takes one from it.                    *)

ShareInv ==
  \A b \in Budgets :
    /\ IsFiniteSet(SharedRetries(b))
    /\ Cardinality(SharedRetries(b)) + Positive(times[b]) <= Positive(Times[b])

\* The retries of one object, element by element.
LEMMA SharedElements ==
  ASSUME NEW b, NEW u
  PROVE  u \in SharedRetries(b)
           <=> \E c \in Commitments : BudgetOf[c] = b /\ \E n \in 1..Retried(c) : u = <<c, n>>
BY DEF SharedRetries

\* Commitments that retry no more often have no more retries.
LEMMA SharedShrinks ==
  ASSUME NEW b \in Budgets, IsFiniteSet(SharedRetries(b)), TypeOK, TypeOK',
         \A c \in Commitments : BudgetOf[c] = b => Retried(c)' <= Positive(Retried(c))
  PROVE  /\ IsFiniteSet(SharedRetries(b)')
         /\ Cardinality(SharedRetries(b)') <= Cardinality(SharedRetries(b))
<1>1. \A c \in Commitments : Retried(c) \in Int /\ Retried(c)' \in Int
  BY DEF TypeOK, Retried
<1>2. SharedRetries(b)' \subseteq SharedRetries(b)
  <2> SUFFICES ASSUME NEW c \in Commitments, BudgetOf[c] = b, NEW n \in 1..(Retried(c)')
               PROVE  <<c, n>> \in SharedRetries(b)
    BY DEF SharedRetries
  <2>1. n \in 1..Retried(c)
    BY <1>1 DEF Positive
  <2> QED BY <2>1, SharedElements
<1> QED BY <1>2, FS_Subset

LEMMA ShareInit == Init => ShareInv
<1> SUFFICES ASSUME Init, NEW b \in Budgets
             PROVE  /\ IsFiniteSet(SharedRetries(b))
                    /\ Cardinality(SharedRetries(b)) + Positive(times[b]) <= Positive(Times[b])
  BY DEF ShareInv
<1>1. \A c \in Commitments : Retried(c) = -1
  BY DEF Init, Retried
<1>2. SharedRetries(b) = {}
  BY <1>1, SharedElements
<1>3. IsFiniteSet({}) /\ Cardinality({}) = 0
  BY FS_EmptySet
<1>4. times[b] = Times[b] /\ Times[b] \in Int
  BY CommitmentAssumption DEF Init, CommitmentAssumption
<1> QED BY <1>2, <1>3, <1>4 DEF Positive

\* A step that starts no retry keeps the budget split.
LEMMA ShareKept ==
  ASSUME ShareInv, TypeOK, TypeOK',
         \A c \in Commitments : Retried(c)' <= Positive(Retried(c)),
         \A b \in Budgets : Positive(times'[b]) <= Positive(times[b])
  PROVE  ShareInv'
<1> SUFFICES ASSUME NEW b \in Budgets
             PROVE  /\ IsFiniteSet(SharedRetries(b)')
                    /\ Cardinality(SharedRetries(b)') + Positive(times'[b]) <= Positive(Times[b])
  BY DEF ShareInv
<1>1. /\ IsFiniteSet(SharedRetries(b))
      /\ Cardinality(SharedRetries(b)) + Positive(times[b]) <= Positive(Times[b])
  BY DEF ShareInv
<1>2. IsFiniteSet(SharedRetries(b)') /\ Cardinality(SharedRetries(b)') <= Cardinality(SharedRetries(b))
  BY <1>1, SharedShrinks
<1>3. Cardinality(SharedRetries(b)) \in Nat /\ Cardinality(SharedRetries(b)') \in Nat
  BY <1>1, <1>2, FS_CardinalityType
<1>4. Positive(times'[b]) \in Nat /\ Positive(times[b]) \in Nat /\ Positive(Times[b]) \in Nat
  BY CommitmentAssumption DEF TypeOK, CommitmentAssumption, Positive
<1> QED BY <1>1, <1>2, <1>3, <1>4

\* A set with one more element.
LEMMA OneMore ==
  ASSUME NEW S, NEW x, IsFiniteSet(S)
  PROVE  IsFiniteSet(S \cup {x}) /\ Cardinality(S \cup {x}) <= Cardinality(S) + 1
<1>1. Cardinality(S) \in Nat
  BY FS_CardinalityType
<1>2. IsFiniteSet(S \cup {x})
  BY FS_AddElement
<1>3. \/ Cardinality(S \cup {x}) = Cardinality(S)
      \/ Cardinality(S \cup {x}) = Cardinality(S) + 1
  BY FS_AddElement
<1> QED BY <1>1, <1>2, <1>3

\* One that is retried is one more, and takes one from its object.
LEMMA ShareRetry ==
  ASSUME BudgetInv, ShareInv, TypeOK', NEW c \in Commitments, NEW reason \in Reasons,
         RejectRetry(c, reason)
  PROVE  ShareInv'
<1> DEFINE a == BudgetOf[c]  new == <<c, Retried(c) + 1>>
<1>1. /\ TypeOK /\ a \in Budgets /\ times[a] > 0 /\ times' = [times EXCEPT ![a] = @ - 1]
      /\ preparing' = [preparing EXCEPT ![c] = @ + 1] /\ UNCHANGED <<runs, waiting>>
  BY CommitmentAssumption
  DEF BudgetInv, CommitmentAssumption, RejectRetry, HasTimes, Spend, Plus, Minus
<1>2. /\ Retried(c)' = Retried(c) + 1
      /\ \A d \in Commitments \ {c} : Retried(d)' = Retried(d)
      /\ \A d \in Commitments : Retried(d) \in Int
  BY <1>1 DEF TypeOK, Retried
<1> SUFFICES ASSUME NEW b \in Budgets
             PROVE  /\ IsFiniteSet(SharedRetries(b)')
                    /\ Cardinality(SharedRetries(b)') + Positive(times'[b]) <= Positive(Times[b])
  BY DEF ShareInv
<1>3. /\ IsFiniteSet(SharedRetries(b))
      /\ Cardinality(SharedRetries(b)) + Positive(times[b]) <= Positive(Times[b])
  BY DEF ShareInv
<1>4. Cardinality(SharedRetries(b)) \in Nat
  BY <1>3, FS_CardinalityType
<1>5. CASE b = a
  <2>1. SharedRetries(b)' \subseteq SharedRetries(b) \cup {new}
    <3> SUFFICES ASSUME NEW u \in SharedRetries(b)', u # new PROVE u \in SharedRetries(b)
      OBVIOUS
    <3>1. PICK d \in Commitments : BudgetOf[d] = b /\ \E n \in 1..(Retried(d)') : u = <<d, n>>
      BY DEF SharedRetries
    <3>2. PICK n \in 1..(Retried(d)') : u = <<d, n>>
      BY <3>1
    <3>3. n \in 1..Retried(d)
      BY <1>2, <3>2
    <3> QED BY <3>1, <3>2, <3>3, SharedElements
  <2>2. IsFiniteSet(SharedRetries(b) \cup {new})
        /\ Cardinality(SharedRetries(b) \cup {new}) <= Cardinality(SharedRetries(b)) + 1
    BY <1>3, OneMore
  <2>3. IsFiniteSet(SharedRetries(b)')
        /\ Cardinality(SharedRetries(b)') <= Cardinality(SharedRetries(b) \cup {new})
    BY <2>1, <2>2, FS_Subset
  <2>4. Cardinality(SharedRetries(b)') \in Nat /\ Cardinality(SharedRetries(b) \cup {new}) \in Nat
    BY <2>2, <2>3, FS_CardinalityType
  <2>5. Positive(times'[b]) = Positive(times[b]) - 1 /\ Positive(times[b]) \in Nat
    BY <1>1, <1>5 DEF TypeOK, Positive
  <2>6. Positive(Times[b]) \in Nat
    BY CommitmentAssumption DEF CommitmentAssumption, Positive
  <2> QED BY <1>3, <1>4, <2>2, <2>3, <2>4, <2>5, <2>6
<1>6. CASE b # a
  <2>1. times'[b] = times[b]
    BY <1>1, <1>6 DEF TypeOK
  <2>2. SharedRetries(b)' = SharedRetries(b)
    <3>1. \A d \in Commitments : BudgetOf[d] = b => Retried(d)' = Retried(d)
      BY <1>2, <1>6
    <3> QED BY <3>1 DEF SharedRetries
  <2> QED BY <1>3, <2>1, <2>2
<1> QED BY <1>5, <1>6

\* Every action keeps the budget split.
LEMMA ShareStep ==
  ASSUME BudgetInv, ShareInv, NEW c \in Commitments, Action(c)
  PROVE  ShareInv'
<1>1. TypeOK /\ TypeOK' /\ Unborn
  BY TypeStep DEF BudgetInv
<1> DEFINE Kept == /\ \A d \in Commitments : Retried(d)' <= Positive(Retried(d))
                   /\ \A b \in Budgets : Positive(times'[b]) <= Positive(times[b])
<1>2. CASE Kept
  BY <1>1, <1>2, ShareKept
<1>3. CASE \E reason \in Reasons : RejectRetry(c, reason)
  BY <1>1, <1>3, ShareRetry
<1> USE CommitmentAssumption DEF CommitmentAssumption, TypeOK, Retried, Positive, Plus, Minus
<1>4. CASE New(c)
  BY <1>1, <1>4, <1>2 DEF New, Execute, Unborn
<1>5. CASE Resolve(c)
  BY <1>1, <1>5, <1>2 DEF Resolve
<1>6. ASSUME NEW reason \in Reasons, Reject(c, reason) PROVE ShareInv'
  <2>1. CASE RejectUnreadable(c, reason) \/ RejectExempt(c, reason)
    BY <1>1, <2>1, <1>2 DEF RejectUnreadable, RejectExempt
  <2>2. CASE RejectThrow(c, reason) \/ RejectExhausted(c, reason)
    BY <1>1, <2>2, <1>2 DEF RejectThrow, RejectExhausted, Spend
  <2> QED BY <1>3, <1>6, <2>1, <2>2 DEF Reject
<1>7. CASE Prepared(c)
  BY <1>1, <1>7, <1>2 DEF Prepared
<1>8. CASE NotPrepared(c)
  BY <1>1, <1>8, <1>2 DEF NotPrepared
<1>9. CASE Timer(c)
  BY <1>1, <1>9, <1>2 DEF Timer, Execute
<1> QED BY <1>4, <1>5, <1>6, <1>7, <1>8, <1>9 DEF Action

LEMMA ShareNext == BudgetInv /\ ShareInv /\ [Next]_vars => ShareInv'
<1> SUFFICES ASSUME BudgetInv, ShareInv, [Next]_vars PROVE ShareInv'
  OBVIOUS
<1>1. CASE Next
  BY <1>1, NextIsAction, ShareStep
<1>2. CASE UNCHANGED vars
  BY <1>2 DEF vars, ShareInv, SharedRetries, Retried
<1> QED BY <1>1, <1>2

(* However many Commitments were given one Retries object, together they     *)
(* make no more retries than its `times` announced.                         *)
THEOREM BudgetSplit == Spec => []SharedBudgetIsSplit
<1>1. ShareInv => SharedBudgetIsSplit
  BY DEF ShareInv, SharedBudgetIsSplit
<1> QED BY <1>1, BudgetInit, BudgetNext, ShareInit, ShareNext, PTL DEF Spec

-------------------------------------------------------------------------------
(* Termination: what may still happen to a Commitment.                      *)

\* A budget counted times a constant goes down with it.
LEMMA Weighed ==
  ASSUME NEW k \in Nat, NEW x \in Nat, NEW y \in Nat
  PROVE  /\ x <= y => k * x <= k * y
         /\ y = x + 1 => k * y = k * x + k
  OBVIOUS

\* Left is a natural number, and is compared summand by summand.
LEMMA LeftTyped ==
  ASSUME TypeOK, NEW c \in Commitments
  PROVE  /\ Positive(times[BudgetOf[c]]) \in Nat /\ CallsPerRun \in Nat
         /\ open[c] \in Nat /\ preparing[c] \in Nat /\ waiting[c] \in Nat
         /\ (CallsPerRun + 3) * Positive(times[BudgetOf[c]]) \in Nat
         /\ (CallsPerRun + 2) * preparing[c] \in Nat /\ (CallsPerRun + 1) * waiting[c] \in Nat
         /\ Left(c) \in Nat
<1>1. /\ Positive(times[BudgetOf[c]]) \in Nat /\ CallsPerRun \in Nat
      /\ open[c] \in Nat /\ preparing[c] \in Nat /\ waiting[c] \in Nat
  BY CommitmentAssumption DEF TypeOK, CommitmentAssumption, Positive
<1>2. \A x, y \in Nat : x * y \in Nat
  OBVIOUS
<1>3. /\ (CallsPerRun + 3) * Positive(times[BudgetOf[c]]) \in Nat
      /\ (CallsPerRun + 2) * preparing[c] \in Nat /\ (CallsPerRun + 1) * waiting[c] \in Nat
  BY <1>1, <1>2
<1> QED BY <1>1, <1>3 DEF Left

\* What an action of one Commitment leaves of another: only a retry may be gone.
LEMMA LeftOfOthers ==
  ASSUME TypeOK, TypeOK', NEW d \in Commitments,
         UNCHANGED <<promise[d], open[d], preparing[d], waiting[d]>>,
         \A b \in Budgets : Positive(times'[b]) <= Positive(times[b])
  PROVE  Left(d)' <= Left(d)
<1>1. BudgetOf[d] \in Budgets
  BY CommitmentAssumption DEF CommitmentAssumption
<1>2. Positive(times'[BudgetOf[d]]) <= Positive(times[BudgetOf[d]])
  BY <1>1
<1>3. /\ Positive(times[BudgetOf[d]]) \in Nat /\ Positive(times'[BudgetOf[d]]) \in Nat
      /\ CallsPerRun + 3 \in Nat
  BY <1>1, CommitmentAssumption DEF TypeOK, CommitmentAssumption, Positive
<1>4. (CallsPerRun + 3) * Positive(times'[BudgetOf[d]])
        <= (CallsPerRun + 3) * Positive(times[BudgetOf[d]])
  BY <1>2, <1>3, Weighed
<1>5. /\ (CallsPerRun + 3) * Positive(times[BudgetOf[d]]) \in Nat
      /\ (CallsPerRun + 3) * Positive(times'[BudgetOf[d]]) \in Nat
      /\ (CallsPerRun + 2) * preparing[d] \in Nat /\ (CallsPerRun + 1) * waiting[d] \in Nat
      /\ open[d] \in Nat /\ CallsPerRun \in Nat
  <2>1. \A x, y \in Nat : x * y \in Nat
    OBVIOUS
  <2> QED BY <1>3, <2>1, LeftTyped
<1> DEFINE a == (CallsPerRun + 3) * Positive(times[BudgetOf[d]])
           a1 == (CallsPerRun + 3) * Positive(times'[BudgetOf[d]])
           rest == (CallsPerRun + 2) * preparing[d] + (CallsPerRun + 1) * waiting[d] + open[d]
                     + (IF promise[d] = "none" THEN CallsPerRun + 1 ELSE 0)
<1>6. Left(d) = a + rest /\ Left(d)' = a1 + rest
  BY <1>5 DEF Left
<1>7. a \in Nat /\ a1 \in Nat /\ rest \in Nat /\ a1 <= a
  BY <1>4, <1>5
<1> HIDE DEF a, a1, rest
<1> QED BY <1>6, <1>7

\* What is left, as a function of the counters it is made of.
Weight(k, t, p, w, o, n) == (k + 3) * t + (k + 2) * p + (k + 1) * w + o + n

LEMMA LeftIsWeight ==
  ASSUME NEW c \in Commitments
  PROVE  /\ Left(c) = Weight(CallsPerRun, Positive(times[BudgetOf[c]]), preparing[c], waiting[c],
                             open[c], IF promise[c] = "none" THEN CallsPerRun + 1 ELSE 0)
         /\ Left(c)' = Weight(CallsPerRun, Positive(times'[BudgetOf[c]]), preparing'[c],
                              waiting'[c], open'[c],
                              IF promise'[c] = "none" THEN CallsPerRun + 1 ELSE 0)
  BY DEF Left, Weight

\* How each kind of step makes it smaller: a call, a retry, a preparation that
\* ends in a timer or in nothing, a timer that runs the executor, a constructor.
LEMMA WeightShrinks ==
  ASSUME NEW k \in Nat, NEW t \in Nat, NEW t1 \in Nat, t1 <= t,
         NEW p \in Nat, NEW w \in Nat, NEW o \in Nat, NEW n \in Nat
  PROVE  /\ o > 0 => Weight(k, t1, p, w, o - 1, n) < Weight(k, t, p, w, o, n)
         /\ t > 0 /\ o > 0 => Weight(k, t - 1, p + 1, w, o - 1, n) < Weight(k, t, p, w, o, n)
         /\ p > 0 => Weight(k, t, p - 1, w + 1, o, n) < Weight(k, t, p, w, o, n)
         /\ p > 0 => Weight(k, t, p - 1, w, o, n) < Weight(k, t, p, w, o, n)
         /\ w > 0 => Weight(k, t, p, w - 1, o + k, n) < Weight(k, t, p, w, o, n)
         /\ Weight(k, t1, p, w, o + k, 0) < Weight(k, t, p, w, o, k + 1)
<1>1. /\ \A x, y \in Nat : x * y \in Nat
      /\ \A x \in Nat, y \in Nat \ {0} : x * y = x * (y - 1) + x
      /\ \A x, y \in Nat : x * (y + 1) = x * y + x
  OBVIOUS
<1>2. (k + 3) * t1 <= (k + 3) * t
  BY Weighed
<1>3. /\ (k + 3) * t \in Nat /\ (k + 3) * t1 \in Nat /\ (k + 2) * p \in Nat /\ (k + 1) * w \in Nat
      /\ t > 0 => (k + 3) * t = (k + 3) * (t - 1) + (k + 3) /\ (k + 3) * (t - 1) \in Nat
      /\ p > 0 => (k + 2) * p = (k + 2) * (p - 1) + (k + 2) /\ (k + 2) * (p - 1) \in Nat
      /\ w > 0 => (k + 1) * w = (k + 1) * (w - 1) + (k + 1) /\ (k + 1) * (w - 1) \in Nat
      /\ (k + 2) * (p + 1) = (k + 2) * p + (k + 2)
      /\ (k + 1) * (w + 1) = (k + 1) * w + (k + 1)
  BY <1>1
<1>4. o > 0 => Weight(k, t1, p, w, o - 1, n) < Weight(k, t, p, w, o, n)
  BY <1>2, <1>3 DEF Weight
<1>5. t > 0 /\ o > 0 => Weight(k, t - 1, p + 1, w, o - 1, n) < Weight(k, t, p, w, o, n)
  BY <1>3 DEF Weight
<1>6. p > 0 => Weight(k, t, p - 1, w + 1, o, n) < Weight(k, t, p, w, o, n)
  BY <1>3 DEF Weight
<1>7. p > 0 => Weight(k, t, p - 1, w, o, n) < Weight(k, t, p, w, o, n)
  BY <1>3 DEF Weight
<1>8. w > 0 => Weight(k, t, p, w - 1, o + k, n) < Weight(k, t, p, w, o, n)
  BY <1>3 DEF Weight
<1>9. Weight(k, t1, p, w, o + k, 0) < Weight(k, t, p, w, o, k + 1)
  BY <1>2, <1>3 DEF Weight
<1> QED BY <1>4, <1>5, <1>6, <1>7, <1>8, <1>9

\* An action leaves other Commitments as they are, and no object gains retries.
LEMMA StepSpends ==
  ASSUME TypeOK, TypeOK', NEW c \in Commitments, Action(c)
  PROVE  /\ \A d \in Commitments \ {c} :
              UNCHANGED <<promise[d], open[d], preparing[d], waiting[d]>>
         /\ \A b \in Budgets : Positive(times'[b]) <= Positive(times[b])
<1> USE CommitmentAssumption
    DEF CommitmentAssumption, TypeOK, Plus, Minus, Positive, Called, Settle
<1>1. CASE New(c)
  BY <1>1 DEF New, Execute
<1>2. CASE Resolve(c)
  BY <1>2 DEF Resolve
<1>3. ASSUME NEW reason \in Reasons, Reject(c, reason)
      PROVE  /\ \A d \in Commitments \ {c} :
                  UNCHANGED <<promise[d], open[d], preparing[d], waiting[d]>>
             /\ \A b \in Budgets : Positive(times'[b]) <= Positive(times[b])
  BY <1>3 DEF Reject, RejectUnreadable, RejectRetry, RejectThrow, RejectExhausted, RejectExempt,
              Spend
<1>4. CASE Prepared(c)
  BY <1>4 DEF Prepared
<1>5. CASE NotPrepared(c)
  BY <1>5 DEF NotPrepared
<1>6. CASE Timer(c)
  BY <1>6 DEF Timer, Execute
<1> QED BY <1>1, <1>2, <1>3, <1>4, <1>5, <1>6 DEF Action

\* The Commitment that takes a step has less left.
LEMMA LeftOfActor ==
  ASSUME TypeOK, TypeOK', NEW c \in Commitments, Action(c)
  PROVE  Left(c)' < Left(c)
<1> DEFINE t == Positive(times[BudgetOf[c]])  t1 == Positive(times'[BudgetOf[c]])
           p == preparing[c]  w == waiting[c]  o == open[c]
           n == IF promise[c] = "none" THEN CallsPerRun + 1 ELSE 0
           n1 == IF promise'[c] = "none" THEN CallsPerRun + 1 ELSE 0
<1>1. /\ CallsPerRun \in Nat /\ t \in Nat /\ t1 \in Nat /\ p \in Nat /\ w \in Nat /\ o \in Nat
      /\ n \in Nat /\ n1 \in Nat
  BY CommitmentAssumption DEF CommitmentAssumption, TypeOK, Positive
<1>2. BudgetOf[c] \in Budgets /\ t1 <= t
  BY CommitmentAssumption, StepSpends DEF CommitmentAssumption
<1>3. /\ Left(c) = Weight(CallsPerRun, t, p, w, o, n)
      /\ Left(c)' = Weight(CallsPerRun, t1, preparing'[c], waiting'[c], open'[c], n1)
  BY LeftIsWeight
<1>4. \/ /\ o > 0 /\ open'[c] = o - 1 /\ preparing'[c] = p /\ waiting'[c] = w /\ n1 = n
      \/ /\ t > 0 /\ o > 0 /\ t1 = t - 1 /\ preparing'[c] = p + 1 /\ open'[c] = o - 1
         /\ waiting'[c] = w /\ n1 = n
      \/ /\ p > 0 /\ t1 = t /\ preparing'[c] = p - 1 /\ waiting'[c] = w + 1 /\ open'[c] = o
         /\ n1 = n
      \/ /\ p > 0 /\ t1 = t /\ preparing'[c] = p - 1 /\ waiting'[c] = w /\ open'[c] = o /\ n1 = n
      \/ /\ w > 0 /\ t1 = t /\ preparing'[c] = p /\ waiting'[c] = w - 1
         /\ open'[c] = o + CallsPerRun /\ n1 = n
      \/ /\ n = CallsPerRun + 1 /\ n1 = 0 /\ preparing'[c] = p /\ waiting'[c] = w
         /\ open'[c] = o + CallsPerRun
  <2> USE <1>2, CommitmentAssumption
      DEF TypeOK, Plus, Minus, Positive, Called, Settle, Settled, Spend
  <2>1. CASE New(c)
    BY <2>1 DEF New, Execute
  <2>2. CASE Resolve(c)
    BY <2>2 DEF Resolve
  <2>3. ASSUME NEW reason \in Reasons, RejectRetry(c, reason)
        PROVE  /\ t > 0 /\ o > 0 /\ t1 = t - 1 /\ preparing'[c] = p + 1 /\ open'[c] = o - 1
               /\ waiting'[c] = w /\ n1 = n
    BY <2>3 DEF RejectRetry, HasTimes
  <2>4. ASSUME NEW reason \in Reasons, Reject(c, reason), ~RejectRetry(c, reason)
        PROVE  o > 0 /\ open'[c] = o - 1 /\ preparing'[c] = p /\ waiting'[c] = w /\ n1 = n
    BY <2>4 DEF Reject, RejectUnreadable, RejectThrow, RejectExhausted, RejectExempt
  <2>5. CASE Prepared(c)
    BY <2>5 DEF Prepared
  <2>6. CASE NotPrepared(c)
    BY <2>6 DEF NotPrepared
  <2>7. CASE Timer(c)
    BY <2>7 DEF Timer, Execute
  <2> QED BY <2>1, <2>2, <2>3, <2>4, <2>5, <2>6, <2>7 DEF Action
<1> HIDE DEF t, t1, p, w, o, n, n1
<1>5. /\ o > 0 => Weight(CallsPerRun, t1, p, w, o - 1, n) < Weight(CallsPerRun, t, p, w, o, n)
      /\ t > 0 /\ o > 0 => Weight(CallsPerRun, t - 1, p + 1, w, o - 1, n)
                             < Weight(CallsPerRun, t, p, w, o, n)
      /\ p > 0 => Weight(CallsPerRun, t, p - 1, w + 1, o, n) < Weight(CallsPerRun, t, p, w, o, n)
      /\ p > 0 => Weight(CallsPerRun, t, p - 1, w, o, n) < Weight(CallsPerRun, t, p, w, o, n)
      /\ w > 0 => Weight(CallsPerRun, t, p, w - 1, o + CallsPerRun, n)
                    < Weight(CallsPerRun, t, p, w, o, n)
      /\ Weight(CallsPerRun, t1, p, w, o + CallsPerRun, 0)
           < Weight(CallsPerRun, t, p, w, o, CallsPerRun + 1)
  BY <1>1, <1>2, WeightShrinks
<1> QED BY <1>3, <1>4, <1>5

LEMMA StepIsSpent ==
  TypeOK /\ TypeOK' /\ [Next]_vars
    => [/\ \E c \in Commitments : Left(c)' < Left(c)
        /\ \A c \in Commitments : Left(c)' <= Left(c)]_vars
<1> SUFFICES ASSUME TypeOK, TypeOK', Next
             PROVE  /\ \E c \in Commitments : Left(c)' < Left(c)
                    /\ \A c \in Commitments : Left(c)' <= Left(c)
  OBVIOUS
<1>1. PICK c \in Commitments : Action(c)
  BY NextIsAction
<1>2. Left(c)' < Left(c)
  BY <1>1, LeftOfActor
<1>3. Left(c) \in Nat /\ Left(c)' \in Nat
  <2>1. /\ CallsPerRun \in Nat
        /\ Positive(times'[BudgetOf[c]]) \in Nat
        /\ preparing'[c] \in Nat /\ waiting'[c] \in Nat /\ open'[c] \in Nat
    BY CommitmentAssumption DEF CommitmentAssumption, TypeOK, Positive
  <2>2. \A x, y \in Nat : x * y \in Nat
    OBVIOUS
  <2>3. /\ (CallsPerRun + 3) * Positive(times'[BudgetOf[c]]) \in Nat
        /\ (CallsPerRun + 2) * preparing'[c] \in Nat /\ (CallsPerRun + 1) * waiting'[c] \in Nat
    BY <2>1, <2>2
  <2>4. Left(c)' \in Nat
    BY <2>1, <2>3 DEF Left
  <2> QED BY <2>4, LeftTyped
<1>4. \A d \in Commitments \ {c} : Left(d)' <= Left(d)
  BY <1>1, StepSpends, LeftOfOthers
<1> QED BY <1>2, <1>3, <1>4

(* Every step uses up a retry, a call, a preparation or a timer: no          *)
(* Commitment keeps itself running, however its callbacks are misused.       *)
THEOREM EveryStepIsSpent == Spec => EveryStepSpends
<1>1. Spec => []TypeOK
  BY TypeCorrect
<1> QED BY <1>1, StepIsSpent, PTL DEF Spec, EveryStepSpends

-------------------------------------------------------------------------------
(* One thread: with an executor that calls back once per run, a Commitment  *)
(* is either in a run, or in a preparation, or behind a timer, until it is  *)
(* settled; and onBeforeRetry has been called once per run that failed.     *)

InFlight(c) == open[c] + preparing[c] + waiting[c]

OneThread == \A c \in Commitments :
               /\ InFlight(c) <= 1
               /\ promise[c] \in Settled => InFlight(c) = 0

Numbered == \A c \in Prepares : InFlight(c) = 1 => attempt[c] = runs[c] - open[c]

ThreadInv == TypeOK /\ Unborn /\ OneThread /\ Numbered

\* Before its constructor no onBeforeRetry of a Commitment was called.
Uncounted == \A c \in Commitments : promise[c] = "none" => attempt[c] = 0

PoliteInv == TypeOK /\ Unborn /\ (Polite => OneThread /\ Numbered /\ Uncounted)

\* A Commitment that is not constructed has nothing in flight.
LEMMA PoliteInit == Init => PoliteInv
  BY TypeInit, CommitmentAssumption
  DEF Init, PoliteInv, Unborn, OneThread, Numbered, Uncounted, InFlight, Settled,
      CommitmentAssumption

\* Settling touches one promise, and only when it is pending.
LEMMA SettleEffect ==
  ASSUME TypeOK, NEW c \in Commitments, NEW how \in Settled, Settle(c, how)
  PROVE  /\ \A d \in Commitments \ {c} : promise'[d] = promise[d]
         /\ \/ promise'[c] = promise[c] /\ promise[c] # "pending"
            \/ promise[c] = "pending" /\ promise'[c] \in Settled
  BY DEF TypeOK, Settle

\* What the invariant says of one Commitment.
LEMMA PoliteFacts ==
  ASSUME Polite, PoliteInv, NEW d \in Commitments
  PROVE  /\ open[d] \in Nat /\ preparing[d] \in Nat /\ waiting[d] \in Nat
         /\ runs[d] \in Nat /\ attempt[d] \in Nat
         /\ open[d] + preparing[d] + waiting[d] <= 1
         /\ promise[d] \in Settled => open[d] + preparing[d] + waiting[d] = 0
         /\ promise[d] = "none" => /\ runs[d] = 0 /\ attempt[d] = 0
                                   /\ open[d] + preparing[d] + waiting[d] = 0
         /\ d \in Prepares /\ open[d] + preparing[d] + waiting[d] = 1
              => attempt[d] = runs[d] - open[d]
<1>1. /\ open[d] \in Nat /\ preparing[d] \in Nat /\ waiting[d] \in Nat
      /\ runs[d] \in Nat /\ attempt[d] \in Nat
  BY DEF PoliteInv, TypeOK
<1>2. OneThread /\ Numbered /\ Uncounted /\ Unborn
  BY DEF PoliteInv
<1> QED BY <1>1, <1>2 DEF OneThread, Numbered, Uncounted, Unborn, InFlight

\* A step that moves only c keeps the invariant when it keeps it at c.
LEMMA PoliteLocal ==
  ASSUME Polite, PoliteInv, NEW c \in Commitments, TypeOK',
         \A d \in Commitments \ {c} :
           /\ promise'[d] = promise[d] /\ attempt'[d] = attempt[d] /\ runs'[d] = runs[d]
           /\ open'[d] = open[d] /\ preparing'[d] = preparing[d] /\ waiting'[d] = waiting[d],
         InFlight(c)' <= 1,
         promise'[c] \in Settled => InFlight(c)' = 0,
         c \in Prepares /\ InFlight(c)' = 1 => attempt'[c] = runs'[c] - open'[c],
         promise'[c] = "none" => attempt'[c] = 0
  PROVE  OneThread' /\ Numbered' /\ Uncounted'
<1>1. OneThread /\ Numbered /\ Uncounted
  BY DEF PoliteInv
<1>2. \A d \in Commitments \ {c} : InFlight(d)' = InFlight(d)
  BY DEF InFlight
<1>3. OneThread'
  BY <1>1, <1>2 DEF OneThread
<1>4. Numbered'
  BY <1>1, <1>2, CommitmentAssumption DEF Numbered, CommitmentAssumption
<1>5. Uncounted'
  BY <1>1 DEF Uncounted
<1> QED BY <1>3, <1>4, <1>5

\* A call of reject or resolve, or a failed preparation, that settles c.
LEMMA PoliteEnds ==
  ASSUME Polite, PoliteInv, TypeOK', NEW c \in Commitments, NEW how \in Settled, Settle(c, how),
         UNCHANGED <<attempt, runs, waiting>>,
         \/ Called(c) /\ UNCHANGED preparing
         \/ preparing[c] > 0 /\ preparing' = Minus(preparing, c) /\ UNCHANGED open
  PROVE  OneThread' /\ Numbered' /\ Uncounted'
<1>1. TypeOK
  BY DEF PoliteInv
<1>2. /\ \A d \in Commitments \ {c} : open'[d] = open[d] /\ preparing'[d] = preparing[d]
      /\ open'[c] + preparing'[c] = open[c] + preparing[c] - 1
      /\ open[c] + preparing[c] > 0
      /\ waiting'[c] = waiting[c]
  BY <1>1 DEF TypeOK, Called, Minus
<1>3. InFlight(c)' = 0
  <2>1. /\ open[c] \in Nat /\ preparing[c] \in Nat /\ waiting[c] \in Nat
        /\ open'[c] \in Nat /\ preparing'[c] \in Nat
        /\ open[c] + preparing[c] + waiting[c] <= 1
    BY PoliteFacts DEF TypeOK
  <2> QED BY <1>2, <2>1 DEF InFlight
<1>4. promise'[c] # "none"
  BY <1>1, <1>2, SettleEffect, PoliteFacts DEF Settled
<1> QED BY <1>1, <1>2, <1>3, <1>4, SettleEffect, PoliteLocal

\* The executor of c is run: by its constructor, or by a timer that ends.
LEMMA PoliteRuns ==
  ASSUME Polite, PoliteInv, TypeOK', NEW c \in Commitments, New(c) \/ Timer(c)
  PROVE  OneThread' /\ Numbered' /\ Uncounted'
<1>1. TypeOK
  BY DEF PoliteInv
<1>2. \A d \in Commitments \ {c} :
        /\ promise'[d] = promise[d] /\ attempt'[d] = attempt[d] /\ runs'[d] = runs[d]
        /\ open'[d] = open[d] /\ preparing'[d] = preparing[d] /\ waiting'[d] = waiting[d]
  BY <1>1 DEF New, Timer, Execute, TypeOK, Plus, Minus
<1>3. /\ runs'[c] = runs[c] + 1 /\ open'[c] = open[c] + 1
      /\ attempt'[c] = attempt[c] /\ preparing'[c] = preparing[c]
  BY <1>1 DEF New, Timer, Execute, TypeOK, Plus, Polite
<1>4. CASE New(c)
  <2>1. promise[c] = "none" /\ promise'[c] = "pending" /\ waiting'[c] = waiting[c]
    BY <1>1, <1>4 DEF New, TypeOK
  <2>2. InFlight(c)' = 1 /\ attempt'[c] = runs'[c] - open'[c] /\ promise'[c] \notin Settled
    BY <1>3, <2>1, PoliteFacts DEF InFlight, Settled
  <2> QED BY <1>2, <2>1, <2>2, PoliteLocal
<1>5. CASE Timer(c)
  <2>1. waiting[c] > 0 /\ promise'[c] = promise[c] /\ waiting'[c] = waiting[c] - 1
    BY <1>1, <1>5 DEF Timer, Minus, TypeOK
  <2>2. /\ InFlight(c)' = InFlight(c) /\ InFlight(c) = 1
        /\ c \in Prepares => attempt'[c] = runs'[c] - open'[c]
    BY <1>3, <2>1, PoliteFacts DEF InFlight
  <2>3. promise'[c] \notin Settled /\ promise'[c] # "none"
    BY <2>1, <2>2, PoliteFacts DEF InFlight
  <2> QED BY <1>2, <2>2, <2>3, PoliteLocal
<1> QED BY <1>4, <1>5

\* An action of a polite Commitment keeps the invariant.
LEMMA PoliteStep ==
  ASSUME Polite, PoliteInv, NEW c \in Commitments, Action(c)
  PROVE  OneThread' /\ Numbered' /\ Uncounted'
<1>1. TypeOK /\ TypeOK'
  BY TypeStep DEF PoliteInv
<1> USE DEF TypeOK, InFlight, Plus, Minus
<1> DEFINE Goal == OneThread' /\ Numbered' /\ Uncounted'
<1>2. CASE New(c)
  BY <1>1, <1>2, PoliteRuns
<1>3. CASE Prepared(c)
  BY <1>1, <1>3, PoliteFacts, PoliteLocal DEF Prepared
<1>4. CASE Timer(c)
  BY <1>1, <1>4, PoliteRuns
<1>5. CASE Resolve(c)
  BY <1>1, <1>5, PoliteEnds DEF Resolve, Settled
<1>6. CASE NotPrepared(c)
  BY <1>1, <1>6, PoliteEnds DEF NotPrepared, Settled
<1>7. ASSUME NEW reason \in Reasons, Reject(c, reason)
      PROVE  Goal
  <2>1. CASE RejectUnreadable(c, reason)
    BY <1>1, <2>1, PoliteFacts, PoliteLocal DEF RejectUnreadable, Called
  <2>2. CASE RejectRetry(c, reason)
    BY <1>1, <2>2, PoliteFacts, PoliteLocal DEF RejectRetry, Called, CountAttempt
  <2>3. CASE RejectThrow(c, reason)
    BY <1>1, <2>3, PoliteFacts, PoliteLocal DEF RejectThrow, Called, CountAttempt
  <2>4. CASE RejectExhausted(c, reason)
    BY <1>1, <2>4, PoliteEnds DEF RejectExhausted, Settled
  <2>5. CASE RejectExempt(c, reason)
    BY <1>1, <2>5, PoliteEnds DEF RejectExempt, Settled
  <2> QED BY <1>7, <2>1, <2>2, <2>3, <2>4, <2>5 DEF Reject
<1> QED BY <1>2, <1>3, <1>4, <1>5, <1>6, <1>7 DEF Action

\* Every step keeps it.
LEMMA PoliteNext == PoliteInv /\ [Next]_vars => PoliteInv'
<1> SUFFICES ASSUME PoliteInv, [Next]_vars PROVE PoliteInv'
  OBVIOUS
<1>1. CASE Next
  <2> PICK c \in Commitments : Action(c)
    BY <1>1, NextIsAction
  <2>1. TypeOK' /\ Unborn'
    BY TypeStep, UnbornStep DEF PoliteInv
  <2>2. Polite => OneThread' /\ Numbered' /\ Uncounted'
    BY PoliteStep
  <2> QED BY <2>1, <2>2 DEF PoliteInv, Polite
<1>2. CASE UNCHANGED vars
  BY <1>2 DEF PoliteInv, TypeOK, Unborn, OneThread, Numbered, Uncounted, InFlight, Polite, vars
<1> QED BY <1>1, <1>2

\* Of polite executors the invariant always holds.
LEMMA PoliteAlways == Spec => []PoliteInv
  BY PoliteInit, PoliteNext, PTL DEF Spec

(* With an executor that calls back once per run, nothing of a settled     *)
(* Commitment is left behind: no run, no preparation and no timer.         *)
THEOREM NothingLeft == Spec => []NothingAfterSettlement
<1>1. PoliteInv => NothingAfterSettlement
  <2> SUFFICES ASSUME PoliteInv, Polite, NEW c \in Commitments, promise[c] \in Settled
               PROVE  open[c] = 0 /\ preparing[c] = 0 /\ waiting[c] = 0
    BY DEF NothingAfterSettlement
  <2>1. open[c] \in Nat /\ preparing[c] \in Nat /\ waiting[c] \in Nat
    BY DEF PoliteInv, TypeOK
  <2>2. InFlight(c) = 0
    BY DEF PoliteInv, OneThread
  <2> QED BY <2>1, <2>2 DEF InFlight
<1> QED BY <1>1, PoliteAlways, PTL

(* onBeforeRetry is told the number of the run that failed.                *)
THEOREM AttemptsNumbered == Spec => []AttemptIsRun
<1>1. PoliteInv => AttemptIsRun
  <2> SUFFICES ASSUME PoliteInv, Polite, NEW c \in Prepares, preparing[c] > 0
               PROVE  attempt[c] = runs[c]
    BY DEF AttemptIsRun
  <2>1. c \in Commitments
    BY CommitmentAssumption DEF CommitmentAssumption
  <2>2. /\ open[c] \in Nat /\ preparing[c] \in Nat /\ waiting[c] \in Nat
        /\ runs[c] \in Nat /\ attempt[c] \in Nat
    BY <2>1 DEF PoliteInv, TypeOK
  <2>3. InFlight(c) <= 1 /\ (InFlight(c) = 1 => attempt[c] = runs[c] - open[c])
    BY <2>1 DEF PoliteInv, OneThread, Numbered
  <2> QED BY <2>2, <2>3 DEF InFlight
<1> QED BY <1>1, PoliteAlways, PTL

\* An object that was found used up has nothing left, whatever negative number
\* became 0 since.
UsedUp == \A c \in Commitments : promise[c] = "exhausted" => times[BudgetOf[c]] <= 0

ExhaustInv == TypeOK /\ UsedUp

LEMMA ExhaustStep ==
  ASSUME ExhaustInv, NEW e \in Commitments, Action(e)
  PROVE  UsedUp'
<1> USE CommitmentAssumption
    DEF CommitmentAssumption, ExhaustInv, TypeOK, UsedUp, Positive, Plus, Minus, Settle
<1>1. CASE New(e)
  BY <1>1 DEF New
<1>2. CASE Resolve(e)
  BY <1>2 DEF Resolve
<1>3. CASE \E reason \in Reasons : Reject(e, reason)
  <2> PICK reason \in Reasons : Reject(e, reason)
    BY <1>3
  <2>1. CASE RejectRetry(e, reason) \/ RejectThrow(e, reason)
    BY <2>1 DEF RejectRetry, RejectThrow, Spend
  <2>2. CASE RejectExhausted(e, reason)
    BY <2>2 DEF RejectExhausted, Spend, HasTimes
  <2>3. CASE RejectUnreadable(e, reason) \/ RejectExempt(e, reason)
    BY <2>3 DEF RejectUnreadable, RejectExempt
  <2> QED BY <2>1, <2>2, <2>3 DEF Reject
<1>4. CASE Prepared(e) \/ NotPrepared(e) \/ Timer(e)
  BY <1>4 DEF Prepared, NotPrepared, Timer
<1> QED BY <1>1, <1>2, <1>3, <1>4 DEF Action

\* Only a rejection that finds a retry left starts one.
LEMMA RetryNeedsTimes ==
  ASSUME TypeOK, NEW e \in Commitments, Action(e),
         NEW d \in Commitments, promise[d] # "none", ~(Retried(d)' <= Retried(d))
  PROVE  times[BudgetOf[d]] > 0
<1> USE DEF TypeOK, Retried, Plus, Minus
<1>1. CASE New(e)
  BY <1>1 DEF New, Execute
<1>2. CASE Resolve(e)
  BY <1>2 DEF Resolve
<1>3. CASE \E reason \in Reasons : Reject(e, reason)
  <2> PICK reason \in Reasons : Reject(e, reason)
    BY <1>3
  <2>1. CASE RejectRetry(e, reason)
    BY <2>1 DEF RejectRetry, HasTimes
  <2>2. CASE UNCHANGED <<runs, preparing, waiting>>
    BY <2>2
  <2> QED BY <2>1, <2>2 DEF Reject, RejectUnreadable, RejectThrow, RejectExhausted, RejectExempt
<1>4. CASE Prepared(e) \/ NotPrepared(e)
  BY <1>4 DEF Prepared, NotPrepared
<1>5. CASE Timer(e)
  BY <1>5 DEF Timer, Execute
<1> QED BY <1>1, <1>2, <1>3, <1>4, <1>5 DEF Action

(* Who shares a Retries object that was found used up starts no retry of it, *)
(* whichever of them was constructed later, and for any executors.           *)
THEOREM ExhaustedStays == Spec => ExhaustedForGood
<1>1. Init => ExhaustInv
  BY TypeInit DEF Init, ExhaustInv, UsedUp
<1>2. ExhaustInv /\ [Next]_vars => ExhaustInv'
  <2> SUFFICES ASSUME ExhaustInv, [Next]_vars PROVE ExhaustInv'
    OBVIOUS
  <2>1. CASE Next
    <3> PICK e \in Commitments : Action(e)
      BY <2>1, NextIsAction
    <3> QED BY TypeStep, ExhaustStep DEF ExhaustInv
  <2>2. CASE UNCHANGED vars
    BY <2>2 DEF ExhaustInv, TypeOK, UsedUp, vars
  <2> QED BY <2>1, <2>2
<1>3. ExhaustInv /\ [Next]_vars =>
        [\A c, d \in Commitments :
           promise[c] = "exhausted" /\ BudgetOf[d] = BudgetOf[c] /\ promise[d] # "none"
           => Retried(d)' <= Retried(d)]_vars
  <2> SUFFICES ASSUME ExhaustInv, Next, NEW c \in Commitments, NEW d \in Commitments,
                      promise[c] = "exhausted", BudgetOf[d] = BudgetOf[c], promise[d] # "none"
               PROVE  Retried(d)' <= Retried(d)
    OBVIOUS
  <2> PICK e \in Commitments : Action(e)
    BY NextIsAction
  <2>1. times[BudgetOf[d]] \in Int /\ times[BudgetOf[d]] <= 0
    BY CommitmentAssumption DEF ExhaustInv, TypeOK, UsedUp, CommitmentAssumption
  <2> QED BY <2>1, RetryNeedsTimes DEF ExhaustInv
<1> QED BY <1>1, <1>2, <1>3, PTL DEF Spec, ExhaustedForGood

-------------------------------------------------------------------------------
(* The refinement: an executor that calls back once per run, and a Retries *)
(* object of its own for every Commitment.                                 *)

\* While it is in flight, the runs made and to come and the retries left
\* add up to what was announced.
Spent == \A c \in Commitments :
           InFlight(c) = 1 => Retried(c) + Positive(times[BudgetOf[c]]) = Limit[c]

\* The object of a Commitment not constructed yet is untouched.
Untouched == \A c \in Commitments : promise[c] = "none" => times[BudgetOf[c]] = Times[BudgetOf[c]]

OwnInv == /\ PoliteInv
          /\ BudgetInv
          /\ Polite /\ SoleOwner => Spent /\ Untouched

\* An action keeps what a sole owner knows of its Retries object.
LEMMA OwnStep ==
  ASSUME Polite, SoleOwner, PoliteInv, BudgetInv, Spent, Untouched, TypeOK',
         NEW c \in Commitments, Action(c)
  PROVE  Spent' /\ Untouched'
<1>1. /\ TypeOK
      /\ BudgetOf[c] \in Budgets
      /\ \A d \in Commitments \ {c} : BudgetOf[d] \in Budgets /\ BudgetOf[d] # BudgetOf[c]
      /\ \A b \in Budgets : times[b] \in Int /\ Times[b] \in Int
  BY CommitmentAssumption DEF BudgetInv, TypeOK, SoleOwner, CommitmentAssumption
<1>2. \A d \in Commitments \ {c} :
        /\ promise'[d] = promise[d] /\ runs'[d] = runs[d] /\ open'[d] = open[d]
        /\ preparing'[d] = preparing[d] /\ waiting'[d] = waiting[d]
        /\ times'[BudgetOf[d]] = times[BudgetOf[d]]
  BY <1>1 DEF TypeOK, Action, New, Resolve, Reject, RejectUnreadable, RejectRetry, RejectThrow,
     RejectExhausted, RejectExempt, Prepared, NotPrepared, Timer, Called, Execute, Spend, Settle,
     Plus, Minus
<1>3. /\ InFlight(c)' = 1 => Retried(c)' + Positive(times'[BudgetOf[c]]) = Limit[c]
      /\ promise'[c] # "none"
  <2>1. CASE New(c)
    <3>1. /\ times[BudgetOf[c]] = Times[BudgetOf[c]]
          /\ runs[c] = 0 /\ preparing[c] = 0 /\ waiting[c] = 0
      BY <2>1 DEF New, Untouched, BudgetInv, Unborn
    <3>2. /\ times'[BudgetOf[c]] = Positive(times[BudgetOf[c]])
          /\ runs'[c] = runs[c] + 1 /\ preparing'[c] = preparing[c] /\ waiting'[c] = waiting[c]
          /\ promise'[c] = "pending"
      BY <1>1, <2>1 DEF New, Execute, TypeOK, Plus
    <3> QED BY <1>1, <3>1, <3>2 DEF Retried, Positive, Limit
  <2>2. CASE ~New(c)
    <3>1. promise[c] # "none" /\ promise'[c] # "none"
      BY <1>1, <2>2, PoliteFacts
      DEF Action, Resolve, Reject, RejectUnreadable, RejectRetry, RejectThrow, RejectExhausted,
          RejectExempt, Prepared, NotPrepared, Timer, Called, Settle, TypeOK
    <3>2. CASE Prepared(c) \/ Timer(c)
      BY <1>1, <3>2, PoliteFacts, <3>1
      DEF Prepared, Timer, Execute, Spent, InFlight, Retried, Plus, Minus, TypeOK, Polite
    <3>3. CASE \E reason \in Reasons : RejectRetry(c, reason)
      <4>1. /\ open[c] > 0 /\ times[BudgetOf[c]] > 0
            /\ times'[BudgetOf[c]] = times[BudgetOf[c]] - 1
            /\ open'[c] = open[c] - 1 /\ preparing'[c] = preparing[c] + 1
            /\ runs'[c] = runs[c] /\ waiting'[c] = waiting[c]
        BY <1>1, <3>3 DEF RejectRetry, Called, HasTimes, Spend, Plus, Minus, TypeOK
      <4>2. InFlight(c) = 1
        BY <4>1, PoliteFacts DEF InFlight
      <4>3. Retried(c) + Positive(times[BudgetOf[c]]) = Limit[c]
        BY <4>2 DEF Spent
      <4> QED BY <1>1, <3>1, <4>1, <4>3, PoliteFacts DEF Retried, Positive
    <3>4. CASE ~Prepared(c) /\ ~Timer(c) /\ ~\E reason \in Reasons : RejectRetry(c, reason)
      <4>1. /\ open'[c] + preparing'[c] = open[c] + preparing[c] - 1
            /\ waiting'[c] = waiting[c]
        BY <1>1, <2>2, <3>4
        DEF Action, Resolve, Reject, RejectUnreadable, RejectThrow, RejectExhausted, RejectExempt,
            NotPrepared, Called, Minus, TypeOK
      <4>2. InFlight(c)' # 1
        BY <4>1, PoliteFacts, TypeOK' DEF InFlight, TypeOK
      <4> QED BY <3>1, <4>2
    <3> QED BY <3>2, <3>3, <3>4
  <2> QED BY <2>1, <2>2
<1>4. Spent'
  BY <1>2, <1>3 DEF Spent, InFlight, Retried
<1>5. Untouched'
  BY <1>2, <1>3 DEF Untouched
<1> QED BY <1>4, <1>5

\* It is an invariant.
LEMMA OwnAlways == Spec => []OwnInv
<1>1. Init => OwnInv
  <2>1. Init => Spent /\ Untouched
    BY CommitmentAssumption DEF Init, Spent, Untouched, InFlight, CommitmentAssumption
  <2> QED BY <2>1, PoliteInit, BudgetInit DEF OwnInv
<1>2. OwnInv /\ [Next]_vars => OwnInv'
  <2> SUFFICES ASSUME OwnInv, [Next]_vars PROVE OwnInv'
    OBVIOUS
  <2>1. PoliteInv' /\ BudgetInv'
    BY PoliteNext, BudgetNext DEF OwnInv
  <2>2. ASSUME Polite, SoleOwner PROVE Spent' /\ Untouched'
    <3>1. CASE Next
      BY <2>1, <2>2, <3>1, NextIsAction, OwnStep DEF OwnInv, BudgetInv
    <3>2. CASE UNCHANGED vars
      BY <2>2, <3>2 DEF OwnInv, Spent, Untouched, InFlight, Retried, vars
    <3> QED BY <3>1, <3>2
  <2> QED BY <2>1, <2>2 DEF OwnInv, Polite, SoleOwner
<1> QED BY <1>1, <1>2, PTL DEF Spec

\* An action of one Commitment is a step, or a stutter, of the abstract one.
LEMMA StepRefines ==
  ASSUME Polite, SoleOwner, OwnInv, NEW c \in Commitments, Action(c)
  PROVE  Abstract!Step(c) \/ UNCHANGED Abstract!vars
<1> USE DEF Abstract!Step, Abstract!vars, Abstract!Endings
<1>1. /\ TypeOK /\ PoliteInv /\ RetriesWithinBudget /\ Spent
      /\ BudgetOf[c] \in Budgets /\ times[BudgetOf[c]] \in Int
  BY CommitmentAssumption DEF OwnInv, BudgetInv, TypeOK, CommitmentAssumption
<1>2. ASSUME NEW how \in Settled, Settle(c, how), UNCHANGED runs,
             how = "exhausted" => runs[c] = Limit[c] + 1
      PROVE  Abstract!Step(c) \/ UNCHANGED Abstract!vars
  <2>1. CASE promise[c] = "pending"
    BY <1>2, <2>1 DEF Abstract!End, Settle, Settled
  <2>2. CASE promise[c] # "pending"
    BY <1>2, <2>2 DEF Settle
  <2> QED BY <2>1, <2>2
<1>3. CASE New(c)
  <2>1. runs[c] = 0
    BY <1>3 DEF New, OwnInv, BudgetInv, Unborn
  <2>2. runs' = [runs EXCEPT ![c] = 1]
    BY <1>3, <2>1 DEF New, Execute, Plus
  <2> QED BY <1>3, <2>2 DEF New, Abstract!Start
<1>4. CASE Timer(c)
  <2>1. waiting[c] > 0
    BY <1>4 DEF Timer
  <2>2. promise[c] = "pending"
    BY <1>1, <2>1, PoliteFacts DEF TypeOK
  <2>3. runs[c] <= Limit[c]
    <3>1. Retried(c) + Positive(times[BudgetOf[c]]) <= Limit[c]
      BY <1>1, <2>2 DEF RetriesWithinBudget
    <3>2. Limit[c] \in Int
      BY CommitmentAssumption DEF Limit, Positive, CommitmentAssumption
    <3> QED BY <1>1, <2>1, <3>1, <3>2, PoliteFacts DEF Retried, Positive
  <2> QED BY <1>4, <2>2, <2>3 DEF Timer, Execute, Plus, Abstract!Try
<1>5. CASE Resolve(c)
  BY <1>2, <1>5 DEF Resolve, Settled
<1>6. CASE NotPrepared(c)
  BY <1>2, <1>6 DEF NotPrepared, Settled
<1>7. CASE Prepared(c)
  BY <1>7 DEF Prepared
<1>8. ASSUME NEW reason \in Reasons, Reject(c, reason)
      PROVE  Abstract!Step(c) \/ UNCHANGED Abstract!vars
  <2>1. CASE RejectExhausted(c, reason)
    <3>1. open[c] > 0 /\ times[BudgetOf[c]] <= 0
      BY <1>1, <2>1 DEF RejectExhausted, Called, HasTimes
    <3>2. InFlight(c) = 1
      BY <1>1, <3>1, PoliteFacts DEF InFlight
    <3>3. Retried(c) + Positive(times[BudgetOf[c]]) = Limit[c]
      BY <1>1, <3>2 DEF Spent
    <3>4. runs[c] = Limit[c] + 1
      <4>1. preparing[c] = 0 /\ waiting[c] = 0 /\ runs[c] \in Nat
        BY <1>1, <3>1, PoliteFacts
      <4>2. Positive(times[BudgetOf[c]]) = 0
        BY <1>1, <3>1 DEF Positive
      <4> QED BY <3>3, <4>1, <4>2 DEF Retried
    <3> QED BY <1>2, <2>1, <3>4 DEF RejectExhausted, Settled
  <2>2. CASE RejectExempt(c, reason)
    BY <1>2, <2>2 DEF RejectExempt, Settled
  <2>3. CASE RejectUnreadable(c, reason) \/ RejectRetry(c, reason) \/ RejectThrow(c, reason)
    BY <2>3 DEF RejectUnreadable, RejectRetry, RejectThrow
  <2> QED BY <1>8, <2>1, <2>2, <2>3 DEF Reject
<1> QED BY <1>3, <1>4, <1>5, <1>6, <1>7, <1>8 DEF Action

(* A Commitment whose executor calls back once per run and whose Retries   *)
(* object is not shared implements Retrying, for any number of them.       *)
THEOREM Refinement == ASSUME Polite, SoleOwner PROVE Spec => ImplementsRetrying
<1>1. Init => Abstract!Init
  BY DEF Init, Abstract!Init
<1>2. OwnInv /\ [Next]_vars => [Abstract!Next]_(Abstract!vars)
  <2> SUFFICES ASSUME OwnInv, [Next]_vars PROVE [Abstract!Next]_(Abstract!vars)
    OBVIOUS
  <2>1. CASE Next
    BY <2>1, NextIsAction, StepRefines DEF Abstract!Next
  <2>2. CASE UNCHANGED vars
    BY <2>2 DEF vars, Abstract!vars
  <2> QED BY <2>1, <2>2
<1> QED BY <1>1, <1>2, OwnAlways, PTL DEF Spec, ImplementsRetrying, Abstract!Spec
===============================================================================
