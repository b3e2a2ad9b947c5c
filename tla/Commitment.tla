------------------------------ MODULE Commitment ------------------------------
(***************************************************************************)
(* src/src/commitment.ts: a promise whose executor is run again when it    *)
(* rejects, as long as its Retries object has `times` left.                *)
(*                                                                         *)
(* The executor and onBeforeRetry are the caller's code.  A run of the     *)
(* executor may call resolve or reject up to CallsPerRun times, at any     *)
(* later moment and in any order (or never); CallsPerRun = 1 is an         *)
(* executor that behaves like that of a Promise.  The constructor keeps    *)
(* the Retries object of its caller (commitment.ts:32), so several         *)
(* Commitments may count down the same `times`: BudgetOf says which object *)
(* each was given.  A plain number of retries is an object of its own.     *)
(***************************************************************************)
EXTENDS Integers, FiniteSets

CONSTANTS
  Commitments,   \* the Commitments the program may construct
  Budgets,       \* the Retries objects
  BudgetOf,      \* BudgetOf[c]: the Retries object given to c
  Times,         \* Times[b]: the value of b.times before any use
  ExceptWhen,    \* ExceptWhen[b]: the reasons b.exceptWhen matches
  Reasons,       \* what an executor may reject with
  NoReason,      \* reject() called with no argument
  Prepares,      \* the Commitments constructed with an onBeforeRetry
  Throws,        \* those whose onBeforeRetry may throw before returning a promise
  CallsPerRun    \* bound: calls of resolve or reject by one run of an executor

ASSUME CommitmentAssumption ==
  /\ BudgetOf \in [Commitments -> Budgets]
  /\ Times \in [Budgets -> Int]
  /\ ExceptWhen \in [Budgets -> SUBSET Reasons]
  /\ \A b \in Budgets : NoReason \notin ExceptWhen[b]
  /\ Throws \subseteq Prepares /\ Prepares \subseteq Commitments
  /\ CallsPerRun \in Nat \ {0}

VARIABLES
  promise,     \* promise[c]: "none" before the constructor, then pending or settled
  times,       \* times[b]: the field `times` of the Retries object
  attempt,     \* attempt[c]: how often onBeforeRetry was called
  runs,        \* runs[c]: how often the executor was run
  open,        \* open[c]: calls of resolve or reject its runs may still make
  preparing,   \* preparing[c]: calls of canRetry whose promise is not settled
  waiting      \* waiting[c]: timers that will run the executor again

vars == <<promise, times, attempt, runs, open, preparing, waiting>>

Settled == {"resolved", "exempt", "exhausted", "unprepared"}

Positive(n) == IF n >= 0 THEN n ELSE 0

Plus(f, c) == [f EXCEPT ![c] = @ + 1]
Minus(f, c) == [f EXCEPT ![c] = @ - 1]

-------------------------------------------------------------------------------
Init == /\ promise = [c \in Commitments |-> "none"]
        /\ times = Times
        /\ attempt = [c \in Commitments |-> 0]
        /\ runs = [c \in Commitments |-> 0]
        /\ open = [c \in Commitments |-> 0]
        /\ preparing = [c \in Commitments |-> 0]
        /\ waiting = [c \in Commitments |-> 0]

\* The first settlement of a promise is final: later ones do nothing.
Settle(c, how) ==
  promise' = IF promise[c] = "pending" THEN [promise EXCEPT ![c] = how] ELSE promise

\* execute: the executor runs and receives a fresh pair of callbacks.
Execute(c) == /\ runs' = Plus(runs, c)
              /\ open' = [open EXCEPT ![c] = @ + CallsPerRun]

\* The constructor.  A negative `times` is put to 0 in the caller's own object.
New(c) ==
  /\ promise[c] = "none"
  /\ promise' = [promise EXCEPT ![c] = "pending"]
  /\ times' = [times EXCEPT ![BudgetOf[c]] = Positive(@)]
  /\ Execute(c)
  /\ UNCHANGED <<attempt, preparing, waiting>>

CalledOnceMore(c) == /\ open[c] >= 0
                /\ open' = Minus(open, c)
Called(c) == /\ open[c] > 0
             /\ open' = Minus(open, c)

Resolve(c) == /\ Called(c)
              /\ Settle(c, "resolved")
              /\ UNCHANGED <<times, attempt, runs, preparing, waiting>>

\* bother: is the reason worth a retry?  Without a reason, looking for one of
\* the exceptions in it throws inside the executor's own call of reject.
Unreadable(c, reason) == reason = NoReason /\ ExceptWhen[BudgetOf[c]] # {}
Bother(c, reason) == reason \notin ExceptWhen[BudgetOf[c]]

\* `retry.times-- > 0`: is there a retry left?  (The field is decremented either way.)
HasTimesOneMore(c) == times[BudgetOf[c]] >= 0
HasTimes(c) == times[BudgetOf[c]] > 0
SpendNothing(c) == UNCHANGED times
Spend(c) == times' = Minus(times, BudgetOf[c])

RejectUnreadable(c, reason) ==
  /\ Called(c)
  /\ Unreadable(c, reason)
  /\ UNCHANGED <<promise, times, attempt, runs, preparing, waiting>>

\* doRetry: onBeforeRetry is called with the number of the attempt ...
CountNothing(c) == attempt' = attempt
CountAttempt(c) == attempt' = IF c \in Prepares THEN Plus(attempt, c) ELSE attempt

RejectRetry(c, reason) ==
  /\ Called(c)
  /\ ~Unreadable(c, reason) /\ Bother(c, reason) /\ HasTimes(c)
  /\ Spend(c)
  /\ CountAttempt(c)
  /\ preparing' = Plus(preparing, c)
  /\ UNCHANGED <<promise, runs, waiting>>

\* ... and when it throws instead of returning a promise, the exception leaves
\* through reject into the executor: no retry, and no one gives up either.
RejectThrow(c, reason) ==
  /\ c \in Throws
  /\ Called(c)
  /\ ~Unreadable(c, reason) /\ Bother(c, reason) /\ HasTimes(c)
  /\ Spend(c)
  /\ CountAttempt(c)
  /\ UNCHANGED <<promise, runs, preparing, waiting>>

RejectExhausted(c, reason) ==
  /\ Called(c)
  /\ ~Unreadable(c, reason) /\ Bother(c, reason) /\ ~HasTimes(c)
  /\ Spend(c)
  /\ Settle(c, "exhausted")
  /\ UNCHANGED <<attempt, runs, preparing, waiting>>

RejectExempt(c, reason) ==
  /\ Called(c)
  /\ ~Unreadable(c, reason) /\ ~Bother(c, reason)
  /\ Settle(c, "exempt")
  /\ UNCHANGED <<times, attempt, runs, preparing, waiting>>

Reject(c, reason) == \/ RejectUnreadable(c, reason)
                     \/ RejectRetry(c, reason)
                     \/ RejectThrow(c, reason)
                     \/ RejectExhausted(c, reason)
                     \/ RejectExempt(c, reason)

\* The promise of onBeforeRetry (or of canRetry itself) resolves: a timer is set.
Prepared(c) ==
  /\ preparing[c] > 0
  /\ preparing' = Minus(preparing, c)
  /\ waiting' = Plus(waiting, c)
  /\ UNCHANGED <<promise, times, attempt, runs, open>>

\* The promise of onBeforeRetry rejects: the Commitment gives up, wrapping the error.
NotPreparedCaughtFirst(c) ==
  /\ c \in Prepares /\ preparing[c] > 0
  /\ preparing' = Minus(preparing, c)
  /\ waiting' = Plus(waiting, c)
  /\ Settle(c, "unprepared")
  /\ UNCHANGED <<times, attempt, runs, open>>
NotPreparedUncaught(c) ==
  /\ c \in Prepares /\ preparing[c] > 0
  /\ preparing' = Minus(preparing, c)
  /\ UNCHANGED <<promise, times, attempt, runs, open, waiting>>
NotPrepared(c) ==
  /\ c \in Prepares /\ preparing[c] > 0
  /\ preparing' = Minus(preparing, c)
  /\ Settle(c, "unprepared")
  /\ UNCHANGED <<times, attempt, runs, open, waiting>>

TimerRepeating(c) ==
  /\ waiting[c] > 0
  /\ Execute(c)
  /\ UNCHANGED <<promise, times, attempt, preparing, waiting>>
Timer(c) ==
  /\ waiting[c] > 0
  /\ waiting' = Minus(waiting, c)
  /\ Execute(c)
  /\ UNCHANGED <<promise, times, attempt, preparing>>

-------------------------------------------------------------------------------
CallBack(c) == Resolve(c) \/ \E reason \in Reasons : Reject(c, reason)
Prepare(c) == Prepared(c) \/ NotPrepared(c)

Next == \E c \in Commitments : New(c) \/ CallBack(c) \/ Prepare(c) \/ Timer(c)

Spec == Init /\ [][Next]_vars

(* Node fires a timer that is due; that every run of the executor calls back *)
(* and every onBeforeRetry settles is what an awaiting caller takes for      *)
(* granted of its own code, so it is assumed only here.                      *)
FairSpec == /\ Spec
            /\ \A c \in Commitments : /\ WF_vars(Timer(c))
                                      /\ WF_vars(CallBack(c))
                                      /\ WF_vars(Prepare(c))

-------------------------------------------------------------------------------
TypeOK ==
  /\ promise \in [Commitments -> {"none", "pending"} \cup Settled]
  /\ times \in [Budgets -> Int]
  /\ attempt \in [Commitments -> Nat]
  /\ runs \in [Commitments -> Nat]
  /\ open \in [Commitments -> Nat]
  /\ preparing \in [Commitments -> Nat]
  /\ waiting \in [Commitments -> Nat]

Limit == [c \in Commitments |-> Positive(Times[BudgetOf[c]])]

\* Executor runs that were started or are on their way because of a rejection.
Retried(c) == runs[c] + preparing[c] + waiting[c] - 1

(* However its executor misuses the callbacks, and whoever else counts down  *)
(* the same Retries object, no Commitment is tried more often than its       *)
(* `times` allow: what was retried and what is left never exceed the limit.  *)
RetriesWithinBudget ==
  \A c \in Commitments :
    promise[c] # "none" => Retried(c) + Positive(times[BudgetOf[c]]) <= Limit[c]

\* The retries of all Commitments that were given one Retries object.
SharedRetries(b) ==
  UNION {{c} \X (1..Retried(c)) : c \in {d \in Commitments : BudgetOf[d] = b}}

(* All the Commitments that share one Retries object together make no more  *)
(* retries than its `times` announced: the budget is split, never copied.   *)
SharedBudgetIsSplit ==
  \A b \in Budgets : Cardinality(SharedRetries(b)) + Positive(times[b]) <= Positive(Times[b])

(* Once a Commitment was told that its Retries object is used up, nobody who *)
(* was given that object starts another retry: neither a second callback of  *)
(* the same run, nor a Commitment constructed later, whose constructor puts  *)
(* the negative number it finds there to 0.                                  *)
ExhaustedForGood ==
  [][\A c, d \in Commitments :
       promise[c] = "exhausted" /\ BudgetOf[d] = BudgetOf[c] /\ promise[d] # "none"
       => Retried(d)' <= Retried(d)]_vars

\* What may still happen to a Commitment: a retry left is a preparation to
\* come, that is a timer to come, and that is a run with its calls.
Left(c) ==
  (CallsPerRun + 3) * Positive(times[BudgetOf[c]])
    + (CallsPerRun + 2) * preparing[c] + (CallsPerRun + 1) * waiting[c] + open[c]
    + (IF promise[c] = "none" THEN CallsPerRun + 1 ELSE 0)

(* No Commitment keeps itself running: each step uses up some of what may    *)
(* still happen to a Commitment and adds nothing to that of another, however *)
(* executors misuse their callbacks and share Retries objects.               *)
EveryStepSpends ==
  [][/\ \E c \in Commitments : Left(c)' < Left(c)
     /\ \A c \in Commitments : Left(c)' <= Left(c)]_vars

Polite == CallsPerRun = 1

\* No Retries object was given to two Commitments.
SoleOwner == \A c, d \in Commitments : BudgetOf[c] = BudgetOf[d] => c = d

(* With an executor that calls back once per run, a settled Commitment has   *)
(* nothing left in flight: no preparation, no timer, no run.                 *)
NothingAfterSettlement ==
  Polite => \A c \in Commitments :
              promise[c] \in Settled => open[c] = 0 /\ preparing[c] = 0 /\ waiting[c] = 0

(* onBeforeRetry is told the number of the run that failed, as the test      *)
(* 'Should always prepare before retrying' expects (attempt equals touches). *)
AttemptIsRun ==
  Polite => \A c \in Prepares : preparing[c] > 0 => attempt[c] = runs[c]

(* A Commitment whose callbacks are used properly and whose Retries object   *)
(* is its own implements Retrying: tried only while it is awaited, exhausted *)
(* only when every announced retry was made.                                 *)
Abstract == INSTANCE Retrying WITH Promises <- Commitments, Limit <- Limit,
                                   phase <- promise, tries <- runs
ImplementsRetrying == Abstract!Spec
ImplementsFairRetrying == Abstract!FairSpec
===============================================================================
