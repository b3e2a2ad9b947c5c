------------------------------- MODULE Retrying -------------------------------
(***************************************************************************)
(* What a Commitment promises to the code that awaits it, with none of the *)
(* machinery of commitment.ts: an operation is tried once and then at most *)
(* Limit more times, nothing is tried once the promise is settled, and it  *)
(* is given up as exhausted only when every try has been used.             *)
(***************************************************************************)
EXTENDS Integers

CONSTANTS
  Promises,     \* the promises given
  Limit         \* Limit[p]: the number of retries announced for p

VARIABLES
  phase,        \* phase[p]: not yet made, awaited, or how it was settled
  tries         \* tries[p]: how many times the operation was started

vars == <<phase, tries>>

Endings == {"resolved", "exempt", "exhausted", "unprepared"}

Init == /\ phase = [p \in Promises |-> "none"]
        /\ tries = [p \in Promises |-> 0]

Start(p) == /\ phase[p] = "none"
            /\ phase' = [phase EXCEPT ![p] = "pending"]
            /\ tries' = [tries EXCEPT ![p] = 1]

Try(p) == /\ phase[p] = "pending"
          /\ tries[p] <= Limit[p]
          /\ tries' = [tries EXCEPT ![p] = @ + 1]
          /\ UNCHANGED phase

End(p, how) == /\ phase[p] = "pending"
               /\ how = "exhausted" => tries[p] = Limit[p] + 1
               /\ phase' = [phase EXCEPT ![p] = how]
               /\ UNCHANGED tries

Step(p) == Start(p) \/ Try(p) \/ \E how \in Endings : End(p, how)

Next == \E p \in Promises : Step(p)

Spec == Init /\ [][Next]_vars

\* A promise once made is tried and settled, never left behind.
FairSpec == Spec /\ \A p \in Promises : WF_vars(Try(p) \/ \E how \in Endings : End(p, how))
===============================================================================
