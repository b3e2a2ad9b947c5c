----------------------------- MODULE MCCommitment -----------------------------
(***************************************************************************)
(* Small programs of Commitments for TLC.                                  *)
(***************************************************************************)
EXTENDS Commitment, TLC

CONSTANTS c1, c2,    \* Commitments
          b1, b2,    \* Retries objects
          timeout    \* a reason to reject that is worth retrying
CONSTANT known       \* a reason exceptWhen lists

MCReasons == {timeout, known, NoReason}
MCFairReasons == {timeout, known}

\* Each Commitment has its own object, or both were given b1.
OwnBudgets == c1 :> b1 @@ c2 :> b2
OneBudget == c1 :> b1 @@ c2 :> b1

MCTimes == b1 :> 2 @@ b2 :> 1
MCTimesNegative == b1 :> 4 @@ b2 :> -1

\* b1 lists an exception; b2 has no exceptWhen.
MCExceptWhen == b1 :> {known} @@ b2 :> {}
===============================================================================
