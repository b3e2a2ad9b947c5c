---------------------------- MODULE MCOauth2Client ----------------------------
(***************************************************************************)
(* Two callers of one Oauth2Client, for TLC.                               *)
(***************************************************************************)
EXTENDS Oauth2Client, TLC

CONSTANTS c1, c2

Made(logins, own, vault, fixed) ==
  [logins |-> logins, own |-> own, vault |-> vault, fixed |-> fixed]
Both == {"code", "client"}

UserKeyed == {Made({"code"}, {"none"}, {"right"}, None)}
AnyKey == {Made(Both, {"none"}, {"none", "right"}, None),
           Made(Both, {"none"}, {"none", "wrong"}, None),
           Made({"client"}, {"none", "right"}, {"none", "wrong"}, None)}

Symmetry == Permutations(Callers)
===============================================================================
