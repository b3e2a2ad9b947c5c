----------------------------- MODULE MCSystemAuth -----------------------------
(***************************************************************************)
(* A client and two web services that use it, for TLC: of sysAuth with a   *)
(* key, a key at a URL, or none but an expiration that is fixed; or one    *)
(* that logs a user in.                                                    *)
(***************************************************************************)
EXTENDS SystemAuth

CONSTANTS auth, s1, s2

Made(logins, own, vault, fixed) ==
  [logins |-> logins, own |-> own, vault |-> vault, fixed |-> fixed]

MCClients == {Made({"client"}, {"right"}, {"none", "wrong"}, None),
              Made({"client"}, {"wrong", "right"}, {"none"}, None),
              Made({"client"}, {"none"}, {"none", "right"}, 1),
              Made({"code"}, {"none"}, {"right"}, None)}
===============================================================================
