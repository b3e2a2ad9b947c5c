-------------------------- MODULE MCRequestPipeline --------------------------
(***************************************************************************)
(* Values for TLC: every chain of up to two routes, each open, for any     *)
(* token or for named systems, with no, one or two parameters; and a route *)
(* for each type of parameter, DTO or not.                                 *)
(***************************************************************************)
EXTENDS RequestPipeline

P(type, dto, required, ignores) ==
  [type |-> type, dto |-> dto, required |-> required, ignores |-> ignores]

MCParams == {<<>>, <<P("Number", FALSE, TRUE, TRUE)>>,
             <<P("DateTime", FALSE, FALSE, FALSE), P("Boolean", FALSE, TRUE, FALSE)>>}

MCRoutes == [restricted : {"open", "token", "systems"}, params : MCParams,
             response : {"status", "json"}]

OfType == [restricted : {"open"}, response : {"json"},
           params : {<<P(type, dto, FALSE, FALSE)>> : type \in Types, dto \in BOOLEAN}]

MCChains == {<<>>} \cup {<<r>> : r \in MCRoutes \cup OfType}
              \cup {<<r, s>> : r, s \in MCRoutes}

\* Each atom alone, and arrays of it and of it with an object.
MCInputs == {One(a) : a \in Texts \cup (Others \ {"null", "list"})}
              \cup {Many(as) : as \in {{}} \cup {{a} : a \in Texts \cup Others}
                                     \cup {{a, "object"} : a \in Texts \cup Others}}
===============================================================================
