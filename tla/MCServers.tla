------------------------------- MODULE MCServers -------------------------------
(***************************************************************************)
(* One to three servers in a process, for TLC.  All use the service "web",  *)
(* which only s1 requires; s2 uses another, and they take their key from   *)
(* the same OAuth2 server.                                                 *)
(***************************************************************************)
EXTENDS Servers, TLC

CONSTANTS s1, s2, s3

MCUses == s1 :> <<"web", "oauth2">> @@ s2 :> <<"other", "web", "oauth2">>
            @@ s3 :> <<"web", "other">>
MCRequires == s1 :> {"web"} @@ s2 :> {"other"} @@ s3 :> {}

\* One with an OAuth2 server and one without; and one alone, with an optional service.
MCUsesTwo == [s \in {s1, s3} |-> MCUses[s]]
MCRequiresTwo == [s \in {s1, s3} |-> MCRequires[s]]

OneUses == s1 :> <<"web", "other">>
OneRequires == s1 :> {"web"}
===============================================================================
