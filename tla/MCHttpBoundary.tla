-------------------------- MODULE MCHttpBoundary --------------------------
(* HttpBoundary for TLC: three submissions of one client, which presents   *)
(* its token in three ways, and one of a caller with an unknown token.     *)
EXTENDS HttpBoundary, TLC
CONSTANTS s1, s2, s3, s4, primary, mine, other

MCClientTokens == mine :> "mine" @@ primary :> "nobody else"
MCHeaderOf ==
    (s1 :> [key |-> mine, auth |-> "absent"]) @@
    (s2 :> [key |-> "absent", auth |-> <<"Bearer", mine>>]) @@
    (s3 :> [key |-> mine, auth |-> <<"Basic", other>>]) @@
    (s4 :> [key |-> "absent", auth |-> <<"alone", other>>])
MCBuckets == {"default", "mine", "nobody else", "local-development", "shared"}
============================================================================
