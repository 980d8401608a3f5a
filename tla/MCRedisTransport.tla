--------------------------- MODULE MCRedisTransport ---------------------------
(* Instances of RedisTransport for TLC. *)
EXTENDS RedisTransport, TLC

CONSTANTS h1, h2, h3, a, b

\* Two handlers of one topic, and one of another.
MCTopicOf == h1 :> a @@ h2 :> a @@ h3 :> b

=============================================================================
