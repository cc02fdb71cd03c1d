--------------------------- MODULE MCRateLimiter ---------------------------
(* RateLimiter with a minute of three ticks and, as with the defaults, as  *)
(* many tokens in a full bucket as come in in a minute: two.               *)
EXTENDS RateLimiter
=============================================================================
