-------------------------- MODULE MCCircuitBreaker --------------------------
(* What CACHING.md says of the breaker, to be compared with the code.      *)
EXTENDS CircuitBreaker

(* "one half-open command probes recovery; success closes the circuit"     *)
(* (CACHING.md): with Redis back for good, the circuit closes.             *)
CircuitRecovers == <>[]redisUp => <>[](state = "closed")
=============================================================================
