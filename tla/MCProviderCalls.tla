---------------------------- MODULE MCProviderCalls ----------------------------
(* A small instance of ProviderCalls, and through it of CircuitBreaker. *)
EXTENDS ProviderCalls

=============================================================================
