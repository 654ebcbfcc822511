---------------------------- MODULE MCPublisher ------------------------------
(* Sharing is off, or on with one session shared.                           *)
EXTENDS Publisher

CONSTANT s

MCSettings == {[enabled |-> FALSE, rules |-> {}], [enabled |-> TRUE, rules |-> {s}]}

=============================================================================
