--------------------------- MODULE GatewayPromise ----------------------------
(***************************************************************************)
(* Gateway implements Aggregate: the source that holds surface interest is *)
(* the one shown, and a call is with the source its wire request is        *)
(* pending at.  A call the viewer still waits for but the gateway no       *)
(* longer knows maps to Lost, a value Aggregate does not have.             *)
(***************************************************************************)
EXTENDS Gateway

Lost == -2

Holder ==
  IF \E s \in Source : sources[s].interest
    THEN CHOOSE s \in Source : sources[s].interest ELSE Nobody

CallAt(c) ==
  IF consumer[c] \in {Idle, Asked} THEN consumer[c]
  ELSE IF pending[consumer[c]] = Nobody THEN Lost ELSE pending[consumer[c]]

Promise ==
  INSTANCE Aggregate WITH holder <- Holder, calls <- [c \in Consumer |-> CallAt(c)]

(***************************************************************************)
(* Every step of the gateway is one the abstract endpoint allows, or is    *)
(* invisible to it: interest is handed over through a moment in which      *)
(* nobody holds it, and a call is routed once and ends once, also when its *)
(* source fails in the middle of the handler that routes it.               *)
(***************************************************************************)
KeepsPromise == Promise!Spec

=============================================================================
