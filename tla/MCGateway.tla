------------------------------ MODULE MCGateway ------------------------------
(* The instances of Gateway that TLC checks; each cfg names its inputs.     *)
EXTENDS GatewayPromise

=============================================================================
