------------------------------ MODULE MCServer -------------------------------
(* A device that reconnects (p and q) and a consumer with its own device.   *)
EXTENDS Server, TLC

CONSTANTS p, q, c, bee, user

MCDeviceOf == p :> bee @@ q :> bee @@ c :> user
OnceDeviceOf == p :> bee @@ c :> user

(* The two connections of a device, and the records of sources, are alike.  *)
Sym == Permutations({p, q}) \cup Permutations(Stream)

=============================================================================
