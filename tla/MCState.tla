------------------------------- MODULE MCState -------------------------------
(* What a Hive keeps in its state directory: the registry of names and the   *)
(* enrolled keys.  They share no state, so a behaviour explores one of them. *)
EXTENDS Registry, Enrollment

(* "Worker", "Worker-2" and "Other": one may look like a resolved name.      *)
WorkerNames == {<<1>>, <<1, 2>>, <<9>>}

CONSTANTS once, many, more

(* A token for one device and two for any number.                            *)
MCToken == {once, many, more}
MCLimit == [t \in MCToken |-> IF t = once THEN 1 ELSE 0]

VARIABLE part

StateInit == NamesInit /\ Init /\ part \in {"names", "keys"}

StateNext ==
  \/ part = "names" /\ NamesNext /\ UNCHANGED <<vars, part>>
  \/ part = "keys" /\ Next /\ UNCHANGED <<namesVars, part>>

StateSpec == StateInit /\ [][StateNext]_<<vars, namesVars, part>>

=============================================================================
