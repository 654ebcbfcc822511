------------------------------ MODULE Registry -------------------------------
(***************************************************************************)
(* The registry of public names (hive/internal/registry/registry.go): each *)
(* device (owner) has at most one name, resolved against the names of the  *)
(* other devices and kept in names.json.  Name holds r.mu throughout, but  *)
(* the process may stop between its steps, and saving may fail at any of   *)
(* them.                                                                   *)
(*                                                                         *)
(* A name is a sequence of numbers: the first stands for its text, and     *)
(* each of the others for a "-n" at its end, so that "Worker-2" is one     *)
(* name whether it was asked for or resolved.                              *)
(***************************************************************************)
EXTENDS Integers, Sequences, FiniteSets

CONSTANTS
  Owner,      \* device keys
  Wanted,     \* names devices ask for
  MaxNames    \* how many devices the registry holds (1024)

ASSUME RegistryAssumption ==
  /\ IsFiniteSet(Owner) /\ Owner # {} /\ MaxNames \in Nat \ {0}
  /\ Wanted \subseteq Seq(Nat) \ {<<>>}

VARIABLES
  names,      \* r.Names
  file,       \* names.json as the file system shows it
  durable,    \* names.json as a power loss would leave it
  saving      \* the Name call between its update of r.Names and its end

namesVars == <<names, file, durable, saving>>

(* An owner without an entry in r.Names.                                   *)
NoName == <<>>

NoSave == [on |-> FALSE, owner |-> CHOOSE o \in Owner : TRUE, old |-> NoName]

AtRest == ~saving.on

(* wanted, wanted-2, wanted-3, ...                                         *)
Candidate(w, n) == IF n = 1 THEN w ELSE Append(w, n)

(* Another owner has the name.                                             *)
Used(o, name) == \E p \in Owner \ {o} : names[p] = name

(* Faulty: a name with a suffix is taken to be free.                       *)
StopsUnchecked(o, w, n) == n = IF Used(o, w) THEN 2 ELSE 1

(* The loop stops at the n-th candidate.                                   *)
StopsAt(o, w, n) ==
  ~Used(o, Candidate(w, n)) /\ \A m \in 1..(n - 1) : Used(o, Candidate(w, m))

Holders(table) == {o \in Owner : table[o] # NoName}

Full == Cardinality(Holders(names)) >= MaxNames

-----------------------------------------------------------------------------
(* Open, of a registry that does not exist yet.                            *)
NamesInit ==
  /\ names = [o \in Owner |-> NoName] /\ file = names /\ durable = names
  /\ saving = NoSave

(* Name, for an owner that has the resolved name already.                  *)
Keep(o, w) ==
  /\ AtRest
  /\ \E n \in 1..Cardinality(Owner) : StopsAt(o, w, n) /\ names[o] = Candidate(w, n)
  /\ UNCHANGED namesVars

(* Name, up to the update of r.Names.                                      *)
Update(o, w) ==
  /\ AtRest
  /\ \E n \in 1..Cardinality(Owner) :
       /\ StopsAt(o, w, n) /\ names[o] # Candidate(w, n)
       /\ names[o] = NoName => ~Full
       /\ names' = [names EXCEPT ![o] = Candidate(w, n)]
  /\ saving' = [on |-> TRUE, owner |-> o, old |-> names[o]]
  /\ UNCHANGED <<file, durable>>

(* The temporary file has been written, synced and renamed.                *)
Save ==
  /\ ~AtRest
  /\ file' = names
  /\ saving' = NoSave
  /\ UNCHANGED <<names, durable>>

(* Faulty: a failed save leaves the new name in memory.                    *)
SaveFailsOnly ==
  /\ ~AtRest
  /\ saving' = NoSave
  /\ UNCHANGED <<names, file, durable>>

(* Creating, writing, syncing or renaming it failed: r.Names rolls back.   *)
SaveFails ==
  /\ ~AtRest
  /\ names' = [names EXCEPT ![saving.owner] = saving.old]
  /\ saving' = NoSave
  /\ UNCHANGED <<file, durable>>

(* The file system writes the directory back; Name does not sync it.       *)
Flush ==
  /\ durable' = file
  /\ UNCHANGED <<names, file, saving>>

(* Open, after a stop that left this table in names.json.                  *)
Opens(left) == names' = left /\ file' = left /\ saving' = NoSave

(* The process stops: the file is what it was.                             *)
NamesStop == Opens(file) /\ UNCHANGED durable

(* The machine stops: renames that were not written back are undone.       *)
NamesPowerLoss == Opens(durable) /\ UNCHANGED durable

NamesNext ==
  \/ \E o \in Owner, w \in Wanted : Keep(o, w) \/ Update(o, w)
  \/ Save \/ SaveFails \/ Flush \/ NamesStop \/ NamesPowerLoss

NamesSpec == NamesInit /\ [][NamesNext]_namesVars

-----------------------------------------------------------------------------
Table == [Owner -> Seq(Nat)]

(* The shape of the registry and of its file, and that neither outgrows    *)
(* its limit.                                                              *)
NamesTypeOK ==
  /\ \A table \in {names, file, durable} : Cardinality(Holders(table)) <= MaxNames
  /\ names \in Table /\ file \in Table /\ durable \in Table
  /\ saving \in [on : BOOLEAN, owner : Owner, old : Seq(Nat)]

Injective(table) ==
  \A o, p \in Owner : table[o] = table[p] /\ table[o] # NoName => o = p

(***************************************************************************)
(* No two devices have the same public name at a time, in memory, in the   *)
(* file or after a restart: neither a failed save nor a stop in the middle *)
(* of Name, nor a loss of power that brings back an earlier file, leaves a *)
(* name with two devices.                                                  *)
(***************************************************************************)
NamesUnique == Injective(names) /\ Injective(file) /\ Injective(durable)

(* The Name call that a step begins, ends or breaks off is o's.            *)
Calls(o) == (saving.on /\ saving.owner = o) \/ (saving'.on /\ saving'.owner = o)

(***************************************************************************)
(* A device's name changes by its own Name call only: neither another      *)
(* device's call, nor a save that failed earlier, nor a stop of the        *)
(* process changes or loses a name that was given out.  A loss of power    *)
(* may: Name does not sync the directory, so it may bring back an earlier  *)
(* file, unless the file system had written the last one back.             *)
(***************************************************************************)
NamesStable ==
  [][\/ NamesPowerLoss /\ durable # file
     \/ \A o \in Owner : names'[o] # names[o] => Calls(o)]_namesVars

=============================================================================
