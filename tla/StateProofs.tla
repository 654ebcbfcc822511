----------------------------- MODULE StateProofs -----------------------------
(***************************************************************************)
(* What a Hive keeps in its state directory: the registry of names and the *)
(* enrolled keys.  They share no state, and are proved about one after the *)
(* other.                                                                  *)
(***************************************************************************)
EXTENDS Registry, Enrollment, FiniteSetTheorems, TLAPS

(***************************************************************************)
(* Public names are unique for every set of devices and every choice of    *)
(* names.  NamesUnique is not inductive: when a save fails, names rolls    *)
(* back to what it was, which is unique because it is the file.  So the    *)
(* invariant also says how names and file differ in the middle of a save.  *)
(***************************************************************************)
Shape ==
  /\ names \in Table /\ file \in Table /\ durable \in Table
  /\ saving \in [on : BOOLEAN, owner : Owner, old : Seq(Nat)]

(* Between calls names is the file; during a save, undoing it gives it.    *)
SavedBefore ==
  file = IF saving.on THEN [names EXCEPT ![saving.owner] = saving.old] ELSE names

UniqueInv == Shape /\ NamesUnique /\ SavedBefore

(* A candidate is a name.                                                  *)
LEMMA CandidateType ==
  ASSUME NEW w \in Wanted, NEW n \in Nat
  PROVE  Candidate(w, n) \in Seq(Nat)
<1>1. w \in Seq(Nat)
  BY RegistryAssumption
<1> QED
  BY <1>1 DEF Candidate

(* A table stays without duplicates when an owner gets a name that no      *)
(* other owner has.                                                        *)
LEMMA InjectiveExcept ==
  ASSUME NEW table \in Table, Injective(table), NEW o \in Owner, NEW name,
         \A p \in Owner \ {o} : table[p] # name
  PROVE  Injective([table EXCEPT ![o] = name])
BY DEF Injective, Table

LEMMA NoSaveType == NoSave \in [on : BOOLEAN, owner : Owner, old : Seq(Nat)] /\ ~NoSave.on
<1>1. (CHOOSE o \in Owner : TRUE) \in Owner
  BY RegistryAssumption
<1>2. NoName \in Seq(Nat)
  BY DEF NoName
<1> QED
  BY <1>1, <1>2 DEF NoSave

LEMMA UniqueInit == NamesInit => UniqueInv
<1> SUFFICES ASSUME NamesInit PROVE UniqueInv
  OBVIOUS
<1>1. names \in Table /\ file = names /\ durable = names
  BY DEF NamesInit, Table, NoName
<1>2. Injective(names)
  BY DEF NamesInit, Injective
<1> QED
  BY <1>1, <1>2, NoSaveType DEF NamesInit, UniqueInv, Shape, NamesUnique, SavedBefore

LEMMA UniqueStep == UniqueInv /\ [NamesNext]_namesVars => UniqueInv'
<1> SUFFICES ASSUME UniqueInv, [NamesNext]_namesVars PROVE UniqueInv'
  OBVIOUS
<1> USE DEF UniqueInv, Shape
<1>1. ASSUME NEW o \in Owner, NEW w \in Wanted, Update(o, w)
      PROVE  UniqueInv'
  <2>1. PICK n \in 1..Cardinality(Owner) :
          StopsAt(o, w, n) /\ names' = [names EXCEPT ![o] = Candidate(w, n)]
    BY <1>1 DEF Update
  <2>2. names' \in Table
    BY <2>1, CandidateType DEF Table
  <2>3. Injective(names')
    BY <2>1, InjectiveExcept DEF StopsAt, Used, NamesUnique
  <2>4. saving' \in [on : BOOLEAN, owner : Owner, old : Seq(Nat)]
    BY <1>1 DEF Update, Table
  <2>5. SavedBefore'
    <3>1. file = names
      BY <1>1 DEF Update, AtRest, SavedBefore
    <3>2. [names' EXCEPT ![o] = names[o]] = names
      BY <2>1 DEF Table
    <3> QED
      BY <1>1, <3>1, <3>2 DEF Update, SavedBefore
  <2> QED
    BY <1>1, <2>2, <2>3, <2>4, <2>5 DEF Update, NamesUnique
<1>2. CASE Save
  BY <1>2, NoSaveType DEF Save, NamesUnique, SavedBefore
<1>3. CASE SaveFails
  <2>1. names' = file
    BY <1>3 DEF SaveFails, AtRest, SavedBefore
  <2> QED
    BY <1>3, <2>1, NoSaveType DEF SaveFails, NamesUnique, SavedBefore
<1>4. CASE Flush
  BY <1>4 DEF Flush, NamesUnique, SavedBefore
<1>5. ASSUME NEW left \in Table, Injective(left), Opens(left), UNCHANGED durable
      PROVE  UniqueInv'
  BY <1>5, NoSaveType DEF Opens, NamesUnique, SavedBefore
<1>6. CASE UNCHANGED namesVars
  BY <1>6 DEF namesVars, NamesUnique, SavedBefore, Injective
<1>7. ASSUME NEW o \in Owner, NEW w \in Wanted, Keep(o, w)
      PROVE  UniqueInv'
  BY <1>6, <1>7 DEF Keep
<1>8. CASE NamesStop
  BY <1>5, <1>8 DEF NamesStop, NamesUnique
<1>9. CASE NamesPowerLoss
  BY <1>5, <1>9 DEF NamesPowerLoss, NamesUnique
<1> QED
  BY <1>1, <1>2, <1>3, <1>4, <1>6, <1>7, <1>8, <1>9 DEF NamesNext

(***************************************************************************)
(* No two devices ever share a public name, in memory, in names.json or    *)
(* after a stop at any point of Registry.Name.                             *)
(***************************************************************************)
THEOREM NamesAlwaysUnique == NamesSpec => []NamesUnique
<1>1. UniqueInv => NamesUnique
  BY DEF UniqueInv
<1> QED
  BY UniqueInit, UniqueStep, <1>1, PTL DEF NamesSpec

(***************************************************************************)
(* A step changes or loses a device's name only in that device's own call  *)
(* of Registry.Name, except for a loss of power while the last names.json  *)
(* has not been written back: this rests on SavedBefore, by which the file *)
(* that a stop leaves differs from the names in use at most in the change  *)
(* that is being saved.                                                    *)
(***************************************************************************)
Kept ==
  \/ NamesPowerLoss /\ durable # file
  \/ \A o \in Owner : names'[o] # names[o] => Calls(o)

LEMMA KeptStep == UniqueInv /\ [NamesNext]_namesVars => [Kept]_namesVars
<1> SUFFICES ASSUME UniqueInv, NamesNext PROVE Kept
  OBVIOUS
<1> USE DEF UniqueInv, Shape
<1>1. ASSUME NEW o \in Owner, NEW w \in Wanted, Update(o, w) PROVE Kept
  BY <1>1 DEF Update, Kept, Calls, Table
<1>2. ASSUME NEW o \in Owner, NEW w \in Wanted, Keep(o, w) PROVE Kept
  BY <1>2 DEF Keep, namesVars, Kept
<1>3. CASE Save \/ Flush
  BY <1>3 DEF Save, Flush, Kept
<1>4. CASE SaveFails
  BY <1>4 DEF SaveFails, AtRest, Kept, Calls, Table
<1>5. Opens(file) => Kept
  <2> SUFFICES ASSUME Opens(file), NEW o \in Owner, names'[o] # names[o]
               PROVE  Calls(o)
    BY DEF Kept
  <2>1. names # file /\ names' = file
    BY DEF Opens
  <2>2. saving.on /\ file = [names EXCEPT ![saving.owner] = saving.old]
    BY <2>1 DEF SavedBefore
  <2>3. saving.owner = o
    BY <2>1, <2>2 DEF Table
  <2> QED
    BY <2>2, <2>3 DEF Calls
<1>6. CASE NamesStop
  BY <1>5, <1>6 DEF NamesStop
<1>7. CASE NamesPowerLoss
  <2>1. CASE durable # file
    BY <1>7, <2>1 DEF Kept
  <2>2. CASE durable = file
    BY <1>5, <1>7, <2>2 DEF NamesPowerLoss
  <2> QED
    BY <2>1, <2>2
<1> QED
  BY <1>1, <1>2, <1>3, <1>4, <1>6, <1>7 DEF NamesNext

THEOREM NamesAlwaysStable == NamesSpec => NamesStable
BY UniqueInit, UniqueStep, KeptStep, PTL DEF NamesSpec, NamesStable, Kept

-----------------------------------------------------------------------------
(***************************************************************************)
(* No key is ever granted without being counted, for every set of devices  *)
(* and tokens and every limit.  KeysAreCounted is not inductive: appending *)
(* a key needs that its reservation is durable, and releasing a            *)
(* reservation needs that no version of registered_keys grants the key.    *)
(***************************************************************************)
USE EnrollmentAssumption

(* A registration that goes on is for a token, and starts without a use.   *)
Asking ==
  /\ pc # "idle" => req.token \in Token
  /\ pc = "reserve" => ~req.reserved

(* Before the key is appended its use is counted, durably.                 *)
ReservedFirst == pc = "append" => \A counts \in usesDisk : req.key \in counts[req.token]

(* A reservation of this call has not been used.                           *)
NotGranted ==
  pc = "release" \/ (pc = "append" /\ req.reserved) =>
    \A grants \in keysDisk : grants[req.key] # req.token

CountedInv == TypeOK /\ KeysAreCounted /\ Asking /\ ReservedFirst /\ NotGranted

LEMMA NoRequestType ==
  NoRequest \in [key : Key, token : Token \cup {NoToken}, reserved : BOOLEAN]
<1>1. (CHOOSE k \in Key : TRUE) \in Key
  OBVIOUS
<1> QED
  BY <1>1 DEF NoRequest

(* A call that ends leaves the idle state.                                 *)
LEMMA EndsType ==
  ASSUME TypeOK, NEW reason \in {"none", "registered", "exhausted", "error"}, Ends(reason)
  PROVE  /\ pc' = "idle"
         /\ req' \in [key : Key, token : Token \cup {NoToken}, reserved : BOOLEAN]
         /\ verdict' \in [reason : {"none", "registered", "exhausted", "error"}, key : Key,
                          token : Token \cup {NoToken}]
BY NoRequestType DEF Ends, TypeOK

LEMMA CountedInit == Init => CountedInv
<1> SUFFICES ASSUME Init PROVE CountedInv
  OBVIOUS
<1>1. TypeOK
  BY NoRequestType DEF Init, TypeOK, NoUses, NoKeys
<1>2. KeysAreCounted
  BY DEF Init, KeysAreCounted, NoKeys
<1> QED
  BY <1>1, <1>2 DEF Init, CountedInv, Asking, ReservedFirst, NotGranted

LEMMA CountedStep == CountedInv /\ [Next]_vars => CountedInv'
<1> SUFFICES ASSUME CountedInv, [Next]_vars PROVE CountedInv'
  OBVIOUS
<1> USE DEF CountedInv
<1>0. /\ usesDisk \subseteq [Token -> SUBSET Key] /\ uses \in usesDisk
      /\ keysDisk \subseteq [Key -> Token \cup {NoToken}] /\ keys \in keysDisk
      /\ req.key \in Key /\ req.reserved \in BOOLEAN
  BY DEF TypeOK
<1>1. ASSUME NEW k \in Key, NEW t \in Token, Begin(k, t) PROVE CountedInv'
  BY <1>1 DEF Begin, fileVars, TypeOK, KeysAreCounted, Asking, ReservedFirst, NotGranted
<1>2. ASSUME NEW k \in Key, NEW t \in Token, Confirm(k, t) PROVE CountedInv'
  BY <1>2 DEF Confirm, fileVars, TypeOK, KeysAreCounted, Asking, ReservedFirst, NotGranted
<1>3. CASE Resume
  <2>1. CASE Synced /\ pc' = "append" /\ UNCHANGED <<req, verdict>>
    BY <1>0, <1>3, <2>1
    DEF Resume, Synced, TypeOK, KeysAreCounted, Asking, ReservedFirst, NotGranted
  <2>2. CASE UNCHANGED <<usesDisk, keysDisk>> /\ Ends("error")
    BY <1>3, <2>2, EndsType
    DEF Resume, TypeOK, KeysAreCounted, Asking, ReservedFirst, NotGranted
  <2> QED
    BY <1>3, <2>1, <2>2 DEF Resume
<1>4. CASE Refuse
  BY <1>4, EndsType
  DEF Refuse, fileVars, TypeOK, KeysAreCounted, Asking, ReservedFirst, NotGranted
<1>5. CASE Reserve
  <2> DEFINE new == [uses EXCEPT ![req.token] = @ \cup {req.key}]
  <2>1. req.token \in Token /\ req.key \notin uses[req.token] /\ ~req.reserved
    BY <1>5 DEF Reserve, Asking
  <2>2. new \in [Token -> SUBSET Key] /\ req.key \in new[req.token]
        /\ \A t \in Token : uses[t] \subseteq new[t]
    BY <1>0, <2>1
  <2>3. \A grants \in keysDisk : grants[req.key] # req.token
    BY <1>0, <2>1 DEF KeysAreCounted
  <2> HIDE DEF new
  <2>4. CASE WriteUses(new) /\ Synced /\ pc' = "append"
             /\ req' = [req EXCEPT !.reserved = TRUE] /\ UNCHANGED verdict
    <3>1. TypeOK'
      BY <1>0, <1>5, <2>2, <2>4 DEF Reserve, WriteUses, Synced, TypeOK
    <3>2. KeysAreCounted'
      BY <1>0, <2>2, <2>4 DEF WriteUses, Synced, KeysAreCounted
    <3>3. Asking' /\ ReservedFirst' /\ NotGranted'
      BY <1>0, <2>1, <2>2, <2>3, <2>4, <3>1
      DEF WriteUses, Synced, Asking, ReservedFirst, NotGranted, TypeOK
    <3> QED
      BY <3>1, <3>2, <3>3
  <2>5. CASE WriteUses(new) /\ Committed /\ Ends("error")
    <3>1. TypeOK'
      BY <1>0, <1>5, <2>2, <2>5, EndsType DEF Reserve, WriteUses, Committed, TypeOK
    <3>2. KeysAreCounted'
      BY <1>0, <2>2, <2>5 DEF WriteUses, Committed, KeysAreCounted
    <3> QED
      BY <2>5, <3>1, <3>2, EndsType DEF Asking, ReservedFirst, NotGranted
  <2>6. CASE UNCHANGED fileVars /\ Ends("error")
    BY <1>5, <2>6, EndsType
    DEF Reserve, fileVars, TypeOK, KeysAreCounted, Asking, ReservedFirst, NotGranted
  <2> QED
    BY <1>5, <2>4, <2>5, <2>6 DEF Reserve, new
<1>6. CASE AppendKey
  <2> DEFINE new == [keys EXCEPT ![req.key] = req.token]
  <2>1. req.token \in Token /\ \A counts \in usesDisk : req.key \in counts[req.token]
    BY <1>6 DEF AppendKey, Asking, ReservedFirst
  <2>2. new \in [Key -> Token \cup {NoToken}]
    BY <1>0, <2>1
  <2>3. \A counts \in usesDisk, k \in Key : new[k] # NoToken => k \in counts[new[k]]
    BY <1>0, <2>1 DEF KeysAreCounted
  <2> HIDE DEF new
  <2>4. WriteKeys(new) /\ (Synced \/ Committed) /\ UNCHANGED tokens
    BY <1>6 DEF AppendKey, new
  <2>5. Ends("registered") \/ Ends("error")
    BY <1>6 DEF AppendKey
  <2>6. TypeOK'
    BY <1>0, <2>2, <2>4, <2>5, EndsType DEF WriteKeys, Synced, Committed, TypeOK
  <2>7. KeysAreCounted'
    BY <1>0, <2>3, <2>4 DEF WriteKeys, Synced, Committed, KeysAreCounted
  <2> QED
    BY <2>5, <2>6, <2>7, EndsType DEF Asking, ReservedFirst, NotGranted
<1>7. CASE AppendFails
  <2>1. CASE req.reserved
    BY <1>7, <2>1
    DEF AppendFails, fileVars, TypeOK, KeysAreCounted, Asking, ReservedFirst, NotGranted
  <2>2. CASE ~req.reserved
    BY <1>7, <2>2, EndsType
    DEF AppendFails, fileVars, TypeOK, KeysAreCounted, Asking, ReservedFirst, NotGranted
  <2> QED
    BY <2>1, <2>2
<1>8. CASE Release
  <2> DEFINE new == [uses EXCEPT ![req.token] = @ \ {req.key}]
  <2>1. req.token \in Token /\ \A grants \in keysDisk : grants[req.key] # req.token
    BY <1>8 DEF Release, Asking, NotGranted
  <2>2. new \in [Token -> SUBSET Key]
    BY <1>0, <2>1
  <2>3. \A grants \in keysDisk, k \in Key : grants[k] # NoToken => k \in new[grants[k]]
    BY <1>0, <2>1 DEF KeysAreCounted
  <2> HIDE DEF new
  <2>4. Ends("error") /\ UNCHANGED tokens
    BY <1>8 DEF Release
  <2>5. CASE WriteUses(new) /\ (Synced \/ Committed)
    <3>1. TypeOK'
      BY <1>0, <2>2, <2>4, <2>5, EndsType DEF WriteUses, Synced, Committed, TypeOK
    <3>2. KeysAreCounted'
      BY <1>0, <2>3, <2>5 DEF WriteUses, Synced, Committed, KeysAreCounted
    <3> QED
      BY <2>4, <3>1, <3>2, EndsType DEF Asking, ReservedFirst, NotGranted
  <2>6. CASE UNCHANGED fileVars
    BY <2>4, <2>6, EndsType
    DEF fileVars, TypeOK, KeysAreCounted, Asking, ReservedFirst, NotGranted
  <2> QED
    BY <1>8, <2>5, <2>6 DEF Release, new
<1>9. ASSUME Stops
      PROVE  /\ pc' = "idle" /\ tokens' \subseteq Token
             /\ req' \in [key : Key, token : Token \cup {NoToken}, reserved : BOOLEAN]
             /\ verdict' \in [reason : {"none", "registered", "exhausted", "error"}, key : Key,
                              token : Token \cup {NoToken}]
  BY <1>9, NoRequestType DEF Stops, TypeOK
<1>10. CASE Kill
  BY <1>9, <1>10
  DEF Kill, fileVars, TypeOK, KeysAreCounted, Asking, ReservedFirst, NotGranted
<1>11. CASE PowerLoss
  <2>1. TypeOK'
    BY <1>0, <1>9, <1>11 DEF PowerLoss, TypeOK
  <2>2. KeysAreCounted'
    BY <1>11 DEF PowerLoss, KeysAreCounted
  <2> QED
    BY <1>9, <1>11, <2>1, <2>2 DEF PowerLoss, Asking, ReservedFirst, NotGranted
<1>12. ASSUME NEW t \in Token, Revoke(t) PROVE CountedInv'
  BY <1>12 DEF Revoke, fileVars, TypeOK, KeysAreCounted, Asking, ReservedFirst, NotGranted
<1>13. ASSUME NEW k \in Key, DeleteKey(k) PROVE CountedInv'
  <2> DEFINE new == [keys EXCEPT ![k] = NoToken]
  <2>1. new \in [Key -> Token \cup {NoToken}]
    BY <1>0
  <2>2. \A counts \in usesDisk, j \in Key : new[j] # NoToken => j \in counts[new[j]]
    BY <1>0 DEF KeysAreCounted
  <2> HIDE DEF new
  <2>3. WriteKeys(new) /\ Committed /\ UNCHANGED <<tokens, pc, req, verdict>> /\ pc = "idle"
    BY <1>13 DEF DeleteKey, new
  <2>4. TypeOK'
    BY <1>0, <2>1, <2>3 DEF WriteKeys, Committed, TypeOK
  <2>5. KeysAreCounted'
    BY <1>0, <2>2, <2>3 DEF WriteKeys, Committed, KeysAreCounted
  <2> QED
    BY <2>3, <2>4, <2>5 DEF Asking, ReservedFirst, NotGranted
<1>14. CASE UNCHANGED vars
  BY <1>14 DEF vars, TypeOK, KeysAreCounted, Asking, ReservedFirst, NotGranted
<1> QED
  BY <1>1, <1>2, <1>3, <1>4, <1>5, <1>6, <1>7, <1>8, <1>10, <1>11, <1>12, <1>13, <1>14 DEF Next

(***************************************************************************)
(* "A crash can reserve capacity, never grant an uncounted key"            *)
(* (enrollment.go:224): whatever versions of the two files a stop leaves.  *)
(***************************************************************************)
THEOREM KeysAlwaysCounted == Spec => []KeysAreCounted
<1>1. CountedInv => KeysAreCounted
  BY DEF CountedInv
<1> QED
  BY CountedInit, CountedStep, <1>1, PTL DEF Spec

-----------------------------------------------------------------------------
(* Adding a key below a limit reaches it at most; removing one keeps it.   *)
LEMMA LimitLemma ==
  ASSUME NEW S \in SUBSET Key, NEW k \in Key, NEW n \in Nat
  PROVE  /\ Cardinality(S) < n => Cardinality(S \cup {k}) <= n
         /\ Cardinality(S) <= n => Cardinality(S \ {k}) <= n
<1>1. IsFiniteSet(S)
  BY FS_Subset
<1>2. Cardinality(S) \in Nat
  BY <1>1, FS_CardinalityType
<1>3. Cardinality(S \cup {k}) = IF k \in S THEN Cardinality(S) ELSE Cardinality(S) + 1
  BY <1>1, FS_AddElement
<1>4. Cardinality(S \ {k}) = IF k \in S THEN Cardinality(S) - 1 ELSE Cardinality(S)
  BY <1>1, FS_RemoveElement
<1> QED
  BY <1>2, <1>3, <1>4

LimitInv == CountedInv /\ LimitKept

(* Every version of the usage state that a step may leave was there before, *)
(* or is the one the step wrote.                                            *)
LEMMA LimitStep == LimitInv /\ [Next]_vars => LimitInv'
<1> SUFFICES ASSUME LimitInv, [Next]_vars PROVE LimitKept'
  BY CountedStep DEF LimitInv
<1>0. /\ usesDisk \subseteq [Token -> SUBSET Key] /\ uses \in usesDisk
      /\ req.key \in Key /\ (pc # "idle" => req.token \in Token)
  BY DEF LimitInv, CountedInv, TypeOK, Asking
<1>1. ASSUME usesDisk' \subseteq usesDisk PROVE LimitKept'
  BY <1>1 DEF LimitInv, LimitKept
<1>2. ASSUME NEW new \in [Token -> SUBSET Key], usesDisk' \subseteq usesDisk \cup {new},
             \A t \in Token : Limit[t] > 0 => Cardinality(new[t]) <= Limit[t]
      PROVE  LimitKept'
  BY <1>2 DEF LimitInv, LimitKept
<1>3. CASE Reserve /\ WriteUses([uses EXCEPT ![req.token] = @ \cup {req.key}])
  <2> DEFINE new == [uses EXCEPT ![req.token] = @ \cup {req.key}]
  <2>1. req.token \in Token /\ ~Exhausted(req.token)
    BY <1>0, <1>3 DEF Reserve, AtLimit
  <2>2. new \in [Token -> SUBSET Key]
    BY <1>0, <2>1
  <2>3. ASSUME NEW t \in Token, Limit[t] > 0 PROVE Cardinality(new[t]) <= Limit[t]
    <3>1. CASE t = req.token
      <4>1. uses[t] \in SUBSET Key /\ IsFiniteSet(uses[t])
        BY <1>0, FS_Subset
      <4>2. Cardinality(uses[t]) \in Nat
        BY <4>1, FS_CardinalityType
      <4>3. Cardinality(uses[t]) < Limit[t]
        BY <2>1, <2>3, <3>1, <4>2 DEF Exhausted
      <4>4. new[t] = uses[t] \cup {req.key}
        BY <1>0, <3>1
      <4> QED
        BY <1>0, <4>1, <4>3, <4>4, LimitLemma
    <3>2. CASE t # req.token
      BY <1>0, <2>3, <3>2 DEF LimitInv, LimitKept
    <3> QED
      BY <3>1, <3>2
  <2>4. usesDisk' \subseteq usesDisk \cup {new}
    BY <1>3 DEF Reserve, WriteUses, Synced, Committed, fileVars
  <2> HIDE DEF new
  <2> QED
    BY <1>2, <2>2, <2>3, <2>4
<1>4. CASE Release /\ WriteUses([uses EXCEPT ![req.token] = @ \ {req.key}])
  <2> DEFINE new == [uses EXCEPT ![req.token] = @ \ {req.key}]
  <2>1. req.token \in Token
    BY <1>0, <1>4 DEF Release
  <2>2. new \in [Token -> SUBSET Key]
    BY <1>0, <2>1
  <2>3. ASSUME NEW t \in Token, Limit[t] > 0 PROVE Cardinality(new[t]) <= Limit[t]
    <3>1. CASE t = req.token
      <4>1. uses[t] \in SUBSET Key /\ new[t] = uses[t] \ {req.key}
        BY <1>0, <3>1
      <4>2. Cardinality(uses[t]) <= Limit[t]
        BY <1>0, <2>3 DEF LimitInv, LimitKept
      <4> QED
        BY <1>0, <4>1, <4>2, LimitLemma
    <3>2. CASE t # req.token
      BY <1>0, <2>3, <3>2 DEF LimitInv, LimitKept
    <3> QED
      BY <3>1, <3>2
  <2>4. usesDisk' \subseteq usesDisk \cup {new}
    BY <1>4 DEF Release, WriteUses, Synced, Committed, fileVars
  <2> HIDE DEF new
  <2> QED
    BY <1>2, <2>2, <2>3, <2>4
<1>5. CASE Reserve /\ UNCHANGED fileVars
  BY <1>1, <1>5 DEF fileVars
<1>6. CASE Release /\ UNCHANGED fileVars
  BY <1>1, <1>6 DEF fileVars
<1>7. CASE Resume \/ AppendKey \/ PowerLoss
  BY <1>0, <1>1, <1>7 DEF Resume, AppendKey, PowerLoss, WriteKeys, Synced, Committed
<1>8. CASE Refuse \/ AppendFails \/ Kill
  BY <1>1, <1>8 DEF Refuse, AppendFails, Kill, fileVars
<1>9. ASSUME NEW k \in Key, NEW t \in Token, Begin(k, t) \/ Confirm(k, t) PROVE LimitKept'
  BY <1>1, <1>9 DEF Begin, Confirm, fileVars
<1>10. ASSUME NEW t \in Token, Revoke(t) PROVE LimitKept'
  BY <1>1, <1>10 DEF Revoke, fileVars
<1>11. ASSUME NEW k \in Key, DeleteKey(k) PROVE LimitKept'
  BY <1>0, <1>1, <1>11 DEF DeleteKey, WriteKeys, Committed
<1>12. CASE UNCHANGED vars
  BY <1>1, <1>12 DEF vars
<1>13. Reserve => (Reserve /\ WriteUses([uses EXCEPT ![req.token] = @ \cup {req.key}]))
                  \/ (Reserve /\ UNCHANGED fileVars)
  BY DEF Reserve
<1>14. Release => (Release /\ WriteUses([uses EXCEPT ![req.token] = @ \ {req.key}]))
                  \/ (Release /\ UNCHANGED fileVars)
  BY DEF Release
<1> QED
  BY <1>3, <1>4, <1>5, <1>6, <1>7, <1>8, <1>9, <1>10, <1>11, <1>12, <1>13, <1>14 DEF Next

(***************************************************************************)
(* ReserveUse never lets a token register more devices than its max_uses,  *)
(* however registrations are interrupted, retried, undone and deleted.     *)
(***************************************************************************)
THEOREM LimitAlwaysKept == Spec => []LimitKept
<1>1. Init => LimitInv
  <2> SUFFICES ASSUME Init PROVE LimitKept
    BY CountedInit DEF LimitInv
  <2>1. \A t \in Token : Cardinality(NoUses[t]) = 0
    BY FS_EmptySet DEF NoUses
  <2> QED
    BY <2>1 DEF Init, LimitKept
<1>2. LimitInv => LimitKept
  BY DEF LimitInv
<1> QED
  BY <1>1, LimitStep, <1>2, PTL DEF Spec


-----------------------------------------------------------------------------
(***************************************************************************)
(* Nobody is locked out.  LoadUses accepts a version that fits; that it is *)
(* finite, for any number of tokens, is what makes the counting inductive. *)
(***************************************************************************)
Fits(counts) ==
  /\ IsFiniteSet(CountedUses(counts)) /\ Cardinality(CountedUses(counts)) <= MaxKeys
  /\ IsFiniteSet(UsedTokens(counts)) /\ Cardinality(UsedTokens(counts)) <= MaxTokens

Granted(grants) == {k \in Key : grants[k] # NoToken}

LoadInv ==
  /\ CountedInv
  /\ \A counts \in usesDisk : Fits(counts)
  /\ \A grants \in keysDisk : Cardinality(Granted(grants)) <= MaxKeys
  /\ ReservationResumes

(* Adding to a set below a bound reaches it at most.                       *)
LEMMA AddBelow ==
  ASSUME NEW S, NEW x, NEW n \in Nat, IsFiniteSet(S), Cardinality(S) <= n,
         x \notin S => Cardinality(S) < n
  PROVE  IsFiniteSet(S \cup {x}) /\ Cardinality(S \cup {x}) <= n
<1>1. Cardinality(S) \in Nat
  BY FS_CardinalityType
<1>2. /\ IsFiniteSet(S \cup {x})
      /\ Cardinality(S \cup {x}) = IF x \in S THEN Cardinality(S) ELSE Cardinality(S) + 1
  BY FS_AddElement
<1> QED
  BY <1>1, <1>2

(* A subset of a set within a bound is within it.                          *)
LEMMA SubsetBelow ==
  ASSUME NEW S, NEW T \in SUBSET S, NEW n \in Nat, IsFiniteSet(S), Cardinality(S) <= n
  PROVE  IsFiniteSet(T) /\ Cardinality(T) <= n
<1>1. IsFiniteSet(T) /\ Cardinality(T) <= Cardinality(S)
  BY FS_Subset
<1>2. Cardinality(S) \in Nat /\ Cardinality(T) \in Nat
  BY <1>1, FS_CardinalityType
<1> QED
  BY <1>1, <1>2

(* A use that ReserveUse accepts leaves a version that fits,               *)
LEMMA UseFits ==
  ASSUME NEW counts \in [Token -> SUBSET Key], Fits(counts), NEW t \in Token, NEW k \in Key,
         Cardinality(CountedUses(counts)) < MaxKeys,
         counts[t] = {} => Cardinality(UsedTokens(counts)) < MaxTokens
  PROVE  Fits([counts EXCEPT ![t] = @ \cup {k}])
<1> DEFINE new == [counts EXCEPT ![t] = @ \cup {k}]
<1>1. new \in [Token -> SUBSET Key] /\ new[t] = counts[t] \cup {k}
      /\ \A u \in Token : u # t => new[u] = counts[u]
  OBVIOUS
<1> HIDE DEF new
<1>2. CountedUses(new) = CountedUses(counts) \cup {<<t, k>>}
  BY <1>1 DEF CountedUses
<1>3. UsedTokens(new) = UsedTokens(counts) \cup {t}
  BY <1>1 DEF UsedTokens
<1>4. t \notin UsedTokens(counts) => counts[t] = {}
  BY DEF UsedTokens
<1>5. IsFiniteSet(CountedUses(new)) /\ Cardinality(CountedUses(new)) <= MaxKeys
  <2> DEFINE S == CountedUses(counts)
  <2>1. IsFiniteSet(S) /\ Cardinality(S) <= MaxKeys /\ Cardinality(S) < MaxKeys
    BY DEF Fits
  <2> HIDE DEF S
  <2>2. IsFiniteSet(S \cup {<<t, k>>}) /\ Cardinality(S \cup {<<t, k>>}) <= MaxKeys
    BY <2>1, AddBelow
  <2> QED
    BY <1>2, <2>2 DEF S
<1>6. IsFiniteSet(UsedTokens(new)) /\ Cardinality(UsedTokens(new)) <= MaxTokens
  BY <1>3, <1>4, AddBelow DEF Fits
<1>7. Fits(new)
  BY <1>5, <1>6 DEF Fits
<1> QED
  BY <1>7 DEF new

(* and so does a use that ReleaseUse takes back.                           *)
LEMMA ReleaseFits ==
  ASSUME NEW counts \in [Token -> SUBSET Key], Fits(counts), NEW t \in Token, NEW k \in Key
  PROVE  Fits([counts EXCEPT ![t] = @ \ {k}])
<1> DEFINE new == [counts EXCEPT ![t] = @ \ {k}]
<1>1. \A u \in Token : new[u] \subseteq counts[u]
  OBVIOUS
<1> HIDE DEF new
<1>2. CountedUses(new) \in SUBSET CountedUses(counts)
  BY <1>1 DEF CountedUses
<1>3. UsedTokens(new) \in SUBSET UsedTokens(counts)
  BY <1>1 DEF UsedTokens
<1>4. IsFiniteSet(CountedUses(new)) /\ Cardinality(CountedUses(new)) <= MaxKeys
  BY <1>2, SubsetBelow DEF Fits
<1>5. IsFiniteSet(UsedTokens(new)) /\ Cardinality(UsedTokens(new)) <= MaxTokens
  BY <1>3, SubsetBelow DEF Fits
<1>6. Fits(new)
  BY <1>4, <1>5 DEF Fits
<1> QED
  BY <1>6 DEF new

(* Of the usage state a step leaves versions there were, and the one it    *)
(* wrote.                                                                  *)
LEMMA UsesFit ==
  ASSUME LoadInv, [Next]_vars
  PROVE  \A counts \in usesDisk' : Fits(counts)
<1>0. /\ usesDisk \subseteq [Token -> SUBSET Key] /\ uses \in usesDisk
      /\ req.key \in Key /\ (pc # "idle" => req.token \in Token)
  BY DEF LoadInv, CountedInv, TypeOK, Asking
<1>1. ASSUME usesDisk' \subseteq usesDisk PROVE \A counts \in usesDisk' : Fits(counts)
  BY <1>1 DEF LoadInv
<1>2. ASSUME NEW new, usesDisk' \subseteq usesDisk \cup {new}, Fits(new)
      PROVE  \A counts \in usesDisk' : Fits(counts)
  BY <1>2 DEF LoadInv
<1>3. CASE Reserve /\ WriteUses([uses EXCEPT ![req.token] = @ \cup {req.key}])
  <2>1. req.token \in Token /\ ~AtLimit(req.token)
    BY <1>0, <1>3 DEF Reserve
  <2>2. Fits(uses) /\ uses \in [Token -> SUBSET Key]
    BY <1>0 DEF LoadInv
  <2>3. /\ Cardinality(CountedUses(uses)) \in Nat
        /\ Cardinality(UsedTokens(uses)) \in Nat
    BY <2>2, FS_CardinalityType DEF Fits
  <2>4. /\ Cardinality(CountedUses(uses)) < MaxKeys
        /\ uses[req.token] = {} => Cardinality(UsedTokens(uses)) < MaxTokens
    BY <2>1, <2>3 DEF AtLimit
  <2>5. Fits([uses EXCEPT ![req.token] = @ \cup {req.key}])
    BY <1>0, <2>1, <2>2, <2>4, UseFits
  <2>6. usesDisk' \subseteq usesDisk \cup {[uses EXCEPT ![req.token] = @ \cup {req.key}]}
    BY <1>3 DEF Reserve, WriteUses, Synced, Committed, fileVars
  <2> QED
    BY <1>2, <2>5, <2>6
<1>4. CASE Release /\ WriteUses([uses EXCEPT ![req.token] = @ \ {req.key}])
  <2>1. req.token \in Token
    BY <1>0, <1>4 DEF Release
  <2>2. Fits(uses) /\ uses \in [Token -> SUBSET Key]
    BY <1>0 DEF LoadInv
  <2>3. Fits([uses EXCEPT ![req.token] = @ \ {req.key}])
    BY <1>0, <2>1, <2>2, ReleaseFits
  <2>4. usesDisk' \subseteq usesDisk \cup {[uses EXCEPT ![req.token] = @ \ {req.key}]}
    BY <1>4 DEF Release, WriteUses, Synced, Committed, fileVars
  <2> QED
    BY <1>2, <2>3, <2>4
<1>5. CASE (Reserve \/ Release) /\ UNCHANGED fileVars
  BY <1>1, <1>5 DEF fileVars
<1>6. CASE Resume \/ AppendKey \/ PowerLoss
  BY <1>0, <1>1, <1>6 DEF Resume, AppendKey, PowerLoss, WriteKeys, Synced, Committed
<1>7. CASE Refuse \/ AppendFails \/ Kill
  BY <1>1, <1>7 DEF Refuse, AppendFails, Kill, fileVars
<1>8. ASSUME NEW k \in Key, NEW t \in Token, Begin(k, t) \/ Confirm(k, t)
      PROVE  \A counts \in usesDisk' : Fits(counts)
  BY <1>1, <1>8 DEF Begin, Confirm, fileVars
<1>9. ASSUME NEW t \in Token, Revoke(t) PROVE \A counts \in usesDisk' : Fits(counts)
  BY <1>1, <1>9 DEF Revoke, fileVars
<1>10. ASSUME NEW k \in Key, DeleteKey(k) PROVE \A counts \in usesDisk' : Fits(counts)
  BY <1>0, <1>1, <1>10 DEF DeleteKey, WriteKeys, Committed
<1>11. CASE UNCHANGED vars
  BY <1>1, <1>11 DEF vars
<1>12. Reserve => (Reserve /\ WriteUses([uses EXCEPT ![req.token] = @ \cup {req.key}]))
                  \/ ((Reserve \/ Release) /\ UNCHANGED fileVars)
  BY DEF Reserve
<1>13. Release => (Release /\ WriteUses([uses EXCEPT ![req.token] = @ \ {req.key}]))
                  \/ ((Reserve \/ Release) /\ UNCHANGED fileVars)
  BY DEF Release
<1> QED
  BY <1>3, <1>4, <1>5, <1>6, <1>7, <1>8, <1>9, <1>10, <1>11, <1>12, <1>13 DEF Next

(* Of the registered keys as well: AppendAuthorizedKey counts them first.  *)
LEMMA KeysFit ==
  ASSUME LoadInv, [Next]_vars
  PROVE  \A grants \in keysDisk' : Cardinality(Granted(grants)) <= MaxKeys
<1>0. keysDisk \subseteq [Key -> Token \cup {NoToken}] /\ keys \in keysDisk /\ req.key \in Key
  BY DEF LoadInv, CountedInv, TypeOK
<1>1. ASSUME keysDisk' \subseteq keysDisk
      PROVE  \A grants \in keysDisk' : Cardinality(Granted(grants)) <= MaxKeys
  BY <1>1 DEF LoadInv
<1>2. ASSUME NEW new, keysDisk' \subseteq keysDisk \cup {new},
             Cardinality(Granted(new)) <= MaxKeys
      PROVE  \A grants \in keysDisk' : Cardinality(Granted(grants)) <= MaxKeys
  BY <1>2 DEF LoadInv
<1>3. \A S \in SUBSET Key : IsFiniteSet(S)
  BY FS_Subset
<1>4. Granted(keys) \in SUBSET Key /\ Cardinality(Granted(keys)) <= MaxKeys
  BY <1>0 DEF LoadInv, Granted
<1>5. CASE AppendKey
  <2> DEFINE new == [keys EXCEPT ![req.key] = req.token]
  <2>1. Cardinality(Granted(keys)) < MaxKeys
    BY <1>5 DEF AppendKey, Registered, Granted
  <2>2. Granted(new) \in SUBSET (Granted(keys) \cup {req.key})
    BY <1>0 DEF Granted
  <2>3. keysDisk' \subseteq keysDisk \cup {new}
    BY <1>5 DEF AppendKey, WriteKeys, Synced, Committed
  <2> HIDE DEF new
  <2>4. /\ IsFiniteSet(Granted(keys) \cup {req.key})
        /\ Cardinality(Granted(keys) \cup {req.key}) <= MaxKeys
    BY <1>3, <1>4, <2>1, AddBelow
  <2>5. Cardinality(Granted(new)) <= MaxKeys
    BY <2>2, <2>4, SubsetBelow
  <2> QED
    BY <1>2, <2>3, <2>5
<1>6. ASSUME NEW k \in Key, DeleteKey(k)
      PROVE  \A grants \in keysDisk' : Cardinality(Granted(grants)) <= MaxKeys
  <2> DEFINE new == [keys EXCEPT ![k] = NoToken]
  <2>1. Granted(new) \in SUBSET Granted(keys)
    BY <1>0 DEF Granted
  <2>2. keysDisk' \subseteq keysDisk \cup {new}
    BY <1>6 DEF DeleteKey, WriteKeys, Committed
  <2> HIDE DEF new
  <2>3. Cardinality(Granted(new)) <= MaxKeys
    BY <1>3, <1>4, <2>1, SubsetBelow
  <2> QED
    BY <1>2, <2>2, <2>3
<1>7. CASE Resume \/ Reserve \/ Release \/ PowerLoss
  BY <1>0, <1>1, <1>7 DEF Resume, Reserve, Release, PowerLoss, WriteUses, Synced, Committed, fileVars
<1>8. CASE Refuse \/ AppendFails \/ Kill
  BY <1>1, <1>8 DEF Refuse, AppendFails, Kill, fileVars
<1>9. ASSUME NEW k \in Key, NEW t \in Token, Begin(k, t) \/ Confirm(k, t)
      PROVE  \A grants \in keysDisk' : Cardinality(Granted(grants)) <= MaxKeys
  BY <1>1, <1>9 DEF Begin, Confirm, fileVars
<1>10. ASSUME NEW t \in Token, Revoke(t)
       PROVE  \A grants \in keysDisk' : Cardinality(Granted(grants)) <= MaxKeys
  BY <1>1, <1>10 DEF Revoke, fileVars
<1>11. CASE UNCHANGED vars
  BY <1>1, <1>11 DEF vars
<1> QED
  BY <1>5, <1>6, <1>7, <1>8, <1>9, <1>10, <1>11 DEF Next

(* A refusal stands until a call ends again; the uses it was read from do  *)
(* not change while none is under way.                                     *)
LEMMA ResumesStep ==
  ASSUME LoadInv, [Next]_vars
  PROVE  ReservationResumes'
<1> USE DEF LoadInv, ReservationResumes
<1>1. CASE Refuse
  BY <1>1 DEF Refuse, Ends, fileVars
<1>2. ASSUME Ends("error") \/ Ends("registered") \/ Stops PROVE ReservationResumes'
  BY <1>2 DEF Ends, Stops
<1>3. ASSUME pc' # "idle" PROVE ReservationResumes'
  BY <1>3
<1>4. CASE Resume \/ Reserve \/ AppendKey \/ AppendFails \/ Release
  <2>1. Ends("error") \/ Ends("registered") \/ pc' # "idle"
    BY <1>4 DEF Resume, Reserve, AppendKey, AppendFails, Release
  <2> QED
    BY <1>2, <1>3, <2>1
<1>5. CASE Kill \/ PowerLoss
  BY <1>2, <1>5 DEF Kill, PowerLoss
<1>6. ASSUME NEW k \in Key, NEW t \in Token, Begin(k, t) \/ Confirm(k, t)
      PROVE  ReservationResumes'
  BY <1>6 DEF Begin, Confirm
<1>7. ASSUME NEW t \in Token, Revoke(t) PROVE ReservationResumes'
  BY <1>7 DEF Revoke, fileVars
<1>8. ASSUME NEW k \in Key, DeleteKey(k) PROVE ReservationResumes'
  BY <1>8 DEF DeleteKey, WriteKeys
<1>9. CASE UNCHANGED vars
  BY <1>9 DEF vars, fileVars
<1> QED
  BY <1>1, <1>4, <1>5, <1>6, <1>7, <1>8, <1>9 DEF Next

(***************************************************************************)
(* LoadUses and ReadAuthorizedKeys accept whatever enroll leaves, and      *)
(* ReserveUse never refuses a device for the use it has itself reserved.   *)
(***************************************************************************)
THEOREM NobodyEverLockedOut == Spec => []NobodyLockedOut
<1>1. Init => LoadInv
  <2> SUFFICES ASSUME Init PROVE LoadInv
    OBVIOUS
  <2>1. CountedUses(NoUses) = {} /\ UsedTokens(NoUses) = {} /\ Granted(NoKeys) = {}
    BY DEF CountedUses, UsedTokens, Granted, NoUses, NoKeys
  <2>2. Fits(NoUses) /\ Cardinality(Granted(NoKeys)) <= MaxKeys
    BY <2>1, FS_EmptySet DEF Fits
  <2> QED
    BY <2>2, CountedInit DEF Init, LoadInv, ReservationResumes
<1>2. LoadInv /\ [Next]_vars => LoadInv'
  <2> SUFFICES ASSUME LoadInv, [Next]_vars PROVE LoadInv'
    OBVIOUS
  <2>1. CountedInv'
    BY CountedStep DEF LoadInv
  <2> QED
    BY <2>1, UsesFit, KeysFit, ResumesStep DEF LoadInv
<1>3. LoadInv => NobodyLockedOut
  BY DEF LoadInv, Fits, Granted, NobodyLockedOut, FilesLoad
<1> QED
  BY <1>1, <1>2, <1>3, PTL DEF Spec

=============================================================================
