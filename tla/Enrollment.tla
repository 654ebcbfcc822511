----------------------------- MODULE Enrollment ------------------------------
(***************************************************************************)
(* Self-service registration of device keys: enroll in                     *)
(* hive/internal/server/enroll.go over the files of                        *)
(* hive/internal/enrollment/enrollment.go, and the administrator's token   *)
(* file (hive/cmd/hive/enroll.go).                                         *)
(*                                                                         *)
(* enroll holds s.enrollMu, so one registration runs at a time; but the    *)
(* process or the machine may stop between any two of its steps.  A file   *)
(* is replaced by renaming a synced temporary file and then syncing the    *)
(* directory: until that sync has succeeded, a power loss may bring back   *)
(* any version since the last one.  enrollment.json and registered_keys    *)
(* are in the same directory, so a sync settles both.                      *)
(***************************************************************************)
EXTENDS Integers, FiniteSets

CONSTANTS
  Key,        \* device keys
  Token,      \* tokens the administrator issues
  Limit,      \* max_uses of every token; 0 is unlimited
  MaxKeys,    \* registered keys, and keys in the usage state (1024)
  MaxTokens,  \* tokens in the usage state (1024)
  NoToken     \* a key that is not registered

ASSUME EnrollmentAssumption ==
  /\ NoToken \notin Token /\ Limit \in [Token -> Nat]
  /\ MaxKeys \in Nat /\ MaxTokens \in Nat /\ Key # {} /\ IsFiniteSet(Key)

VARIABLES
  tokens,     \* authorized_tokens: which tokens can be redeemed
  uses,       \* enrollment.json: the keys counted against each token
  usesDisk,   \* the versions of it a power loss may leave
  keys,       \* registered_keys: the token each key was registered with
  keysDisk,   \* the versions of it a power loss may leave
  pc, req,    \* the registration that holds enrollMu
  verdict     \* why the last registration was refused, if it was

fileVars == <<uses, usesDisk, keys, keysDisk>>
vars == <<tokens, uses, usesDisk, keys, keysDisk, pc, req, verdict>>

NoUses == [t \in Token |-> {}]
NoKeys == [k \in Key |-> NoToken]
NoRequest == [key |-> CHOOSE k \in Key : TRUE, token |-> NoToken, reserved |-> FALSE]

Registered == {k \in Key : keys[k] # NoToken}

(* The keys of all tokens are counted together against MaxKeys.            *)
CountedUses(counts) == {use \in Token \X Key : use[2] \in counts[use[1]]}

(* The tokens with a record in the usage state.                            *)
UsedTokens(counts) == {t \in Token : counts[t] # {}}

(* Faulty: off by one.                                                     *)
ExhaustedLate(t) == Limit[t] > 0 /\ Cardinality(uses[t]) > Limit[t]

Exhausted(t) == Limit[t] > 0 /\ Cardinality(uses[t]) >= Limit[t]

(* Faulty: the number of tokens is not bounded.                            *)
AtLimitOfKeys(t) ==
  \/ Exhausted(t)
  \/ Cardinality(CountedUses(uses)) >= MaxKeys

(* The three limits at which ReserveUse refuses a new key.                 *)
AtLimit(t) ==
  \/ Exhausted(t)
  \/ Cardinality(UsedTokens(uses)) >= MaxTokens /\ uses[t] = {}
  \/ Cardinality(CountedUses(uses)) >= MaxKeys

-----------------------------------------------------------------------------
(***************************************************************************)
(* atomicWrite: nothing is replaced; or the file is replaced and the       *)
(* directory synced; or it is replaced and the sync fails (ErrCommitted).  *)
(***************************************************************************)
WriteUses(new) == uses' = new /\ UNCHANGED keys
WriteKeys(new) == keys' = new /\ UNCHANGED uses

(* syncDirectory succeeded after the write.                                *)
Synced == usesDisk' = {uses'} /\ keysDisk' = {keys'}

(* ErrCommitted: the new version is visible and may or may not last.       *)
Committed == usesDisk' = usesDisk \cup {uses'} /\ keysDisk' = keysDisk \cup {keys'}

Ends(reason) ==
  /\ pc' = "idle" /\ req' = NoRequest
  /\ verdict' = [reason |-> reason, key |-> req.key, token |-> req.token]

-----------------------------------------------------------------------------
(***************************************************************************)
(* enroll, up to ReserveUse: the token can be redeemed, and the key is not *)
(* registered yet.                                                         *)
(***************************************************************************)
Begin(k, t) ==
  /\ pc = "idle" /\ t \in tokens /\ k \notin Registered
  /\ pc' = "reserve" /\ req' = [key |-> k, token |-> t, reserved |-> FALSE]
  /\ UNCHANGED <<tokens, fileVars, verdict>>

(* A key that is registered already is confirmed without another use.      *)
Confirm(k, t) ==
  /\ pc = "idle" /\ t \in tokens /\ k \in Registered
  /\ verdict' = [reason |-> "registered", key |-> k, token |-> t]
  /\ UNCHANGED <<tokens, fileVars, pc, req>>

(* ReserveUse, for a key that has a reservation: it only has to be durable.*)
Resume ==
  /\ pc = "reserve" /\ req.key \in uses[req.token]
  /\ UNCHANGED <<tokens, uses, keys>>
  /\ \/ Synced /\ pc' = "append" /\ UNCHANGED <<req, verdict>>
     \/ UNCHANGED <<usesDisk, keysDisk>> /\ Ends("error")

(* ReserveUse, at a limit.                                                 *)
Refuse ==
  /\ pc = "reserve" /\ req.key \notin uses[req.token]
  /\ AtLimit(req.token)
  /\ Ends("exhausted")
  /\ UNCHANGED <<tokens, fileVars>>

(* ReserveUse, for a new key.                                              *)
Reserve ==
  /\ pc = "reserve" /\ req.key \notin uses[req.token]
  /\ ~AtLimit(req.token)
  /\ \/ /\ WriteUses([uses EXCEPT ![req.token] = @ \cup {req.key}])
        /\ \/ /\ Synced
              /\ pc' = "append" /\ req' = [req EXCEPT !.reserved = TRUE]
              /\ UNCHANGED verdict
           \/ Committed /\ Ends("error")
     \/ UNCHANGED fileVars /\ Ends("error")
  /\ UNCHANGED tokens

(* Faulty: the reservation is rolled back after ErrCommitted as well.      *)
AppendRollsBack ==
  /\ pc = "append" /\ Cardinality(Registered) < MaxKeys
  /\ WriteKeys([keys EXCEPT ![req.key] = req.token])
  /\ \/ Synced /\ Ends("registered")
     \/ Committed /\ pc' = "release" /\ UNCHANGED <<req, verdict>>
  /\ UNCHANGED tokens

(* AppendAuthorizedKey.                                                    *)
AppendKey ==
  /\ pc = "append" /\ Cardinality(Registered) < MaxKeys
  /\ WriteKeys([keys EXCEPT ![req.key] = req.token])
  /\ \/ Synced /\ Ends("registered")
     \/ Committed /\ Ends("error")
  /\ UNCHANGED tokens

(* It failed and replaced nothing: a reservation of this call is undone.   *)
AppendFails ==
  /\ pc = "append"
  /\ IF req.reserved THEN pc' = "release" /\ UNCHANGED <<req, verdict>> ELSE Ends("error")
  /\ UNCHANGED <<tokens, fileVars>>

(* ReleaseUse; that it may fail is ignored, and the reservation stays.     *)
Release ==
  /\ pc = "release"
  /\ \/ /\ WriteUses([uses EXCEPT ![req.token] = @ \ {req.key}])
        /\ Synced \/ Committed
     \/ UNCHANGED fileVars
  /\ Ends("error")
  /\ UNCHANGED tokens

Stops ==
  /\ pc' = "idle" /\ req' = NoRequest
  /\ verdict' = [reason |-> "none", key |-> NoRequest.key, token |-> NoToken]
  /\ UNCHANGED tokens

(* The process is killed: the files are as the system shows them.          *)
Kill == Stops /\ UNCHANGED fileVars

(* The machine loses power: each file comes back in a version it may have. *)
PowerLoss ==
  /\ uses' \in usesDisk /\ keys' \in keysDisk
  /\ usesDisk' = {uses'} /\ keysDisk' = {keys'}
  /\ Stops

-----------------------------------------------------------------------------
(* hive enroll revoke, or the token's expiry.                              *)
Revoke(t) ==
  /\ t \in tokens
  /\ tokens' = tokens \ {t}
  /\ UNCHANGED <<fileVars, pc, req, verdict>>

(* The administrator deletes a key's line while Hive is stopped.           *)
DeleteKey(k) ==
  /\ pc = "idle" /\ k \in Registered
  /\ WriteKeys([keys EXCEPT ![k] = NoToken])
  /\ Committed
  /\ UNCHANGED <<tokens, pc, req, verdict>>

Init ==
  /\ tokens = Token
  /\ uses = NoUses /\ usesDisk = {NoUses}
  /\ keys = NoKeys /\ keysDisk = {NoKeys}
  /\ pc = "idle" /\ req = NoRequest
  /\ verdict = [reason |-> "none", key |-> NoRequest.key, token |-> NoToken]

Next ==
  \/ \E k \in Key, t \in Token : Begin(k, t) \/ Confirm(k, t)
  \/ Resume \/ Refuse \/ Reserve \/ AppendKey \/ AppendFails \/ Release
  \/ Kill \/ PowerLoss
  \/ (\E t \in Token : Revoke(t)) \/ (\E k \in Key : DeleteKey(k))

Spec == Init /\ [][Next]_vars

-----------------------------------------------------------------------------
(* The shape of the files and of the call in progress.                     *)
TypeOK ==
  /\ tokens \subseteq Token
  /\ usesDisk \subseteq [Token -> SUBSET Key] /\ uses \in usesDisk
  /\ keysDisk \subseteq [Key -> Token \cup {NoToken}] /\ keys \in keysDisk
  /\ pc \in {"idle", "reserve", "append", "release"}
  /\ req \in [key : Key, token : Token \cup {NoToken}, reserved : BOOLEAN]
  /\ verdict \in [reason : {"none", "registered", "exhausted", "error"}, key : Key,
                  token : Token \cup {NoToken}]

(***************************************************************************)
(* "A crash can reserve capacity, never grant an uncounted key": whichever *)
(* versions of the two files a stop leaves, every registered key is        *)
(* counted against the token it was registered with.                       *)
(***************************************************************************)
KeysAreCounted ==
  \A grants \in keysDisk, counts \in usesDisk, k \in Key :
    grants[k] # NoToken => k \in counts[grants[k]]

(***************************************************************************)
(* A token never registers more devices than its limit, however its        *)
(* registrations are retried, interrupted, undone and deleted.             *)
(***************************************************************************)
LimitKept ==
  \A counts \in usesDisk, t \in Token :
    Limit[t] > 0 => Cardinality(counts[t]) <= Limit[t]

(***************************************************************************)
(* LoadUses and ReadAuthorizedKeys accept every version of the files that  *)
(* enroll can leave: a file over one of the limits would be refused as a   *)
(* whole, and no device could register, or log in, any more.               *)
(***************************************************************************)
FilesLoad ==
  /\ \A counts \in usesDisk : /\ Cardinality(CountedUses(counts)) <= MaxKeys
                              /\ Cardinality(UsedTokens(counts)) <= MaxTokens
  /\ \A grants \in keysDisk : Cardinality({k \in Key : grants[k] # NoToken}) <= MaxKeys

(***************************************************************************)
(* "Retrying the same key resumes its reservation, including at the usage  *)
(* limit": a device is never told that a token is exhausted by itself.     *)
(***************************************************************************)
ReservationResumes ==
  verdict.reason = "exhausted" /\ pc = "idle" => verdict.key \notin uses[verdict.token]

(***************************************************************************)
(* Whatever fails and is repeated, no device is locked out: neither all, by*)
(* files that no longer load, nor one, by the use it has reserved itself.  *)
(***************************************************************************)
NobodyLockedOut == FilesLoad /\ ReservationResumes

=============================================================================
