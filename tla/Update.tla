--------------------------------- MODULE Update ---------------------------------
(* bee update (bee/internal/app/update.go, internal/update/update.go) and the  *)
(* processes of bee run that it replaces (publisher/daemon.go, cmd/bee/main.go,*)
(* spawnIfUnowned in app.go).  An installation has one updater at a time, for  *)
(* its lock is held until the updater ends; it may be killed at any step.      *)
(* Versions are numbered in the order of newer; 0 is a build without release.  *)
EXTENDS Integers

CONSTANTS Proc,       \* processes of bee run
          MaxVersion, \* bound: the last release
          NoVersion   \* no version: no publisher runs, or no linked manifest

ASSUME UpdateConstants == MaxVersion \in Nat /\ NoVersion \notin Int

Version == 0 .. MaxVersion

VARIABLES disk,     \* the versions of the executable and of the plugin's manifest
          released, \* the last release
          proc,     \* the processes, each with the version that it executes
          updater

updateVars == <<disk, released, proc, updater>>

NotUpdating == [at |-> "no", before |-> NoVersion, result |-> 0, locked |-> FALSE, early |-> {}]

(* Type correctness.  A process is "loaded" before it tries run.lock, and has  *)
(* its socket when it is "up"; "gone" was killed.                              *)
UpdateTypeOK ==
  /\ disk \in [binary : Version, manifest : Version \cup {NoVersion}]
  /\ released \in Version
  /\ proc \in [Proc -> [at : {"off", "gone", "loaded", "locked", "up", "leaving"},
                        version : Version]]
  /\ updater \in [at : {"no", "open", "inspected", "staged", "replacing", "installed",
                        "polling"},
                  before : Version \cup {NoVersion}, result : Version,
                  locked : BOOLEAN, early : SUBSET Proc]

UpdateInit ==
  /\ \E v \in {0, 1} \cap Version : \E m \in {v, NoVersion} :
       disk = [binary |-> v, manifest |-> m]
  /\ released = 0
  /\ proc = [p \in Proc |-> [at |-> "off", version |-> 0]]
  /\ updater = NotUpdating

(* run.lock is held from the start of Daemon until it returns.                *)
RunLocked == updater.locked \/ \E p \in Proc : proc[p].at \in {"locked", "up", "leaving"}

Publisher(p) == proc[p].at = "up"

-----------------------------------------------------------------------------
(* The processes.                                                             *)

(* bee run, by hand or from spawnIfUnowned.                                   *)
Spawn(p) ==
  /\ proc[p].at \in {"off", "gone"}
  /\ proc' = [proc EXCEPT ![p] = [at |-> "loaded", version |-> disk.binary]]
  /\ UNCHANGED <<disk, released, updater>>

(* Daemon: one process has the lock, any other leaves at once.                *)
Lock(p) ==
  /\ proc[p].at = "loaded"
  /\ proc' = [proc EXCEPT ![p].at = IF RunLocked THEN "off" ELSE "locked"]
  /\ UNCHANGED <<disk, released, updater>>

Listen(p) ==
  /\ proc[p].at = "locked"
  /\ proc' = [proc EXCEPT ![p].at = "up"]
  /\ UNCHANGED <<disk, released, updater>>

(* Faulty: ErrRestart ends the process like any other error.                  *)
Exit(p) ==
  /\ proc[p].at = "leaving"
  /\ proc' = [proc EXCEPT ![p].at = "off"]
  /\ UNCHANGED <<disk, released, updater>>

(* ErrRestart: the lock is closed, then the installed binary executed.        *)
Exec(p) ==
  /\ proc[p].at = "leaving"
  /\ proc' = [proc EXCEPT ![p] = [at |-> "loaded", version |-> disk.binary]]
  /\ UNCHANGED <<disk, released, updater>>

(* A process is killed, interrupted, or told that nothing is enabled.         *)
Leave(p) ==
  /\ proc[p].at \notin {"off", "gone"}
  /\ proc' = [proc EXCEPT ![p].at = "gone"]
  /\ UNCHANGED <<disk, released, updater>>

-----------------------------------------------------------------------------
(* The updater.                                                               *)

Open ==
  /\ updater.at = "no"
  /\ updater' = [updater EXCEPT !.at = "open"]
  /\ UNCHANGED <<disk, released, proc>>

(* The status of the publisher; without a socket, run.lock shows that none    *)
(* has started, and keeps any from starting.                                  *)
Inspect ==
  /\ updater.at = "open"
  /\ \/ \E p \in Proc : Publisher(p) /\ updater' = [updater EXCEPT !.before = proc[p].version,
                          !.at = "inspected", !.early = {q \in Proc : proc[q].at = "loaded"}]
     \/ /\ ~RunLocked
        /\ updater' = [updater EXCEPT !.locked = TRUE, !.at = "inspected"]
  /\ UNCHANGED <<disk, released, proc>>

(* Faulty: what an earlier update has installed is not activated.             *)
CheckOnly ==
  /\ updater.at = "inspected"
  /\ updater' = IF released > disk.binary
                THEN [updater EXCEPT !.at = "staged", !.result = released]
                ELSE [updater EXCEPT !.at = "installed", !.result = disk.binary,
                                     !.before = NoVersion]
  /\ UNCHANGED <<disk, released, proc>>

(* Install: the version of the executable on disk, and that of the last       *)
(* release, which is downloaded, verified and staged if it is newer.          *)
Check ==
  /\ updater.at = "inspected"
  /\ updater' = IF released > disk.binary
                THEN [updater EXCEPT !.at = "staged", !.result = released]
                ELSE [updater EXCEPT !.at = "installed", !.result = disk.binary]
  /\ UNCHANGED <<disk, released, proc>>

(* Faulty: the binary comes first.                                            *)
BinaryFirst ==
  /\ updater.at = "staged"
  /\ disk' = [disk EXCEPT !.binary = updater.result]
  /\ updater' = [updater EXCEPT !.at = "replacing"]
  /\ UNCHANGED <<released, proc>>

(* The two renames.                                                           *)
ReplaceManifest ==
  /\ updater.at = "staged"
  /\ disk' = IF disk.manifest = NoVersion THEN disk
             ELSE [disk EXCEPT !.manifest = updater.result]
  /\ updater' = [updater EXCEPT !.at = "replacing"]
  /\ UNCHANGED <<released, proc>>

ReplaceBinary ==
  /\ updater.at = "replacing"
  /\ disk' = [disk EXCEPT !.binary = updater.result]
  /\ updater' = [updater EXCEPT !.at = "installed"]
  /\ UNCHANGED <<released, proc>>

(* Activation, also of what an earlier update has installed.                  *)
MustRestart == updater.before \notin {NoVersion, updater.result}

(* Control "restart", to the process that has the socket now.                 *)
Restart ==
  /\ updater.at = "installed" /\ MustRestart
  /\ \E p \in Proc : Publisher(p) /\ proc' = [proc EXCEPT ![p].at = "leaving"]
  /\ updater' = [updater EXCEPT !.at = "polling"]
  /\ UNCHANGED <<disk, released>>

(* The command succeeds.                                                      *)
Succeeds ==
  /\ \/ updater.at = "installed" /\ ~MustRestart
     \/ /\ updater.at = "polling"
        /\ \E p \in Proc : Publisher(p) /\ proc[p].version = updater.result
  /\ updater' = NotUpdating
  /\ UNCHANGED <<disk, released, proc>>

(* An error at any step, a deadline, or a crash.                              *)
GivesUp ==
  /\ updater.at # "no"
  /\ updater' = NotUpdating
  /\ UNCHANGED <<disk, released, proc>>

Release ==
  /\ released < MaxVersion
  /\ released' = released + 1
  /\ UNCHANGED <<disk, proc, updater>>

UpdateNext ==
  \/ \E p \in Proc : Spawn(p) \/ Lock(p) \/ Listen(p) \/ Exec(p) \/ Leave(p)
  \/ Open \/ Inspect \/ Check \/ ReplaceManifest \/ ReplaceBinary \/ Restart \/ Succeeds
  \/ GivesUp \/ Release

(* A process that runs goes on.                                               *)
UpdateFairness == \A p \in Proc : WF_updateVars(Lock(p) \/ Listen(p) \/ Exec(p))

UpdateSpec == UpdateInit /\ [][UpdateNext]_updateVars /\ UpdateFairness

-----------------------------------------------------------------------------
(* However an update ends, a next one repairs it: a manifest that is not the  *)
(* binary's is ahead of it, and so is the release that the next one installs. *)
TornIsRepaired ==
  disk.manifest \notin {disk.binary, NoVersion} =>
    disk.binary < disk.manifest /\ disk.manifest <= released

(* An update that reports success leaves no publisher of another version than *)
(* the one on disk, unless that process was executed before the update began, *)
(* and has been about to take run.lock ever since.                            *)
SuccessIsActive ==
  [][Succeeds => \A p \in Proc : proc[p].at \in {"locked", "up"} =>
       proc[p].version = disk.binary \/ p \in updater.early]_updateVars

(* A publisher that restarts is succeeded by one, itself or another, unless   *)
(* one is killed, or another update has taken run.lock in between.            *)
PublisherComesBack ==
  \A p \in Proc : proc[p].at = "leaving" ~>
    updater.locked \/ \E q \in Proc : proc[q].at \in {"up", "gone"}
=============================================================================
