---------------------------------- MODULE Join ----------------------------------
(* bee join (bee/internal/app/join.go, join_machine.go): from an invitation to *)
(* an entry in Herdr's machine list, in steps that a crash may separate.  The  *)
(* steps are those of one join, which join.lock makes the only one: a second   *)
(* one fails without effect.  A crash, a failed write and a returned error     *)
(* leave the same state, the files as they are and the lock free.  Other bee   *)
(* commands change the configuration in between.  The Hive (module Enrollment) *)
(* and Herdr's machine list are external.                                      *)
EXTENDS Integers, FiniteSets

CONSTANTS Hive,       \* addresses of Hives; each presents its own name as host key
          WrongKey,   \* a host key that no Hive presents
          Invitations, \* pairs of a Hive and the host key its invitation names
          Keys,       \* private keys that deviceKey may generate
          OwnKey,     \* the private key in the user's own identity file
          OwnHosts,   \* the user's own known_hosts, which names every Hive
          Manual,     \* a machine that the user added by hand
          ManualHive, \* the Hive it connects to, with the user's own files
          None        \* an unset field or a file that does not exist

Path == {"device_key", "own"}

(* hive-*.known_hosts is named after an address and a host key.               *)
KnownHosts == {OwnHosts} \cup (Hive \X (Hive \cup {WrongKey}))

ASSUME JoinConstants ==
  /\ Keys # {} /\ OwnKey \notin Keys
  /\ None \notin Keys \cup {OwnKey} \cup Hive \cup {WrongKey} \cup Path \cup KnownHosts
  /\ Invitations \subseteq Hive \X (Hive \cup {WrongKey})
  /\ ManualHive \in Hive /\ Manual \notin Hive \X Path

Connection == [hive : Hive \cup {None}, identity : Path \cup {None},
               known : KnownHosts \cup {None}]
NoConnection == [hive |-> None, identity |-> None, known |-> None]

(* A hash of the address and the identity's path.                             *)
machineTarget(c) == <<c.hive, c.identity>>
Target == (Hive \X Path) \cup {Manual}

VARIABLES file,      \* the private key at each path
          trust,     \* the known_hosts files that exist
          config,    \* config.json: the connection
          sharing,   \* config.json: whether anything is enabled or selected
          accepted,  \* the keys that each Hive has enrolled
          conf,      \* ssh-connections: the targets with a file
          index,     \* whether ssh_config, which includes them, exists
          included,  \* whether ~/.ssh/config includes that
          machines,  \* the targets in Herdr's machine list
          record,    \* joined.json
          join       \* where the join stands

keys     == <<file, trust>>
settings == <<config, sharing>>
ssh      == <<conf, index, included>>
joinVars == <<keys, settings, accepted, ssh, machines, record, join>>

NotJoining == [at |-> "no", current |-> NoConnection, sharing |-> FALSE,
               candidate |-> NoConnection, hostKey |-> None]

(* Type correctness.                                                          *)
JoinTypeOK ==
  /\ file \in [Path -> Keys \cup {OwnKey, None}]
  /\ trust \subseteq KnownHosts
  /\ config \in Connection /\ sharing \in BOOLEAN
  /\ accepted \in [Hive -> SUBSET (Keys \cup {OwnKey})]
  /\ conf \subseteq Target \ {Manual}
  /\ index \in BOOLEAN /\ included \in BOOLEAN
  /\ machines \subseteq Target
  /\ record \in [connection : Connection, target : Target \cup {None}]
  /\ join \in [at : {"no", "keyed", "trusting", "asking", "accepted", "saved", "conf", "index",
                      "include", "machine", "record"},
               current : Connection, sharing : BOOLEAN, candidate : Connection,
               hostKey : Hive \cup {WrongKey, None}]

JoinInit ==
  /\ file = [p \in Path |-> IF p = "own" THEN OwnKey ELSE None]
  /\ trust = {OwnHosts}
  /\ config = NoConnection /\ sharing = FALSE
  /\ accepted = [h \in Hive |-> {}]
  /\ conf = {} /\ index = FALSE /\ included = FALSE
  /\ machines \in {{}, {Manual}}
  /\ record = [connection |-> NoConnection, target |-> None]
  /\ join = NotJoining

Reaches(at) == join' = [join EXCEPT !.at = at]

-----------------------------------------------------------------------------
(* The invitation: of a Hive, with a host key that may be wrong.  What is     *)
(* shared must not go on with another Hive than the one it was meant for.     *)
Elsewhere(h) == config.hive \notin {None, h} /\ sharing

Invited(h, k) ==
  /\ join.at = "no"
  /\ ~Elsewhere(h)
  /\ join' = [at |-> "keyed", current |-> config, sharing |-> sharing,
              candidate |-> [config EXCEPT !.hive = h], hostKey |-> k]
  /\ UNCHANGED <<keys, settings, accepted, ssh, machines, record>>

(* Without an invitation the saved connection is resumed.                     *)
Resumed ==
  /\ join.at = "no"
  /\ None \notin {config.hive, config.identity, config.known}
  /\ join' = [NotJoining EXCEPT !.at = "saved", !.candidate = config]
  /\ UNCHANGED <<keys, settings, accepted, ssh, machines, record>>

(* A generated key is one that no Hive has seen.                              *)
FreshKey == CHOOSE k \in Keys : \A h \in Hive : k \notin accepted[h]

(* Faulty: every join generates a key.                                        *)
NewKeyEachTime ==
  /\ join.at = "keyed"
  /\ IF join.candidate.identity # None
     THEN UNCHANGED file /\ Reaches("trusting")
     ELSE /\ join' = [join EXCEPT !.at = "trusting", !.candidate.identity = "device_key"]
          /\ file' = [file EXCEPT !["device_key"] = FreshKey]
  /\ UNCHANGED <<trust, settings, accepted, ssh, machines, record>>

(* deviceKey: the key is on disk before anyone is told of it, and kept.       *)
deviceKey ==
  /\ join.at = "keyed"
  /\ IF join.candidate.identity # None
     THEN UNCHANGED file /\ Reaches("trusting")
     ELSE /\ join' = [join EXCEPT !.at = "trusting", !.candidate.identity = "device_key"]
          /\ IF file["device_key"] # None THEN UNCHANGED file
             ELSE file' = [file EXCEPT !["device_key"] = FreshKey]
  /\ UNCHANGED <<trust, settings, accepted, ssh, machines, record>>

(* Whether a known_hosts file vouches for host key k of Hive h.               *)
Vouches(known, h, k) == known \in trust /\ known \in {IF k = h THEN OwnHosts ELSE None, <<h, k>>}

(* A Hive that is configured already must have the host key it had.  Else the *)
(* invitation's key gets a file of its own, so that a wrong one is inert.     *)
TrustKey ==
  /\ join.at = "trusting"
  /\ LET h    == join.candidate.hive
         same == join.current.hive = h /\ join.current.known # None
         k    == IF same THEN join.current.known ELSE <<h, join.hostKey>>
     IN  /\ same => Vouches(k, h, join.hostKey)
         /\ trust' = trust \cup {k}
         /\ join' = [join EXCEPT !.at = "asking", !.candidate.known = k, !.hostKey = None]
  /\ UNCHANGED <<file, settings, accepted, ssh, machines, record>>

(* The Hive answers under its host key, to a device it knows.                 *)
Authentic(c) == Vouches(c.known, c.hive, c.hive)
Known(c) == Authentic(c) /\ file[c.identity] \in accepted[c.hive]

DirectoryAnswers ==
  /\ join.at = "asking"
  /\ Known(join.candidate)
  /\ Reaches("accepted")
  /\ UNCHANGED <<keys, settings, accepted, ssh, machines, record>>

(* The directory did not answer, and the token enrolls the device; the reply  *)
(* may be lost.                                                               *)
Enroll ==
  /\ join.at = "asking"
  /\ Authentic(join.candidate)
  /\ accepted' = [accepted EXCEPT ![join.candidate.hive] = @ \cup {file[join.candidate.identity]}]
  /\ Reaches("accepted") \/ join' = NotJoining
  /\ UNCHANGED <<keys, settings, ssh, machines, record>>

(* Faulty: what other commands have changed meanwhile is not looked at.       *)
NotCompared == TRUE

(* The connection is saved if the configuration is what it was.               *)
Unchanged == config = join.current /\ sharing = join.sharing

SaveConfig ==
  /\ join.at = "accepted"
  /\ Unchanged
  /\ config' = join.candidate
  /\ join' = [NotJoining EXCEPT !.at = "saved", !.candidate = join.candidate]
  /\ UNCHANGED <<keys, sharing, accepted, ssh, machines, record>>

(* The directory is asked (again) before anything is set up, and a running    *)
(* publisher told to load the configuration.                                  *)
Confirm ==
  /\ join.at = "saved"
  /\ Known(join.candidate)
  /\ Reaches("conf")
  /\ UNCHANGED <<keys, settings, accepted, ssh, machines, record>>

(* installSSH: the target's file, the file that includes all targets, and the *)
(* line in the user's own configuration, each replaced at once.               *)
WriteTarget ==
  /\ join.at = "conf"
  /\ conf' = conf \cup {machineTarget(join.candidate)}
  /\ Reaches("index")
  /\ UNCHANGED <<keys, settings, accepted, index, included, machines, record>>

WriteIndex ==
  /\ join.at = "index"
  /\ index' = TRUE
  /\ Reaches("include")
  /\ UNCHANGED <<keys, settings, accepted, conf, included, machines, record>>

WriteInclude ==
  /\ join.at = "include"
  /\ included' = TRUE
  /\ Reaches("machine")
  /\ UNCHANGED <<keys, settings, accepted, conf, index, machines, record>>

(* ensureMachine: the machine with the managed target, or one that ssh        *)
(* resolves to the same connection, is enabled; else it is added.             *)
sameSSH(t, c) ==
  t = Manual /\ c = [hive |-> ManualHive, identity |-> "own", known |-> OwnHosts]

Chosen(c) ==
  IF machineTarget(c) \notin machines /\ Manual \in machines /\ sameSSH(Manual, c)
  THEN Manual ELSE machineTarget(c)

ensureMachine ==
  /\ join.at = "machine"
  /\ machines' = machines \cup {Chosen(join.candidate)}
  /\ Reaches("record")
  /\ UNCHANGED <<keys, settings, accepted, ssh, record>>

WriteRecord ==
  /\ join.at = "record"
  /\ record' = [connection |-> join.candidate, target |-> Chosen(join.candidate)]
  /\ join' = NotJoining
  /\ UNCHANGED <<keys, settings, accepted, ssh, machines>>

(* An error at any step, or a crash.                                          *)
Stops ==
  /\ join.at # "no"
  /\ join' = NotJoining
  /\ UNCHANGED <<keys, settings, accepted, ssh, machines, record>>

-----------------------------------------------------------------------------
(* Other commands: configure, with the user's own files; share, enable,       *)
(* disable and unshare.                                                       *)
Configure ==
  /\ config' = [hive |-> ManualHive, identity |-> "own", known |-> OwnHosts]
  /\ UNCHANGED <<keys, sharing, accepted, ssh, machines, record, join>>

ShareOrNot ==
  /\ sharing' = ~sharing
  /\ UNCHANGED <<keys, config, accepted, ssh, machines, record, join>>

JoinStep ==
  \/ \E i \in Invitations : Invited(i[1], i[2])
  \/ Resumed \/ deviceKey \/ TrustKey \/ DirectoryAnswers \/ Enroll \/ SaveConfig \/ Confirm
  \/ WriteTarget \/ WriteIndex \/ WriteInclude \/ ensureMachine \/ WriteRecord \/ Stops

JoinNext ==
  \/ JoinStep
  \/ Configure
  \/ ShareOrNot

JoinSpec == JoinInit /\ [][JoinNext]_joinVars

-----------------------------------------------------------------------------
(* Whatever is interrupted and repeated, a device enrolls at a Hive with one  *)
(* generated key: the token's uses are not spent on keys that were lost.      *)
OneDeviceKey == \A h \in Hive : Cardinality(accepted[h] \ {OwnKey}) <= 1

(* A connection that joined.json calls complete works: its files are there,   *)
(* Herdr has its machine, and the Hive knows the key.                         *)
CompleteIsReal ==
  record.target # None =>
    LET c == record.connection IN
    /\ Known(c)
    /\ record.target \in machines
    /\ IF record.target = Manual THEN sameSSH(Manual, c)
       ELSE record.target = machineTarget(c) /\ record.target \in conf /\ index /\ included

(* A join that is repeated after any interruption resumes what it began.      *)
JoinsResume == OneDeviceKey /\ CompleteIsReal

(* A join never takes what is shared, or was meanwhile selected for sharing,  *)
(* to another Hive, and never saves a Hive that has not accepted the device   *)
(* under the host key that the saved known_hosts file vouches for.            *)
JoinsAreSafe ==
  [][JoinStep /\ config' # config =>
       /\ config.hive \notin {None, config'.hive} => ~sharing
       /\ Vouches(config'.known, config'.hive, config'.hive)
       /\ file[config'.identity] \in accepted[config'.hive]]_joinVars
=============================================================================
