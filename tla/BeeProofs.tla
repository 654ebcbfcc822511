------------------------------ MODULE BeeProofs ------------------------------
(* Bee: the commands that change what it keeps on disk, and may be stopped at  *)
(* any point (bee join, and bee update with the publishers it replaces), and   *)
(* the stream of a remote viewer.  They share no state, and are proved about   *)
(* one after the other.                                                        *)
EXTENDS Join, Update, SizeView, FiniteSetTheorems, TLAPS

(* For any Hives, keys and invitations, and any interruptions: what joins      *)
(* leave behind can be resumed, and they never take the configuration where it *)
(* must not go.  Both need an account of how far a join has come, which is     *)
(* JoinInv; nothing that it rests on is ever taken back: the files, the keys   *)
(* that Hives accept, and the machines only grow.                              *)

(* The connection is complete, and its key is on disk.                        *)
Whole(c) ==
  c.hive \in Hive /\ c.identity \in Path /\ c.known # None /\ file[c.identity] # None

Good(c) == Whole(c) /\ Known(c)

(* A key is kept once it is there, and nothing else is enrolled.              *)
KeysKept ==
  /\ file["own"] = OwnKey
  /\ file["device_key"] \in Keys \cup {None}
  /\ config.identity # None => file[config.identity] # None
  /\ \A h \in Hive : accepted[h] \subseteq {OwnKey, file["device_key"]}

Inviting == join.at \in {"keyed", "trusting", "asking", "accepted"}
Managed  == join.at \in {"conf", "index", "include", "machine", "record"}

Progress ==
  /\ Inviting => /\ join.candidate.hive \in Hive
                 /\ join.current.hive \notin {None, join.candidate.hive} => ~join.sharing
  /\ join.at = "keyed" /\ join.candidate.identity # None => file[join.candidate.identity] # None
  /\ join.at \in {"keyed", "trusting"} => join.hostKey # None
  /\ join.at \in {"trusting", "asking"} =>
       join.candidate.identity \in Path /\ file[join.candidate.identity] # None
  /\ join.at = "asking" => join.candidate.known # None
  /\ join.at = "saved" => Whole(join.candidate)
  /\ join.at = "accepted" \/ Managed => Good(join.candidate)

(* The files and the machine, in the order in which they are made.            *)
SetUp ==
  /\ join.at \in {"index", "include", "machine", "record"} =>
       machineTarget(join.candidate) \in conf
  /\ join.at \in {"include", "machine", "record"} => index
  /\ join.at \in {"machine", "record"} => included
  /\ join.at = "record" => Chosen(join.candidate) \in machines

Complete ==
  record.target # None => Good(record.connection) /\ CompleteIsReal

JoinInv == JoinTypeOK /\ KeysKept /\ Progress /\ SetUp /\ Complete

-----------------------------------------------------------------------------
(* What a step of a join never takes back.                                    *)
Grows ==
  /\ \A p \in Path : file[p] # None => file'[p] = file[p]
  /\ trust \subseteq trust'
  /\ \A h \in Hive : accepted[h] \subseteq accepted'[h]
  /\ conf \subseteq conf' /\ machines \subseteq machines'
  /\ index => index'
  /\ included => included'

LEMMA GoodStays ==
  ASSUME Grows, NEW c, Good(c)
  PROVE  Good(c)'
<1>1. file'[c.identity] = file[c.identity]
  BY DEF Grows, Good, Whole
<1>2. Authentic(c)'
  BY DEF Grows, Good, Known, Authentic, Vouches
<1>3. file[c.identity] \in accepted'[c.hive]
  BY DEF Grows, Good, Whole, Known
<1> QED
  BY <1>1, <1>2, <1>3 DEF Good, Whole, Known

LEMMA CompleteStays ==
  ASSUME Grows, Complete, UNCHANGED record
  PROVE  Complete'
<1> SUFFICES ASSUME record.target # None PROVE Good(record.connection)' /\ CompleteIsReal'
  BY DEF Complete
<1>1. Good(record.connection)'
  BY GoodStays DEF Complete
<1>2. CompleteIsReal'
  BY <1>1 DEF Complete, CompleteIsReal, Grows, Good, sameSSH, machineTarget
<1> QED
  BY <1>1, <1>2

LEMMA JoinInitInv == JoinInit => JoinInv
<1> SUFFICES ASSUME JoinInit PROVE JoinInv
  OBVIOUS
<1>1. JoinTypeOK
  BY JoinConstants DEF JoinInit, JoinTypeOK, NotJoining, NoConnection, Connection, Path,
     KnownHosts, Target
<1>2. KeysKept /\ Progress /\ SetUp /\ Complete
  BY DEF JoinInit, NotJoining, NoConnection, KeysKept, Inviting, Managed, Progress, SetUp,
     Complete, Path
<1> QED
  BY <1>1, <1>2 DEF JoinInv

-----------------------------------------------------------------------------
(* The invitation, up to the host key.                                        *)
LEMMA InvitedStep ==
  ASSUME JoinInv, NEW i \in Invitations, Invited(i[1], i[2])
  PROVE  JoinInv'
<1>1. i[1] \in Hive /\ i[2] \in Hive \cup {WrongKey}
  BY JoinConstants
<1>2. JoinTypeOK'
  BY <1>1 DEF Invited, JoinInv, JoinTypeOK, Connection, keys, settings, ssh
<1>3. /\ join'.at = "keyed" /\ join'.current = config /\ join'.sharing = sharing
      /\ join'.candidate.hive = i[1] /\ join'.candidate.identity = config.identity
      /\ join'.hostKey # None
  BY <1>1, JoinConstants DEF Invited, JoinInv, JoinTypeOK, Connection
<1>4. KeysKept' /\ SetUp'
  BY <1>3 DEF Invited, JoinInv, KeysKept, SetUp, keys, settings, ssh
<1>5. Progress'
  BY <1>1, <1>3 DEF Invited, JoinInv, KeysKept, Progress, Inviting, Managed, Elsewhere, keys,
     settings
<1>6. Complete'
  BY CompleteStays DEF Invited, JoinInv, Grows, keys, settings, ssh
<1> QED
  BY <1>2, <1>4, <1>5, <1>6 DEF JoinInv

LEMMA ResumedStep == JoinInv /\ Resumed => JoinInv'
<1> SUFFICES ASSUME JoinInv, Resumed PROVE JoinInv'
  OBVIOUS
<1>1. JoinTypeOK'
  BY DEF Resumed, JoinInv, JoinTypeOK, NotJoining, NoConnection, Connection, keys, settings, ssh
<1>2. join'.at = "saved" /\ join'.candidate = config
  BY DEF Resumed, NotJoining
<1>3. config.hive \in Hive /\ config.identity \in Path /\ config.known # None
  BY DEF Resumed, JoinInv, JoinTypeOK, Connection
<1>4. KeysKept' /\ SetUp'
  BY <1>2 DEF Resumed, JoinInv, KeysKept, SetUp, keys, settings, ssh
<1>5. Progress'
  BY <1>2, <1>3, JoinConstants DEF Resumed, JoinInv, KeysKept, Progress, Inviting, Managed,
     Whole, keys, settings
<1>6. Complete'
  BY CompleteStays DEF Resumed, JoinInv, Grows, keys, settings, ssh
<1> QED
  BY <1>1, <1>4, <1>5, <1>6 DEF JoinInv

LEMMA deviceKeyStep == JoinInv /\ deviceKey => JoinInv'
<1> SUFFICES ASSUME JoinInv, deviceKey PROVE JoinInv'
  OBVIOUS
<1> USE DEF JoinInv
<1>1. /\ UNCHANGED <<trust, config, sharing, accepted, conf, index, included, machines, record>>
      /\ join.at = "keyed"
  BY DEF deviceKey, settings, ssh
<1>2. /\ join' \in [at : {"trusting"}, current : Connection, sharing : BOOLEAN,
                    candidate : Connection, hostKey : Hive \cup {WrongKey, None}]
      /\ join'.current = join.current /\ join'.sharing = join.sharing
      /\ join'.hostKey = join.hostKey /\ join'.candidate.hive = join.candidate.hive
      /\ join'.candidate.identity =
           IF join.candidate.identity # None THEN join.candidate.identity ELSE "device_key"
  <2>1. join.candidate \in Connection
    BY DEF JoinTypeOK
  <2>2. CASE join.candidate.identity # None
    BY <1>1, <2>1, <2>2 DEF deviceKey, JoinTypeOK, Reaches
  <2>3. CASE join.candidate.identity = None
    <3>1. [join.candidate EXCEPT !.identity = "device_key"] \in Connection
      BY <2>1 DEF Connection, Path
    <3>2. join' = [join EXCEPT !.at = "trusting",
                     !.candidate = [join.candidate EXCEPT !.identity = "device_key"]]
      BY <2>3 DEF deviceKey, JoinTypeOK
    <3>3. /\ join'.candidate = [join.candidate EXCEPT !.identity = "device_key"]
          /\ join' \in [at : {"trusting"}, current : Connection, sharing : BOOLEAN,
                        candidate : Connection, hostKey : Hive \cup {WrongKey, None}]
          /\ join'.current = join.current /\ join'.sharing = join.sharing
          /\ join'.hostKey = join.hostKey
      BY <3>1, <3>2 DEF JoinTypeOK
    <3> QED
      BY <2>1, <2>3, <3>3 DEF Connection
  <2> QED
    BY <2>2, <2>3
<1>3. /\ file' \in [Path -> Keys \cup {OwnKey, None}]
      /\ file'["own"] = file["own"]
      /\ file["device_key"] # None => file'["device_key"] = file["device_key"]
      /\ file'["device_key"] \in Keys \cup {None}
      /\ join.candidate.identity = None => file'["device_key"] # None
  <2>1. file["device_key"] = None => \A h \in Hive : accepted[h] \cap Keys = {}
    BY JoinConstants DEF KeysKept, JoinTypeOK
  <2>2. file["device_key"] = None => FreshKey \in Keys
    BY <2>1, JoinConstants DEF FreshKey
  <2> QED
    BY <2>2, JoinConstants DEF deviceKey, JoinTypeOK, KeysKept, Path
<1>4. Grows
  BY <1>1, <1>3 DEF Grows, Path
<1>5. JoinTypeOK'
  BY <1>1, <1>2, <1>3 DEF JoinTypeOK
<1>6. KeysKept'
  <2>1. config.identity # None => file'[config.identity] # None
    BY <1>4 DEF KeysKept, JoinTypeOK, Connection, Grows
  <2>2. ASSUME NEW h \in Hive PROVE accepted[h] \subseteq {OwnKey, file'["device_key"]}
    <3>1. None \notin accepted[h]
      BY JoinConstants DEF JoinTypeOK
    <3> QED
      BY <1>3, <3>1 DEF KeysKept
  <2> QED
    BY <1>1, <1>3, <2>1, <2>2 DEF KeysKept
<1>7. Progress'
  <2>1. join.candidate.identity # None => file'[join.candidate.identity] # None
    BY <1>1, <1>4 DEF Progress, JoinTypeOK, Connection, Grows
  <2>2. join'.candidate.identity \in Path /\ file'[join'.candidate.identity] # None
    BY <1>2, <1>3, <2>1 DEF JoinTypeOK, Connection, Path
  <2> QED
    BY <1>1, <1>2, <2>2 DEF Progress, Inviting, Managed
<1>8. SetUp' /\ Complete'
  BY <1>1, <1>2, <1>4, CompleteStays DEF SetUp
<1> QED
  BY <1>5, <1>6, <1>7, <1>8

LEMMA TrustKeyStep == JoinInv /\ TrustKey => JoinInv'
<1> SUFFICES ASSUME JoinInv, TrustKey PROVE JoinInv'
  OBVIOUS
<1> USE DEF JoinInv
<1>1. /\ UNCHANGED <<file, config, sharing, accepted, conf, index, included, machines, record>>
      /\ join.at = "trusting"
  BY DEF TrustKey, settings, ssh
<1>2. PICK k \in KnownHosts \cup {None} :
        /\ k # None /\ trust' = trust \cup {k}
        /\ join' = [join EXCEPT !.at = "asking", !.candidate.known = k, !.hostKey = None]
  <2> DEFINE h    == join.candidate.hive
             same == join.current.hive = h /\ join.current.known # None
             k    == IF same THEN join.current.known ELSE <<h, join.hostKey>>
  <2>1. h \in Hive /\ join.hostKey \in Hive \cup {WrongKey}
    BY <1>1 DEF Progress, Inviting, JoinTypeOK
  <2>2. k \in KnownHosts \cup {None}
    BY <2>1 DEF JoinTypeOK, Connection, KnownHosts
  <2>3. /\ trust' = trust \cup {k}
        /\ join' = [join EXCEPT !.at = "asking", !.candidate.known = k, !.hostKey = None]
    BY DEF TrustKey
  <2>4. k # None
    BY <2>1, JoinConstants DEF KnownHosts
  <2> QED
    BY <2>2, <2>3, <2>4
<1>3. /\ join'.at = "asking" /\ join'.current = join.current /\ join'.sharing = join.sharing
      /\ join'.candidate.hive = join.candidate.hive
      /\ join'.candidate.identity = join.candidate.identity
      /\ join'.candidate.known = k
  BY <1>2 DEF JoinTypeOK, Connection
<1>4. JoinTypeOK'
  <2>1. join.candidate \in Connection
    BY DEF JoinTypeOK
  <2>2. [join.candidate EXCEPT !.known = k] \in Connection
    BY <1>2, <2>1 DEF Connection
  <2>3. join' = [join EXCEPT !.at = "asking",
                             !.candidate = [join.candidate EXCEPT !.known = k],
                             !.hostKey = None]
    BY <1>2 DEF JoinTypeOK
  <2>4. /\ join' \in [at : {"asking"}, current : Connection, sharing : BOOLEAN,
                      candidate : Connection, hostKey : Hive \cup {WrongKey, None}]
    BY <2>2, <2>3 DEF JoinTypeOK
  <2> QED
    BY <1>1, <1>2, <2>4 DEF JoinTypeOK
<1>5. KeysKept' /\ SetUp'
  BY <1>1, <1>3 DEF KeysKept, SetUp
<1>6. Progress'
  BY <1>1, <1>2, <1>3 DEF Progress, Inviting, Managed
<1>7. Complete'
  BY <1>1, <1>2, CompleteStays DEF Grows
<1> QED
  BY <1>4, <1>5, <1>6, <1>7

-----------------------------------------------------------------------------
(* The Hive's answers, and the configuration.                                 *)
LEMMA ReachesKeeps ==
  ASSUME JoinTypeOK, NEW at, Reaches(at)
  PROVE  /\ join'.at = at /\ join'.current = join.current /\ join'.sharing = join.sharing
         /\ join'.candidate = join.candidate /\ join'.hostKey = join.hostKey
         /\ join' \in [at : {at}, current : Connection, sharing : BOOLEAN,
                       candidate : Connection, hostKey : Hive \cup {WrongKey, None}]
BY DEF JoinTypeOK, Reaches

LEMMA DirectoryStep == JoinInv /\ (DirectoryAnswers \/ Confirm) => JoinInv'
<1> SUFFICES ASSUME JoinInv, DirectoryAnswers \/ Confirm PROVE JoinInv'
  OBVIOUS
<1> USE DEF JoinInv
<1>1. UNCHANGED <<keys, settings, accepted, ssh, machines, record>> /\ Known(join.candidate)
  BY DEF DirectoryAnswers, Confirm
<1>2. /\ join'.candidate = join.candidate /\ join'.current = join.current
      /\ join'.sharing = join.sharing
      /\ \/ join.at = "asking" /\ join'.at = "accepted"
         \/ join.at = "saved" /\ join'.at = "conf"
  BY ReachesKeeps DEF DirectoryAnswers, Confirm
<1>3. JoinTypeOK'
  BY <1>1, ReachesKeeps DEF DirectoryAnswers, Confirm, JoinTypeOK, keys, settings, ssh
<1>4. KeysKept' /\ SetUp'
  BY <1>1, <1>2 DEF KeysKept, SetUp, keys, settings, ssh
<1>5. Good(join.candidate)
  BY <1>1, <1>2 DEF Good, Whole, Progress, Inviting
<1>6. Grows /\ Complete'
  BY <1>1, CompleteStays DEF Grows, keys, ssh
<1>7. Progress'
  BY <1>2, <1>5, <1>6, GoodStays DEF Progress, Inviting, Managed
<1> QED
  BY <1>3, <1>4, <1>6, <1>7

LEMMA EnrollStep == JoinInv /\ Enroll => JoinInv'
<1> SUFFICES ASSUME JoinInv, Enroll PROVE JoinInv'
  OBVIOUS
<1> USE DEF JoinInv
<1> DEFINE h == join.candidate.hive
           k == file[join.candidate.identity]
<1>1. /\ UNCHANGED <<file, trust, config, sharing, conf, index, included, machines, record>>
      /\ join.at = "asking" /\ h \in Hive /\ join.candidate.identity \in Path /\ k # None
      /\ join.candidate.known # None
      /\ accepted' = [accepted EXCEPT ![h] = @ \cup {k}]
  BY DEF Enroll, keys, settings, ssh, Progress, Inviting
<1>2. k \in Keys \cup {OwnKey} /\ k \in {OwnKey, file["device_key"]}
  BY <1>1 DEF KeysKept, Path, JoinTypeOK
<1>3. /\ accepted' \in [Hive -> SUBSET (Keys \cup {OwnKey})]
      /\ k \in accepted'[h]
      /\ \A g \in Hive : accepted[g] \subseteq accepted'[g] /\ accepted'[g] \subseteq accepted[g] \cup {k}
  BY <1>1, <1>2 DEF JoinTypeOK
<1>4. JoinTypeOK'
  <2> DEFINE Joining == [at : {"accepted", "no"}, current : Connection, sharing : BOOLEAN,
                         candidate : Connection, hostKey : Hive \cup {WrongKey, None}]
  <2>1. NotJoining \in Joining
    BY DEF NotJoining, NoConnection, Connection
  <2>2. Reaches("accepted") => join' \in Joining
    BY ReachesKeeps
  <2>3. join' \in Joining
    BY <2>1, <2>2 DEF Enroll
  <2> QED
    BY <1>1, <1>3, <2>3 DEF JoinTypeOK
<1>5. KeysKept'
  BY <1>1, <1>2, <1>3 DEF KeysKept
<1>6. Grows /\ Complete'
  BY <1>1, <1>3, CompleteStays DEF Grows
<1>7. ASSUME NEW c, c = join.candidate PROVE Good(c)'
  BY <1>1, <1>3, <1>7 DEF Enroll, Good, Whole, Known, Authentic, Vouches
<1>8. Progress' /\ SetUp'
  <2>1. CASE join' = NotJoining
    BY <2>1 DEF NotJoining, Progress, Inviting, Managed, SetUp
  <2>2. CASE Reaches("accepted")
    BY <1>1, <1>7, <2>2, ReachesKeeps DEF Progress, Inviting, Managed, SetUp
  <2> QED
    BY <2>1, <2>2 DEF Enroll
<1> QED
  BY <1>4, <1>5, <1>6, <1>8

LEMMA SaveConfigStep == JoinInv /\ SaveConfig => JoinInv'
<1> SUFFICES ASSUME JoinInv, SaveConfig PROVE JoinInv'
  OBVIOUS
<1> USE DEF JoinInv
<1>1. /\ UNCHANGED <<file, trust, sharing, accepted, conf, index, included, machines, record>>
      /\ config' = join.candidate /\ join'.at = "saved" /\ join'.candidate = join.candidate
      /\ Good(join.candidate)
  BY DEF SaveConfig, NotJoining, Progress, keys, ssh
<1>2. JoinTypeOK'
  <2>1. join.candidate \in Connection
    BY DEF JoinTypeOK
  <2>2. join' = [NotJoining EXCEPT !.at = "saved", !.candidate = join.candidate]
    BY DEF SaveConfig
  <2>3. join' = [at |-> "saved", current |-> NoConnection, sharing |-> FALSE,
                 candidate |-> join.candidate, hostKey |-> None]
    BY <2>2 DEF NotJoining
  <2>4. NoConnection \in Connection
    BY DEF NoConnection, Connection
  <2> QED
    BY <1>1, <2>1, <2>3, <2>4 DEF JoinTypeOK
<1>3. KeysKept' /\ SetUp'
  BY <1>1 DEF KeysKept, SetUp, Good, Whole
<1>4. Progress'
  BY <1>1 DEF Progress, Inviting, Managed, Good, Whole
<1>5. Complete'
  BY <1>1, CompleteStays DEF Grows
<1> QED
  BY <1>2, <1>3, <1>4, <1>5

-----------------------------------------------------------------------------
(* The machine.                                                               *)
LEMMA SetUpStep ==
  JoinInv /\ (WriteTarget \/ WriteIndex \/ WriteInclude \/ ensureMachine) => JoinInv'
<1> SUFFICES ASSUME JoinInv, WriteTarget \/ WriteIndex \/ WriteInclude \/ ensureMachine
             PROVE  JoinInv'
  OBVIOUS
<1> USE DEF JoinInv
<1>1. /\ UNCHANGED <<keys, settings, accepted, record>>
      /\ Managed /\ Good(join.candidate)
  BY DEF WriteTarget, WriteIndex, WriteInclude, ensureMachine, Managed, Progress
<1>2. Managed' /\ join'.candidate = join.candidate
  BY ReachesKeeps DEF WriteTarget, WriteIndex, WriteInclude, ensureMachine, Managed
<1>3. machineTarget(join.candidate) \in Target \ {Manual} /\ Chosen(join.candidate) \in Target
  BY <1>1, JoinConstants DEF Good, Whole, machineTarget, Chosen, Target, JoinTypeOK
<1>4. JoinTypeOK'
  <2>1. join' \in [at : {"index", "include", "machine", "record"}, current : Connection,
                   sharing : BOOLEAN, candidate : Connection,
                   hostKey : Hive \cup {WrongKey, None}]
    BY ReachesKeeps DEF WriteTarget, WriteIndex, WriteInclude, ensureMachine
  <2>2. /\ conf' \subseteq Target \ {Manual} /\ machines' \subseteq Target
        /\ index' \in BOOLEAN /\ included' \in BOOLEAN
    BY <1>3 DEF WriteTarget, WriteIndex, WriteInclude, ensureMachine, JoinTypeOK, ssh
  <2> QED
    BY <1>1, <2>1, <2>2 DEF JoinTypeOK, keys, settings
<1>5. Grows /\ Complete'
  BY <1>1, CompleteStays DEF Grows, keys, ssh, WriteTarget, WriteIndex, WriteInclude,
     ensureMachine
<1>6. KeysKept' /\ Progress'
  BY <1>1, <1>2, <1>5, GoodStays DEF KeysKept, Progress, Inviting, Managed, keys, settings
<1>7. SetUp'
  <2>1. CASE WriteTarget
    BY <2>1, ReachesKeeps DEF WriteTarget, SetUp
  <2>2. CASE WriteIndex
    BY <2>2, ReachesKeeps DEF WriteIndex, SetUp
  <2>3. CASE WriteInclude
    BY <2>3, ReachesKeeps DEF WriteInclude, SetUp
  <2>4. CASE ensureMachine
    <3>1. join'.at = "record" /\ UNCHANGED <<conf, index, included>>
      BY <2>4, ReachesKeeps DEF ensureMachine, ssh
    <3>2. join.at = "machine" /\ machines' = machines \cup {Chosen(join.candidate)}
      BY <2>4 DEF ensureMachine
    <3>3. Chosen(join.candidate)' = Chosen(join.candidate)
      BY <1>2, <3>2 DEF Chosen, sameSSH, machineTarget
    <3> QED
      BY <1>2, <3>1, <3>2, <3>3 DEF SetUp
  <2> QED
    BY <2>1, <2>2, <2>3, <2>4
<1> QED
  BY <1>4, <1>5, <1>6, <1>7

LEMMA RecordStep == JoinInv /\ WriteRecord => JoinInv'
<1> SUFFICES ASSUME JoinInv, WriteRecord PROVE JoinInv'
  OBVIOUS
<1> USE DEF JoinInv
<1> DEFINE c == join.candidate
<1>1. /\ UNCHANGED <<keys, settings, accepted, ssh, machines>>
      /\ record' = [connection |-> c, target |-> Chosen(c)] /\ join' = NotJoining
      /\ join.at = "record" /\ Good(c)
  BY DEF WriteRecord, Progress, Managed
<1>2. Chosen(c) \in Target /\ c \in Connection
  BY <1>1 DEF Good, Whole, machineTarget, Chosen, Target, JoinTypeOK
<1>3. JoinTypeOK'
  BY <1>1, <1>2 DEF JoinTypeOK, NotJoining, NoConnection, Connection, keys, settings, ssh
<1>4. KeysKept' /\ Progress' /\ SetUp'
  BY <1>1 DEF KeysKept, Progress, Inviting, Managed, SetUp, NotJoining, keys, settings, ssh
<1>5. Grows
  BY <1>1 DEF Grows, keys, ssh
<1>6. Good(record.connection)'
  <2>1. Good(record'.connection)
    BY <1>1
  <2>2. ASSUME NEW d, Good(d) PROVE Good(d)'
    BY <1>5, <2>2, GoodStays
  <2>3. PICK d : d = record'.connection
    OBVIOUS
  <2>4. Good(d)'
    BY <2>1, <2>2, <2>3
  <2> QED
    BY <2>3, <2>4 DEF Good, Whole, Known, Authentic, Vouches
<1>7. machineTarget(c) # Manual
  BY <1>1, JoinConstants DEF Good, Whole, machineTarget
<1>8. CompleteIsReal'
  <2> SUFFICES /\ Known(record.connection)'
               /\ Chosen(c) \in machines
               /\ IF Chosen(c) = Manual THEN sameSSH(Manual, c)
                  ELSE Chosen(c) = machineTarget(c) /\ machineTarget(c) \in conf
                         /\ index /\ included
    BY <1>1 DEF CompleteIsReal, sameSSH, machineTarget, ssh
  <2>1. Known(record.connection)'
    BY <1>6 DEF Good
  <2> QED
    BY <1>1, <1>7, <2>1 DEF SetUp, Chosen
<1>9. Complete'
  BY <1>6, <1>8 DEF Complete
<1> QED
  BY <1>3, <1>4, <1>9

(* The join ends early, or another command changes the configuration.         *)
LEMMA OtherJoinStep == JoinInv /\ (Stops \/ Configure \/ ShareOrNot) => JoinInv'
<1> SUFFICES ASSUME JoinInv, Stops \/ Configure \/ ShareOrNot PROVE JoinInv'
  OBVIOUS
<1> USE DEF JoinInv
<1>1. UNCHANGED <<keys, accepted, ssh, machines, record>>
  BY DEF Stops, Configure, ShareOrNot
<1>2. JoinTypeOK'
  <2>1. CASE Stops
    BY <1>1, <2>1 DEF Stops, JoinTypeOK, NotJoining, NoConnection, Connection, keys, settings,
       ssh
  <2>2. CASE Configure
    <3>1. [hive |-> ManualHive, identity |-> "own", known |-> OwnHosts] \in Connection
      BY JoinConstants DEF Connection, KnownHosts, Path
    <3> QED
      BY <1>1, <2>2, <3>1 DEF Configure, JoinTypeOK, keys, ssh
  <2>3. CASE ShareOrNot
    BY <1>1, <2>3 DEF ShareOrNot, JoinTypeOK, keys, ssh
  <2> QED
    BY <2>1, <2>2, <2>3
<1>3. KeysKept'
  BY <1>1, JoinConstants DEF Stops, Configure, ShareOrNot, KeysKept, keys, settings
<1>4. Progress' /\ SetUp'
  <2>1. CASE Stops
    BY <2>1 DEF Stops, NotJoining, Progress, Inviting, Managed, SetUp
  <2>2. CASE UNCHANGED join
    BY <1>1, <2>2 DEF Progress, Inviting, Managed, Good, Whole, Known, Authentic, Vouches,
       SetUp, Chosen, sameSSH, machineTarget, keys, ssh
  <2> QED
    BY <2>1, <2>2 DEF Configure, ShareOrNot
<1>5. Complete'
  BY <1>1, CompleteStays DEF Grows, keys, ssh
<1> QED
  BY <1>2, <1>3, <1>4, <1>5

LEMMA JoinStepInv == JoinInv /\ [JoinNext]_joinVars => JoinInv'
<1> SUFFICES ASSUME JoinInv, [JoinNext]_joinVars PROVE JoinInv'
  OBVIOUS
<1>1. CASE UNCHANGED joinVars
  BY <1>1 DEF joinVars, keys, settings, ssh, JoinInv, JoinTypeOK, KeysKept, Progress,
     Inviting, Managed, SetUp, Complete, CompleteIsReal, Good, Whole, Known, Authentic, Vouches,
     Chosen, sameSSH, machineTarget
<1>2. CASE JoinNext
  BY <1>2, InvitedStep, ResumedStep, deviceKeyStep, TrustKeyStep, DirectoryStep, EnrollStep,
     SaveConfigStep, SetUpStep, RecordStep, OtherJoinStep DEF JoinNext, JoinStep
<1> QED
  BY <1>1, <1>2

-----------------------------------------------------------------------------
(* A join repeated after any interruption resumes what it began: the device   *)
(* has one generated key (deviceKey), and what joined.json calls complete is. *)
THEOREM JoinsAlwaysResume == JoinSpec => []JoinsResume
<1>1. ASSUME JoinInv, NEW h \in Hive
      PROVE  Cardinality(accepted[h] \ {OwnKey}) <= 1
  <2>1. \/ accepted[h] \ {OwnKey} = {}
        \/ accepted[h] \ {OwnKey} = {file["device_key"]}
    BY <1>1 DEF JoinInv, KeysKept
  <2>2. Cardinality({}) = 0 /\ Cardinality({file["device_key"]}) = 1
    BY FS_EmptySet, FS_Singleton
  <2> QED
    BY <2>1, <2>2
<1>2. JoinInv => JoinsResume
  BY <1>1 DEF JoinInv, Complete, JoinsResume, OneDeviceKey, CompleteIsReal
<1> QED
  BY JoinInitInv, JoinStepInv, <1>2, PTL DEF JoinSpec

(* A join saves a connection only to a Hive that has accepted the device, and *)
(* leaves another Hive only when nothing is shared (Elsewhere and Unchanged). *)
THEOREM JoinsAlwaysSafe == JoinSpec => JoinsAreSafe
<1>1. ASSUME JoinInv, JoinStep, config' # config
      PROVE  /\ config.hive \notin {None, config'.hive} => ~sharing
             /\ Vouches(config'.known, config'.hive, config'.hive)
             /\ file[config'.identity] \in accepted[config'.hive]
  <2>1. SaveConfig
    BY <1>1 DEF JoinStep, Invited, Resumed, deviceKey, TrustKey, DirectoryAnswers, Enroll,
       Confirm, WriteTarget, WriteIndex, WriteInclude, ensureMachine, WriteRecord, Stops,
       settings
  <2>2. join.at = "accepted" /\ config' = join.candidate /\ Good(join.candidate)
    BY <1>1, <2>1 DEF SaveConfig, JoinInv, Progress
  <2>3. config.hive \notin {None, config'.hive} => ~sharing
    BY <1>1, <2>1, <2>2 DEF SaveConfig, Unchanged, JoinInv, Progress, Inviting
  <2> QED
    BY <2>2, <2>3 DEF Good, Known, Authentic
<1> QED
  BY JoinInitInv, JoinStepInv, <1>1, PTL DEF JoinSpec, JoinsAreSafe

-------------------------------------------------------------------------------
(* For any number of processes and releases, an interrupted update is repaired *)
(* by the next, and one that reports success leaves no old publisher.  Neither *)
(* is inductive: run.lock is why there is one publisher to look at, and what   *)
(* the updater remembers must be related to what has been executed since.      *)

Holding(p)   == proc[p].at \in {"locked", "up", "leaving"}
Executing(p) == proc[p].at \in {"loaded", "locked", "up", "leaving"}

OneLock ==
  /\ \A p, q \in Proc : Holding(p) /\ Holding(q) => p = q
  /\ updater.locked => \A p \in Proc : ~Holding(p)

(* Nothing executes what is not installed yet.                                *)
Executed == \A p \in Proc : proc[p].version <= disk.binary

(* What the updater has yet to replace, and has replaced.                     *)
Replaces ==
  /\ updater.at \in {"staged", "replacing"} =>
       disk.binary < updater.result /\ updater.result <= released
  /\ updater.at = "replacing" => disk.manifest \in {NoVersion, updater.result}
  /\ updater.at \in {"installed", "polling"} => updater.result = disk.binary

(* Without a publisher the updater has run.lock.  With one, what has been      *)
(* executed since it looked is no older than that publisher.                   *)
Remembers ==
  /\ updater.at \in {"no", "open"} => updater.before = NoVersion
  /\ updater.at \notin {"no", "open"} /\ updater.before = NoVersion => updater.locked
  /\ updater.at \notin {"no", "open"} /\ updater.before # NoVersion =>
       /\ updater.before <= disk.binary
       /\ \A p \in Proc : Executing(p) /\ p \notin updater.early
                            => updater.before <= proc[p].version

UpdateInv ==
  UpdateTypeOK /\ OneLock /\ Executed /\ Replaces /\ Remembers /\ TornIsRepaired

USE DEF Version

LEMMA UpdateInitInv == UpdateInit => UpdateInv
  BY UpdateConstants DEF UpdateInit, UpdateInv, UpdateTypeOK, OneLock, Holding, Executed,
     Replaces, Remembers, TornIsRepaired, NotUpdating

(* The steps of the processes leave the updater and the disk alone.           *)
LEMMA ProcessStep ==
  ASSUME UpdateInv, NEW p \in Proc,
         Spawn(p) \/ Lock(p) \/ Listen(p) \/ Exec(p) \/ Leave(p)
  PROVE  UpdateInv'
<1>1. UNCHANGED <<disk, released, updater>>
  BY DEF Spawn, Lock, Listen, Exec, Leave
<1>2. PICK at \in {"off", "gone", "loaded", "locked", "up", "leaving"}, v \in Version :
        proc' = [proc EXCEPT ![p] = [at |-> at, version |-> v]]
  BY DEF Spawn, Lock, Listen, Exec, Leave, UpdateInv, UpdateTypeOK
<1>3. UpdateTypeOK'
  BY <1>1, <1>2 DEF UpdateInv, UpdateTypeOK
<1>4. OneLock'
  BY <1>1 DEF Spawn, Lock, Listen, Exec, Leave, UpdateInv, UpdateTypeOK, OneLock, Holding,
     RunLocked
<1>5. Executed'
  BY <1>1, UpdateConstants DEF Spawn, Lock, Listen, Exec, Leave, UpdateInv, UpdateTypeOK,
     Executed
<1>6. Remembers'
  BY <1>1, UpdateConstants DEF Spawn, Lock, Listen, Exec, Leave, UpdateInv, UpdateTypeOK,
     Remembers, Executing
<1>7. Replaces' /\ TornIsRepaired'
  BY <1>1 DEF UpdateInv, Replaces, TornIsRepaired
<1> QED
  BY <1>3, <1>4, <1>5, <1>6, <1>7 DEF UpdateInv

LEMMA InspectStep == UpdateInv /\ Inspect => UpdateInv'
<1> SUFFICES ASSUME UpdateInv, Inspect PROVE UpdateInv'
  OBVIOUS
<1> USE DEF UpdateInv
<1>1. UNCHANGED <<disk, released, proc>> /\ updater.at = "open" /\ updater.before = NoVersion
  BY DEF Inspect, Remembers
<1>2. CASE ~RunLocked /\ updater' = [updater EXCEPT !.locked = TRUE, !.at = "inspected"]
  <2>1. UpdateTypeOK'
    BY <1>1, <1>2 DEF UpdateTypeOK
  <2>2. updater'.at = "inspected" /\ updater'.before = NoVersion /\ updater'.locked
    BY <1>1, <1>2 DEF UpdateTypeOK
  <2>3. OneLock'
    BY <1>1, <1>2, <2>2 DEF OneLock, Holding, RunLocked
  <2>4. Executed' /\ Replaces' /\ Remembers' /\ TornIsRepaired'
    BY <1>1, <2>2 DEF Executed, Replaces, Remembers, TornIsRepaired
  <2> QED
    BY <2>1, <2>3, <2>4
<1>3. ASSUME NEW p \in Proc, Publisher(p),
             updater' = [updater EXCEPT !.before = proc[p].version, !.at = "inspected",
                           !.early = {q \in Proc : proc[q].at = "loaded"}]
      PROVE  UpdateInv'
  <2>1. proc[p].version \in Version /\ proc[p].version # NoVersion
    BY UpdateConstants DEF UpdateTypeOK
  <2>2. /\ updater'.at = "inspected" /\ updater'.before = proc[p].version
        /\ updater'.locked = updater.locked /\ updater'.result = updater.result
        /\ updater'.early = {q \in Proc : proc[q].at = "loaded"}
    BY <1>3 DEF UpdateTypeOK
  <2>3. UpdateTypeOK'
    BY <1>1, <1>3, <2>1 DEF UpdateTypeOK
  <2>4. OneLock'
    BY <1>1, <2>2 DEF OneLock, Holding
  <2>5. Remembers'
    <3>1. ASSUME NEW q \in Proc, Executing(q), q \notin updater'.early
          PROVE  q = p
      BY <1>3, <2>2, <3>1 DEF Executing, Publisher, OneLock, Holding
    <3>2. proc[p].version <= proc[p].version /\ proc[p].version <= disk.binary
      BY <2>1 DEF Executed
    <3> QED
      BY <1>1, <2>1, <2>2, <3>1, <3>2 DEF Remembers, Executing
  <2>6. Executed' /\ Replaces' /\ TornIsRepaired'
    BY <1>1, <2>2 DEF Executed, Replaces, TornIsRepaired
  <2> QED
    BY <2>3, <2>4, <2>5, <2>6
<1> QED
  BY <1>2, <1>3 DEF Inspect

(* Check and the two renames.                                                 *)
LEMMA InstallStep == UpdateInv /\ (Check \/ ReplaceManifest \/ ReplaceBinary) => UpdateInv'
<1> SUFFICES ASSUME UpdateInv, Check \/ ReplaceManifest \/ ReplaceBinary PROVE UpdateInv'
  OBVIOUS
<1>1. CASE Check
  <2>1. /\ UNCHANGED <<disk, released, proc>>
        /\ updater.at = "inspected"
        /\ updater'.before = updater.before /\ updater'.locked = updater.locked
        /\ updater'.early = updater.early
    BY <1>1 DEF Check, UpdateInv, UpdateTypeOK
  <2>2. \/ /\ updater'.at = "staged" /\ updater'.result = released
           /\ disk.binary < released
        \/ updater'.at = "installed" /\ updater'.result = disk.binary
    BY <1>1 DEF Check, UpdateInv, UpdateTypeOK
  <2>3. UpdateTypeOK'
    BY <1>1 DEF Check, UpdateInv, UpdateTypeOK
  <2>4. Replaces'
    BY <2>1, <2>2 DEF UpdateInv, UpdateTypeOK, Replaces
  <2>5. Remembers'
    BY <2>1, <2>2 DEF UpdateInv, Remembers, Executing
  <2>6. OneLock' /\ Executed' /\ TornIsRepaired'
    BY <2>1 DEF UpdateInv, OneLock, Holding, Executed, TornIsRepaired
  <2> QED
    BY <2>3, <2>4, <2>5, <2>6 DEF UpdateInv
<1>2. CASE ReplaceManifest
  BY <1>2, UpdateConstants DEF ReplaceManifest, UpdateInv, UpdateTypeOK, OneLock, Holding,
     Executed, Replaces, Remembers, Executing, TornIsRepaired
<1>3. CASE ReplaceBinary
  BY <1>3, UpdateConstants DEF ReplaceBinary, UpdateInv, UpdateTypeOK, OneLock, Holding,
     Executed, Replaces, Remembers, Executing, TornIsRepaired
<1> QED
  BY <1>1, <1>2, <1>3

LEMMA RestartStep == UpdateInv /\ Restart => UpdateInv'
<1> SUFFICES ASSUME UpdateInv, Restart PROVE UpdateInv'
  OBVIOUS
<1>1. PICK p \in Proc : Publisher(p) /\ proc' = [proc EXCEPT ![p].at = "leaving"]
  BY DEF Restart
<1>2. UpdateTypeOK'
  BY <1>1 DEF Restart, UpdateInv, UpdateTypeOK
<1>3. OneLock'
  BY <1>1 DEF Restart, UpdateInv, UpdateTypeOK, OneLock, Holding, Publisher
<1>4. Executed' /\ Remembers'
  BY <1>1 DEF Restart, UpdateInv, UpdateTypeOK, Executed, Remembers, Executing, Publisher
<1>5. Replaces' /\ TornIsRepaired'
  BY DEF Restart, UpdateInv, UpdateTypeOK, Replaces, TornIsRepaired
<1> QED
  BY <1>2, <1>3, <1>4, <1>5 DEF UpdateInv

(* The updater begins or ends, and releases appear.                           *)
LEMMA OtherStep == UpdateInv /\ (Open \/ Succeeds \/ GivesUp \/ Release) => UpdateInv'
<1> SUFFICES ASSUME UpdateInv, Open \/ Succeeds \/ GivesUp \/ Release PROVE UpdateInv'
  OBVIOUS
<1>1. CASE Open
  BY <1>1 DEF Open, UpdateInv, UpdateTypeOK, OneLock, Holding, Executed, Replaces, Remembers,
     TornIsRepaired
<1>2. CASE Succeeds \/ GivesUp
  <2>1. UNCHANGED <<disk, released, proc>> /\ updater' = NotUpdating
    BY <1>2 DEF Succeeds, GivesUp
  <2>2. UpdateTypeOK'
    BY <2>1, UpdateConstants DEF UpdateInv, UpdateTypeOK, NotUpdating
  <2>3. OneLock' /\ Executed' /\ Replaces' /\ Remembers' /\ TornIsRepaired'
    BY <2>1 DEF UpdateInv, OneLock, Holding, Executed, Replaces, Remembers, TornIsRepaired,
       NotUpdating
  <2> QED
    BY <2>2, <2>3 DEF UpdateInv
<1>3. CASE Release
  BY <1>3, UpdateConstants DEF Release, UpdateInv, UpdateTypeOK, OneLock, Holding, Executed,
     Replaces, Remembers, Executing, TornIsRepaired
<1> QED
  BY <1>1, <1>2, <1>3

LEMMA UpdateStepInv == UpdateInv /\ [UpdateNext]_updateVars => UpdateInv'
<1> SUFFICES ASSUME UpdateInv, [UpdateNext]_updateVars PROVE UpdateInv'
  OBVIOUS
<1>1. CASE UNCHANGED updateVars
  BY <1>1 DEF updateVars, UpdateInv, UpdateTypeOK, OneLock, Holding, Executed, Replaces,
     Remembers, Executing, TornIsRepaired
<1>2. CASE UpdateNext
  BY <1>2, ProcessStep, InspectStep, InstallStep, RestartStep, OtherStep DEF UpdateNext
<1> QED
  BY <1>1, <1>2

(* When the command succeeds, the publisher is of the version on disk: it is  *)
(* the one whose status says so, or the one that was there from the start, or *)
(* there is none, for the updater has run.lock.                               *)
LEMMA SuccessStep ==
  ASSUME UpdateInv, Succeeds, NEW p \in Proc, proc[p].at \in {"locked", "up"}
  PROVE  proc[p].version = disk.binary \/ p \in updater.early
<1>1. CASE updater.at = "polling"
  BY <1>1 DEF Succeeds, Publisher, UpdateInv, OneLock, Holding, Replaces
<1>2. CASE updater.at = "installed" /\ ~MustRestart /\ updater.before = NoVersion
  BY <1>2 DEF UpdateInv, OneLock, Holding, Remembers
<1>3. CASE updater.at = "installed" /\ ~MustRestart /\ updater.before # NoVersion
  BY <1>3, UpdateConstants DEF MustRestart, UpdateInv, UpdateTypeOK, Executed, Replaces,
     Remembers, Executing
<1> QED
  BY <1>1, <1>2, <1>3 DEF Succeeds

(* The next update repairs whatever an interrupted one has left: a manifest   *)
(* that the two renames of Install have put ahead of its binary.              *)
THEOREM TornAlwaysRepaired == UpdateSpec => []TornIsRepaired
<1>1. UpdateInv => TornIsRepaired
  BY DEF UpdateInv
<1> QED
  BY UpdateInitInv, UpdateStepInv, <1>1, PTL DEF UpdateSpec

(* bee update reports success only when no publisher of another version runs. *)
THEOREM SuccessAlwaysActive == UpdateSpec => SuccessIsActive
<1>1. UpdateInv /\ [UpdateNext]_updateVars =>
        [Succeeds => \A p \in Proc : proc[p].at \in {"locked", "up"} =>
           proc[p].version = disk.binary \/ p \in updater.early]_updateVars
  BY SuccessStep
<1> QED
  BY UpdateInitInv, UpdateStepInv, <1>1, PTL DEF UpdateSpec, SuccessIsActive

-----------------------------------------------------------------------------
(***************************************************************************)
(* The stream of a viewer.  What the native shell shows is pinned, and it  *)
(* is shown exactly if the viewer wants it.  Neither follows from a state  *)
(* without what is under way: PinsInv says, for each request, answer and   *)
(* snapshot in the two streams, what Bee will still have pinned when it    *)
(* arrives.                                                                *)
(***************************************************************************)

Layout == [Place -> Tab \cup {NoTab}]

(* What the native shell sends.                                               *)
Report ==
  [kind : {"answer"}, from : {"activate"}, ok : BOOLEAN]
    \cup [kind : {"answer"}, from : {"viewer", "barrier"}, id : Request, ok : BOOLEAN,
          revision : Revision]
    \cup [kind : {"snapshot"}, tab : Tab, where : Layout, revision : Revision]

Shows(m)     == m.op = "set" /\ m.active
Reply(m)     == m.kind = "answer" /\ m.from = "viewer"
Projected(m) == m.kind = "answer" /\ m.from = "barrier"
Shot(m)      == m.kind = "snapshot"

(* Types, and what Bee itself asks for.                                       *)
Shape ==
  /\ view \in [at : {"new", "hello", "ready", "over"}, active : BOOLEAN,
               requestedActive : BOOLEAN, tab : Tab, where : Layout, revision : {0} \cup Revision,
               sequence : 0 .. MaxRequests, activity : 0 .. MaxRequests]
  /\ native \in [active : BOOLEAN, tab : Tab, where : Layouts, revision : Revision,
                 sent : {0} \cup Revision, by : Request \cup {0, -1}, since : Revision,
                 moves : 0 .. MaxMoves, refused : BOOLEAN]
  /\ pending \subseteq Navigation
  /\ hide \subseteq [id : Request, activity : Request]
  /\ up \in Seq(Message) /\ down \in Seq(Report)
  /\ requests \in 0 .. MaxRequests /\ lost \subseteq Request
  /\ \A i \in DOMAIN up : /\ up[i].op = "focus" => up[i].from = "viewer"
                          /\ up[i].from # "viewer" => up[i].active

(* Until the first snapshot nothing is asked of the native shell.             *)
Before ==
  /\ view.at \in {"new", "hello"} =>
       /\ up = <<>> /\ pending = {} /\ hide = {}
       /\ ~native.active /\ view.revision = 0 /\ view.active = view.requestedActive
  /\ view.at = "new" => down = <<>>
  /\ view.at = "ready" => view.revision > 0

(* The requests of the viewer are taken in order, up to c so far.             *)
TakenTo(c) ==
  /\ native.revision <= 1 + native.moves + c
  /\ \A i \in DOMAIN up : up[i].from = "viewer" => c < up[i].id /\ up[i].id <= requests
  /\ \A i \in DOMAIN down : Reply(down[i]) => down[i].id <= c

InOrder ==
  /\ \E c \in 0 .. requests : TakenTo(c)
  /\ \A i, j \in DOMAIN up :
       i < j /\ up[i].from = "viewer" /\ up[j].from = "viewer" => up[i].id < up[j].id
  /\ \A i, j \in DOMAIN down :
       i < j /\ Reply(down[i]) /\ Reply(down[j]) => down[i].id < down[j].id

(* pending and hide are tables: no ID and no sequence number is used twice.   *)
Distinct == \A m, n \in pending : m.id = n.id \/ m.seq = n.seq => m = n

Tables ==
  /\ Distinct
  /\ \A n \in pending : n.id <= requests /\ n.seq <= view.sequence
  /\ \A h \in hide : h.id <= requests /\ h.activity <= view.activity
  /\ \A n \in pending, h \in hide : n.id # h.id
  /\ view.sequence <= requests /\ view.activity <= requests

(* A hide that nothing has overtaken is the last that is asked for, and once  *)
(* it has been done the native shell stays hidden.                            *)
Unseen == ~native.active /\ \A i \in DOMAIN up : ~Shows(up[i])

HidesLast(h) ==
  /\ ~view.requestedActive
  /\ \A i \in DOMAIN up : up[i].from = "viewer" /\ up[i].id = h.id =>
       /\ ~Shows(up[i])
       /\ \A j \in DOMAIN up : j > i => ~Shows(up[j])
       /\ up[i].op = "set"
  /\ (\E k \in DOMAIN down : Reply(down[k]) /\ down[k].id = h.id /\ down[k].ok) => Unseen

Hiding == \A h \in hide : h.activity = view.activity => HidesLast(h)

(* The native shell shows, or will show, only what Bee pins.                  *)
Visible ==
  /\ Unseen \/ (view.active /\ view.revision > 0)
  /\ view.requestedActive => view.active

(* The last that the native shell has or will have been told.                 *)
ToldLast(a) ==
  \/ native.active = a /\ \A i \in DOMAIN up : up[i].op # "set"
  \/ \E i \in DOMAIN up : /\ up[i].op = "set" /\ up[i].active = a
                          /\ \A j \in DOMAIN up : j > i => up[j].op # "set"

Told == view.at = "ready" /\ ~native.refused => ToldLast(view.requestedActive)

(* Every snapshot is one that the native shell has sent.                      *)
Real(tab, where, revision) ==
  /\ revision <= native.revision
  /\ revision = native.revision => where = native.where
  /\ revision >= native.since => tab = native.tab

Projections ==
  /\ Real(view.tab, view.where, view.revision)
  /\ \A i \in DOMAIN down : Shot(down[i]) => Real(down[i].tab, down[i].where, down[i].revision)
  /\ native.since <= native.revision
  /\ native.by = 0 => native.since = 1

(* A barrier follows the acknowledgement of its navigation.                   *)
Acked(seq) == seq <= view.sequence /\ \A n \in pending : n.seq = seq => n.ack

Barriers ==
  /\ \A i \in DOMAIN up : up[i].from = "barrier" => Acked(up[i].id)
  /\ \A i \in DOMAIN down : Projected(down[i]) => Acked(down[i].id)

(* A navigation is answered once.                                             *)
Unacked(id) == \A n \in pending : n.id = id => ~n.ack

Once ==
  /\ \A i \in DOMAIN up : up[i].from = "viewer" => Unacked(up[i].id)
  /\ \A i \in DOMAIN down : Reply(down[i]) => Unacked(down[i].id)

(* A navigation is pinned until the native shell takes it.                    *)
StillPinned(m) ==
  \/ m.id \in lost
  \/ \E n \in pending : n.id = m.id /\ n.tab = m.tab /\ ~n.ack /\ n.floor = 0

Tracked(m) == m.op = "focus" /\ m.tab # NoTab

Pinned == \A i \in DOMAIN up : Tracked(up[i]) => StillPinned(up[i])

(* And from then on until the snapshot that shows it: its answer comes before *)
(* that snapshot, and the projection of its barrier is no earlier one.        *)
Newest(k) ==
  \A j \in DOMAIN down : j > k /\ Shot(down[j]) => down[j].revision >= native.since

Answering(n) ==
  \/ n.ack /\ Newest(0)
  \/ ~n.ack /\ \E k \in DOMAIN down :
                 Reply(down[k]) /\ down[k].id = n.id /\ down[k].ok /\ Newest(k)

Floors(n) ==
  /\ n.floor = 0 \/ n.floor >= native.since
  /\ \A i \in DOMAIN down :
       Projected(down[i]) /\ down[i].id = n.seq => down[i].revision >= native.since

Waits(n) == n.tab = native.tab /\ Floors(n) /\ Answering(n)

Moved ==
  view.at # "over" /\ native.by \in Request /\ view.revision < native.since =>
    \/ native.by \in lost
    \/ \E n \in pending : n.id = native.by /\ Waits(n)
    \/ view.tab = native.tab /\ Newest(0)

PinsInv ==
  /\ Shape /\ Before /\ InOrder /\ Tables /\ Hiding /\ Visible
  /\ Told /\ Projections /\ Barriers /\ Once /\ Pinned /\ Moved

-----------------------------------------------------------------------------
(* Streams: something is added at the end, or taken from the front.           *)
LEMMA Longer ==
  ASSUME NEW S, NEW q \in Seq(S), NEW e \in S
  PROVE  /\ Append(q, e) \in Seq(S)
         /\ DOMAIN Append(q, e) = DOMAIN q \cup {Len(q) + 1}
         /\ Len(q) + 1 \in Nat /\ Append(q, e)[Len(q) + 1] = e
         /\ \A i \in DOMAIN q : i \in Nat /\ i < Len(q) + 1 /\ Append(q, e)[i] = q[i]
OBVIOUS

LEMMA Shorter ==
  ASSUME NEW S, NEW q \in Seq(S), q # <<>>
  PROVE  /\ Tail(q) \in Seq(S) /\ Head(q) = q[1] /\ 1 \in DOMAIN q /\ q[1] \in S
         /\ \A i \in DOMAIN Tail(q) : i \in Nat /\ i > 0 /\ i + 1 \in DOMAIN q
                                      /\ Tail(q)[i] = q[i + 1]
         /\ \A i \in DOMAIN q : /\ i \in Nat /\ i > 0
                                /\ i > 1 => i - 1 \in DOMAIN Tail(q) /\ Tail(q)[i - 1] = q[i]
<1>1. /\ Tail(q) \in Seq(S) /\ Head(q) = q[1] /\ 1 \in DOMAIN q /\ q[1] \in S
      /\ \A i \in DOMAIN Tail(q) : i \in Nat /\ i > 0 /\ i + 1 \in DOMAIN q
                                   /\ Tail(q)[i] = q[i + 1]
      /\ \A i \in DOMAIN q : i \in Nat /\ i > 0 /\ (i > 1 => i - 1 \in DOMAIN Tail(q))
  OBVIOUS
<1>2. ASSUME NEW i \in DOMAIN q, i > 1 PROVE Tail(q)[i - 1] = q[i]
  <2>1. Tail(q)[i - 1] = q[(i - 1) + 1] /\ i \in Nat
    BY <1>1, <1>2
  <2>2. (i - 1) + 1 = i
    BY <2>1
  <2> QED
    BY <2>1, <2>2
<1> QED
  BY <1>1, <1>2

LEMMA MessageForm ==
  ASSUME NEW m \in Message
  PROVE  /\ m.from \in {"viewer", "barrier", "activate"} /\ m.op \in {"focus", "set"}
         /\ m.from # "activate" => m.id \in Request
         /\ m.op = "focus" => m.tab \in Tab \cup {NoTab} /\ m.to \in Destination
         /\ m.op = "set" => m.active \in BOOLEAN
BY DEF Message

LEMMA ReportForm ==
  ASSUME NEW m \in Report
  PROVE  /\ m.kind \in {"answer", "snapshot"}
         /\ m.kind = "answer" => m.from \in {"viewer", "barrier", "activate"}
         /\ m.kind = "answer" /\ m.from # "activate" => m.id \in Request /\ m.revision \in Revision
         /\ m.kind = "answer" => m.ok \in BOOLEAN
         /\ m.kind = "snapshot" => m.tab \in Tab /\ m.where \in Layout /\ m.revision \in Revision
BY DEF Report

LEMMA Settles ==
  ASSUME NEW ns, NEW tab, NEW revision
  PROVE  /\ settleNavigation(ns, tab, revision) \subseteq ns
         /\ \A n \in ns : ~n.ack => n \in settleNavigation(ns, tab, revision)
BY DEF settleNavigation, Settled

LEMMA SizeViewInit == Init => PinsInv
<1> SUFFICES ASSUME Init PROVE PinsInv
  OBVIOUS
<1>1. Shape
  <2>1. PICK layout \in Layouts :
          native = [active |-> FALSE, tab |-> FirstTab, where |-> layout, revision |-> 1,
                    sent |-> 0, by |-> 0, since |-> 1, moves |-> 0, refused |-> FALSE]
    BY DEF Init
  <2>2. 1 \in Revision /\ 0 \in 0 .. MaxMoves /\ 0 \in 0 .. MaxRequests
    BY ViewConstants DEF Revision
  <2>3. [x \in Place |-> NoTab] \in Layout
    BY DEF Layout
  <2> QED
    BY <2>1, <2>2, <2>3, ViewConstants DEF Init, Shape
<1>2. Before /\ Tables /\ Hiding /\ Visible /\ Told
  BY ViewConstants DEF Init, Before, Tables, Distinct, Hiding, Visible, Unseen, Told
<1>3. InOrder
  <2>1. TakenTo(0)
    BY DEF Init, TakenTo
  <2> QED
    BY <2>1 DEF Init, InOrder
<1>4. Projections /\ Barriers /\ Once /\ Pinned
  BY DEF Init, Projections, Real, Barriers, Once, Pinned
<1>5. Moved
  BY ViewConstants DEF Init, Moved, Request
<1> QED
  BY <1>1, <1>2, <1>3, <1>4, <1>5 DEF PinsInv

-----------------------------------------------------------------------------
(* What Bee does whatever it receives.  It may ask the native shell to show   *)
(* itself, if the viewer has asked so.                                        *)
Urges(e) ==
  /\ up' = Append(up, e) /\ e.from # "viewer" /\ e.op = "set" /\ e.active
  /\ view.requestedActive
  /\ e.from = "barrier" => Acked(e.id)'

SameRequests ==
  /\ view'.requestedActive = view.requestedActive
  /\ view'.sequence = view.sequence /\ view'.activity = view.activity

Derived(n, m) == n.id = m.id /\ n.tab = m.tab /\ n.seq = m.seq /\ (m.ack => n.ack)

Replied(n) == Reply(Head(down)) /\ Head(down).id = n.id

Received ==
  /\ Receives /\ UNCHANGED <<native, requests>>
  /\ hide' \subseteq hide /\ lost \subseteq lost' /\ SameRequests
  /\ \A n \in pending' : \E m \in pending : Derived(n, m)
  /\ \A n \in pending' : n.ack => Replied(n) \/ \E m \in pending : m.id = n.id /\ m.ack
  /\ Distinct'
  /\ up' = up \/ \E e \in Message : Urges(e)
  /\ view'.at = "ready" => view.at = "ready" \/ up' # up \/ (up = <<>> /\ ~view.requestedActive)
  /\ Real(view.tab, view.where, view.revision)'

LEMMA ReceivedOrder == PinsInv /\ Received => InOrder'
<1> SUFFICES ASSUME PinsInv, Received PROVE InOrder'
  OBVIOUS
<1>1. PICK c \in 0 .. requests : TakenTo(c)
  BY DEF PinsInv, InOrder
<1>2. \A i \in DOMAIN down' : i \in Nat /\ i + 1 \in DOMAIN down /\ down'[i] = down[i + 1]
  BY Shorter DEF PinsInv, Shape, Received, Receives
<1>3. \A i \in DOMAIN up' : up'[i].from = "viewer" => i \in DOMAIN up /\ up'[i] = up[i]
  <2>1. CASE \E e \in Message : Urges(e)
    BY <2>1, Longer DEF PinsInv, Shape, Urges
  <2> QED
    BY <2>1 DEF Received
<1>4. TakenTo(c)'
  BY <1>1, <1>2, <1>3 DEF TakenTo, Received, Reply
<1>5. \A i, j \in DOMAIN up' :
        i < j /\ up'[i].from = "viewer" /\ up'[j].from = "viewer" => up'[i].id < up'[j].id
  BY <1>3 DEF PinsInv, InOrder
<1>6. \A i, j \in DOMAIN down' :
        i < j /\ Reply(down'[i]) /\ Reply(down'[j]) => down'[i].id < down'[j].id
  <2>1. \A i, j \in DOMAIN down' : i < j => i + 1 < j + 1
    BY <1>2
  <2> QED
    BY <1>2, <2>1 DEF PinsInv, InOrder
<1> QED
  BY <1>4, <1>5, <1>6 DEF InOrder, Received

LEMMA ReceivedTables == PinsInv /\ Received => Tables'
<1> SUFFICES ASSUME PinsInv, Received PROVE Tables'
  OBVIOUS
<1>1. /\ \A n \in pending' : \E m \in pending : n.id = m.id /\ n.seq = m.seq
      /\ hide' \subseteq hide /\ requests' = requests
      /\ view'.sequence = view.sequence /\ view'.activity = view.activity
  BY DEF Received, Derived, SameRequests
<1> QED
  BY <1>1 DEF Tables, Received, PinsInv

LEMMA ReceivedHiding == PinsInv /\ Received => Hiding'
<1> SUFFICES ASSUME PinsInv, Received, NEW h \in hide', h.activity = view'.activity
             PROVE  HidesLast(h)'
  BY DEF Hiding
<1>1. HidesLast(h)
  BY DEF PinsInv, Hiding, Received, SameRequests
<1>2. up' = up /\ native' = native /\ ~view'.requestedActive
  BY <1>1 DEF HidesLast, Received, Urges, SameRequests
<1>3. \A i \in DOMAIN down' : i + 1 \in DOMAIN down /\ down'[i] = down[i + 1]
  BY Shorter DEF PinsInv, Shape, Received, Receives
<1> QED
  BY <1>1, <1>2, <1>3 DEF HidesLast, Unseen, Reply

LEMMA ReceivedTold == PinsInv /\ Received => Told'
<1> SUFFICES ASSUME PinsInv, Received, view'.at = "ready", ~native'.refused,
                    NEW a, a = view.requestedActive
             PROVE  ToldLast(a)'
  BY DEF Told, Received, SameRequests
<1>1. native' = native
  BY DEF Received
<1>2. CASE \E e \in Message : Urges(e)
  <2>1. PICK e \in Message : Urges(e)
    BY <1>2
  <2>2. e.op = "set" /\ e.active = a
    BY <2>1, MessageForm DEF Urges, PinsInv, Shape
  <2>3. /\ Len(up) + 1 \in DOMAIN up' /\ up'[Len(up) + 1] = e
        /\ \A j \in DOMAIN up' : ~ (j > Len(up) + 1)
    BY <2>1, Longer DEF PinsInv, Shape, Urges
  <2> QED
    BY <2>2, <2>3 DEF ToldLast
<1>3. CASE up' = up /\ view.at = "ready"
  BY <1>1, <1>3 DEF PinsInv, Told, ToldLast
<1>4. CASE up' = up /\ up = <<>> /\ ~view.requestedActive
  <2>1. /\ view.at \in {"new", "hello", "ready", "over"} /\ view.at # "over"
        /\ native.active \in BOOLEAN /\ a \in BOOLEAN
    BY DEF PinsInv, Shape, Received, Receives
  <2>2. view.at # "ready" => native.active = a
    BY <1>4, <2>1 DEF PinsInv, Before
  <2>3. DOMAIN up' = {}
    BY <1>4
  <2>4. native.active = a => ToldLast(a)'
    BY <1>1, <2>3 DEF ToldLast
  <2> QED
    BY <1>3, <1>4, <2>2, <2>4
<1> QED
  BY <1>2, <1>3, <1>4 DEF Received

LEMMA ReceivedProjections == PinsInv /\ Received => Projections'
<1> SUFFICES ASSUME PinsInv, Received PROVE Projections'
  OBVIOUS
<1>1. \A i \in DOMAIN down' : i + 1 \in DOMAIN down /\ down'[i] = down[i + 1]
  BY Shorter DEF PinsInv, Shape, Received, Receives
<1> QED
  BY <1>1 DEF PinsInv, Projections, Received, Real, Shot

LEMMA ReceivedBarriers == PinsInv /\ Received => Barriers'
<1> SUFFICES ASSUME PinsInv, Received PROVE Barriers'
  OBVIOUS
<1>1. \A seq : Acked(seq) => Acked(seq)'
  BY DEF Acked, Received, Derived, SameRequests
<1>2. \A i \in DOMAIN down' : i + 1 \in DOMAIN down /\ down'[i] = down[i + 1]
  BY Shorter DEF PinsInv, Shape, Received, Receives
<1>4. CASE \E e \in Message : Urges(e)
  <2>1. PICK e \in Message : Urges(e)
    BY <1>4
  <2>2. \A i \in DOMAIN up' : up'[i] = e \/ (i \in DOMAIN up /\ up'[i] = up[i])
    BY <2>1, Longer DEF PinsInv, Shape, Urges
  <2>3. e.from = "barrier" => Acked(e.id)'
    BY <2>1 DEF Urges
  <2> QED
    BY <1>1, <1>2, <2>2, <2>3 DEF PinsInv, Barriers, Projected
<1>5. CASE up' = up
  BY <1>1, <1>2, <1>5 DEF PinsInv, Barriers, Projected
<1> QED
  BY <1>4, <1>5 DEF Received

-----------------------------------------------------------------------------
(* The answers and snapshots one by one.                                      *)
ReceivedInv == Shape' /\ Before' /\ Visible' /\ Received /\ Pinned' /\ Moved'

(* What is still to come when something has been received.                    *)
LEMMA Remaining ==
  ASSUME Shape, Receives
  PROVE  /\ down' \in Seq(Report) /\ Head(down) = down[1] /\ 1 \in DOMAIN down /\ Head(down) \in Report
         /\ \A i \in DOMAIN down' : i \in Nat /\ i > 0 /\ i + 1 \in DOMAIN down
                                    /\ down'[i] = down[i + 1]
         /\ \A i \in DOMAIN down : /\ i \in Nat /\ i > 0
                                   /\ i > 1 => i - 1 \in DOMAIN down' /\ down'[i - 1] = down[i]
<1>1. down \in Seq(Report) /\ down # <<>> /\ down' = Tail(down)
  BY DEF Shape, Receives
<1> QED
  BY <1>1, Shorter

LEMMA NewestStays ==
  ASSUME Shape, Receives, UNCHANGED native
  PROVE  /\ Newest(0) => Newest(0)'
         /\ \A k \in DOMAIN down : k > 1 /\ Newest(k) => Newest(k - 1)'
         /\ Newest(1) => Newest(0)'
<1>1. /\ \A i \in DOMAIN down' : i \in Nat /\ i > 0 /\ i + 1 \in DOMAIN down
                                    /\ down'[i] = down[i + 1]
      /\ \A i \in DOMAIN down : i \in Nat
  BY Remaining
<1>2. \A k \in Nat : Newest(k + 1) => Newest(k)'
  <2> SUFFICES ASSUME NEW k \in Nat, Newest(k + 1), NEW j \in DOMAIN down', j > k, Shot(down'[j])
               PROVE  down'[j].revision >= native'.since
    BY DEF Newest, Shot
  <2>1. j + 1 > k + 1 /\ j + 1 \in DOMAIN down /\ Shot(down[j + 1]) /\ down'[j] = down[j + 1]
    BY <1>1 DEF Shot
  <2> QED
    BY <2>1 DEF Newest
<1>3. Newest(0) => Newest(0 + 1)
  BY <1>1 DEF Newest
<1>4. 0 + 1 = 1
  OBVIOUS
<1>5. \A k \in DOMAIN down : k > 1 => k - 1 \in Nat /\ (k - 1) + 1 = k
  BY <1>1
<1> QED
  BY <1>2, <1>3, <1>4, <1>5

(* What n waits for goes on coming when something else is received.           *)
LEMMA WaitsOn ==
  ASSUME Shape, Receives, UNCHANGED native, NEW n, Waits(n),
         n.ack \/ ~Reply(Head(down)) \/ Head(down).id # n.id
  PROVE  Waits(n)'
<1>1. /\ Head(down) = down[1]
      /\ \A i \in DOMAIN down' : i + 1 \in DOMAIN down /\ down'[i] = down[i + 1]
      /\ \A i \in DOMAIN down : /\ i \in Nat /\ i > 0
                                /\ i > 1 => i - 1 \in DOMAIN down' /\ down'[i - 1] = down[i]
  BY Remaining
<1>2. Floors(n)'
  BY <1>1 DEF Waits, Floors, Projected
<1>3. CASE n.ack
  BY <1>2, <1>3, NewestStays DEF Waits, Answering
<1>4. CASE ~n.ack
  <2>1. PICK k \in DOMAIN down : Reply(down[k]) /\ down[k].id = n.id /\ down[k].ok /\ Newest(k)
    BY <1>4 DEF Waits, Answering
  <2>2. k > 1
    BY <1>1, <1>4, <2>1
  <2>3. k - 1 \in DOMAIN down' /\ down'[k - 1] = down[k] /\ Newest(k - 1)'
    BY <1>1, <2>1, <2>2, NewestStays
  <2> QED
    BY <1>2, <1>4, <2>1, <2>3 DEF Waits, Answering, Reply
<1> QED
  BY <1>3, <1>4

(* The requests stay as they must be when one is added.                       *)
UpShape == /\ up \in Seq(Message)
           /\ \A i \in DOMAIN up : /\ up[i].op = "focus" => up[i].from = "viewer"
                                   /\ up[i].from # "viewer" => up[i].active

LEMMA Requested ==
  ASSUME Shape, NEW e \in Message, up' = Append(up, e),
         e.op = "focus" => e.from = "viewer", e.from # "viewer" => e.active
  PROVE  /\ UpShape' /\ Len(up) + 1 \in DOMAIN up' /\ up'[Len(up) + 1] = e
         /\ \A i \in DOMAIN up' : \/ i \in DOMAIN up /\ up'[i] = up[i] /\ i < Len(up) + 1
                                  \/ i = Len(up) + 1 /\ up'[i] = e
         /\ \A i \in DOMAIN up : i \in DOMAIN up' /\ i \in Nat
         /\ Len(up) + 1 \in Nat
<1>1. /\ up' \in Seq(Message) /\ DOMAIN up' = DOMAIN up \cup {Len(up) + 1}
      /\ Len(up) + 1 \in Nat /\ up'[Len(up) + 1] = e
      /\ \A i \in DOMAIN up : i \in Nat /\ i < Len(up) + 1 /\ up'[i] = up[i]
  <2>1. up \in Seq(Message)
    BY DEF Shape
  <2> QED
    BY <2>1, Longer
<1> QED
  BY <1>1 DEF Shape, UpShape

(* An answer is received once, and none is there before its request is taken. *)
LEMMA RepliesDiffer ==
  ASSUME PinsInv, Receives, Reply(Head(down))
  PROVE  /\ \A i \in DOMAIN down : i > 1 /\ Reply(down[i]) => down[i].id # Head(down).id
         /\ \A i \in DOMAIN up : up[i].from = "viewer" => up[i].id # Head(down).id
<1>1. /\ Head(down) = down[1] /\ 1 \in DOMAIN down /\ Head(down) \in Report
      /\ \A i \in DOMAIN down : i \in Nat /\ down[i] \in Report
  BY Remaining DEF PinsInv, Shape
<1>2. Head(down).id \in Request /\ \A i \in DOMAIN down : Reply(down[i]) => down[i].id \in Request
  BY <1>1, ReportForm DEF Reply
<1>3. \A i \in DOMAIN down : 1 < i /\ Reply(down[i]) => Head(down).id < down[i].id
  BY <1>1 DEF PinsInv, InOrder
<1>4. PICK c \in 0 .. requests : TakenTo(c)
  BY DEF PinsInv, InOrder
<1>5. requests \in Nat
  BY ViewConstants DEF PinsInv, Shape
<1>6. Head(down).id <= c /\ \A i \in DOMAIN up : up[i].from = "viewer" => c < up[i].id
  BY <1>1, <1>4 DEF TakenTo
<1>7. \A i \in DOMAIN up : up[i] \in Message
  BY DEF PinsInv, Shape
<1>8. \A i \in DOMAIN up : up[i].from = "viewer" => up[i].id \in Request
  BY <1>7, MessageForm
<1>9. \A i \in DOMAIN up : up[i].from = "viewer" => up[i].id # Head(down).id
  BY <1>2, <1>4, <1>5, <1>6, <1>8 DEF Request
<1>10. \A i \in DOMAIN down : i > 1 /\ Reply(down[i]) => down[i].id # Head(down).id
  BY <1>1, <1>2, <1>3 DEF Request
<1> QED
  BY <1>9, <1>10

LEMMA UpReceived ==
  ASSUME PinsInv, Received, NEW i \in DOMAIN up', up'[i].from = "viewer" \/ up'[i].op = "focus"
  PROVE  i \in DOMAIN up /\ up'[i] = up[i] /\ up[i].from = "viewer"
<1>1. i \in DOMAIN up /\ up'[i] = up[i]
  <2>1. CASE \E e \in Message : Urges(e)
    BY <2>1, Longer DEF PinsInv, Shape, Urges
  <2> QED
    BY <2>1 DEF Received
<1> QED
  BY <1>1 DEF PinsInv, Shape

LEMMA ReceivedOnce == PinsInv /\ Received => Once'
<1> SUFFICES ASSUME PinsInv, Received PROVE Once'
  OBVIOUS
<1>1. Receives /\ Shape
  BY DEF Received, PinsInv
<1>2. \A i \in DOMAIN down' : i \in Nat /\ i > 0 /\ i + 1 \in DOMAIN down /\ down'[i] = down[i + 1]
  BY <1>1, Remaining
<1>3. \A id : Unacked(id) /\ ~(Reply(Head(down)) /\ Head(down).id = id) => Unacked(id)'
  BY DEF Unacked, Received, Replied
<1>4. ASSUME NEW i \in DOMAIN up', up'[i].from = "viewer", NEW id, id = up'[i].id PROVE Unacked(id)'
  <2>1. i \in DOMAIN up /\ up'[i] = up[i]
    BY <1>4, UpReceived
  <2>2. Unacked(id)
    BY <1>4, <2>1 DEF PinsInv, Once
  <2>3. ~(Reply(Head(down)) /\ Head(down).id = id)
    BY <1>1, <1>4, <2>1, RepliesDiffer
  <2> QED
    BY <1>3, <2>2, <2>3
<1>5. ASSUME NEW i \in DOMAIN down', Reply(down'[i]), NEW id, id = down'[i].id PROVE Unacked(id)'
  <2>1. i + 1 \in DOMAIN down /\ down'[i] = down[i + 1] /\ i + 1 > 1
    BY <1>2
  <2>2. Unacked(id)
    BY <1>5, <2>1 DEF PinsInv, Once, Reply
  <2>3. ~(Reply(Head(down)) /\ Head(down).id = id)
    BY <1>1, <1>5, <2>1, RepliesDiffer DEF Reply
  <2> QED
    BY <1>3, <2>2, <2>3
<1> QED
  BY <1>4, <1>5 DEF Once, Reply

(* The navigations that are not answered stay pinned.                         *)
LEMMA ReceivedPinned ==
  ASSUME PinsInv, Received,
         \A n \in pending : ~n.ack /\ n.floor = 0 /\ ~Replied(n) => n \in pending' \/ n.id \in lost'
  PROVE  Pinned'
<1> SUFFICES ASSUME NEW i \in DOMAIN up', Tracked(up'[i]), NEW m, m = up'[i] PROVE StillPinned(m)'
  BY DEF Pinned, Tracked
<1>1. i \in DOMAIN up /\ m = up[i] /\ up[i].from = "viewer" /\ Tracked(up[i])
  BY UpReceived DEF Tracked
<1>2. StillPinned(m)
  BY <1>1 DEF PinsInv, Pinned
<1>3. ~(Reply(Head(down)) /\ Head(down).id = m.id)
  BY <1>1, RepliesDiffer DEF Received
<1>4. CASE m.id \in lost
  BY <1>4 DEF Received, StillPinned
<1>5. CASE \E n \in pending : n.id = m.id /\ n.tab = m.tab /\ ~n.ack /\ n.floor = 0
  BY <1>3, <1>5 DEF Replied, StillPinned
<1> QED
  BY <1>2, <1>4, <1>5 DEF StillPinned

(* And so does the one that the native shell has moved to.                    *)
LEMMA MovedOn ==
  ASSUME Shape', UNCHANGED native, NEW n, n.id = native.by, Waits(n)',
         n.floor \in {0} \cup Revision,
         n \in pending' \/ Settled(n, view'.tab, view'.revision)
  PROVE  Moved'
<1> SUFFICES ASSUME view'.revision < native'.since, n \notin pending'
             PROVE  view'.tab = native'.tab /\ Newest(0)'
  BY DEF Moved
<1>1. n.ack /\ ((n.floor > 0 /\ view'.revision >= n.floor) \/ view'.tab = n.tab)
  BY DEF Settled
<1>2. Newest(0)' /\ n.tab = native'.tab /\ (n.floor = 0 \/ n.floor >= native'.since)
  BY <1>1 DEF Waits, Answering, Floors
<1>3. view'.revision \in {0} \cup Revision /\ native'.since \in Revision
  BY DEF Shape
<1>4. view'.revision \in Nat /\ native'.since \in Nat /\ n.floor \in Nat
  BY <1>3, ViewConstants DEF Revision
<1>5. ~(n.floor > 0 /\ view'.revision >= n.floor)
  BY <1>2, <1>4
<1> QED
  BY <1>1, <1>2, <1>5

LEMMA ReceivedMoved ==
  ASSUME PinsInv, Shape', Received, view'.tab = view.tab, view'.revision = view.revision,
         \A n \in pending : n.id = native.by /\ Waits(n) =>
           \/ n.id \in lost'
           \/ \E m \in Navigation :
                /\ m.id = n.id /\ Waits(m)'
                /\ (m \in pending' \/ Settled(m, view'.tab, view'.revision))
  PROVE  Moved'
<1>1. UNCHANGED native /\ lost \subseteq lost' /\ Receives /\ Shape
  BY DEF Received, PinsInv
<1>2. Moved
  BY DEF PinsInv
<1>3. CASE ~(native.by \in Request /\ view.revision < native.since)
  BY <1>1, <1>3 DEF Moved
<1> view.at # "over"
  BY <1>1 DEF Receives
<1>4. CASE native.by \in lost
  BY <1>1, <1>4 DEF Moved
<1>5. CASE view.tab = native.tab /\ Newest(0)
  BY <1>1, <1>5, NewestStays DEF Moved
<1>6. ASSUME NEW n \in pending, n.id = native.by, Waits(n) PROVE Moved'
  <2>1. CASE n.id \in lost'
    BY <1>1, <1>6, <2>1 DEF Moved
  <2>2. ASSUME NEW m \in Navigation, m.id = n.id, Waits(m)',
               m \in pending' \/ Settled(m, view'.tab, view'.revision)
        PROVE  Moved'
    <3>1. m.floor \in {0} \cup Revision /\ m.id = native.by
      BY <1>6, <2>2 DEF Navigation
    <3> QED
      BY <1>1, <2>2, <3>1, MovedOn
  <2> QED
    BY <1>6, <2>1, <2>2
<1> QED
  BY <1>2, <1>3, <1>4, <1>5, <1>6 DEF Moved

LEMMA ActivateStep == PinsInv /\ ActivateAnswer => ReceivedInv
<1> SUFFICES ASSUME PinsInv, ActivateAnswer PROVE ReceivedInv
  OBVIOUS
<1>1. /\ Shape /\ Receives /\ UNCHANGED <<view, pending, hide, up, native, requests, lost>>
      /\ ~Reply(Head(down))
  BY DEF ActivateAnswer, PinsInv, Reply
<1>2. down' \in Seq(Report)
  BY <1>1, Remaining
<1>3. Shape' /\ Before' /\ Visible'
  BY <1>1, <1>2 DEF PinsInv, Shape, Before, Visible, Unseen, Receives
<1>4. Received
  BY <1>1 DEF PinsInv, Received, SameRequests, Derived, Distinct, Tables, Projections, Real
<1>5. Pinned'
  BY <1>1, <1>4, ReceivedPinned
<1>6. Moved'
  <2>1. \A n \in pending : Waits(n) => Waits(n)' /\ n \in Navigation /\ n \in pending'
    BY <1>1, WaitsOn DEF Shape
  <2> QED
    BY <1>1, <1>3, <1>4, <2>1, ReceivedMoved
<1> QED
  BY <1>3, <1>4, <1>5, <1>6 DEF ReceivedInv

(* Answers that leave the native shell's visibility, and what Bee knows of it, *)
(* alone.                                                                     *)
LEMMA SettlingShape ==
  ASSUME PinsInv, Receives, NEW ns \in SUBSET Navigation,
         pending' = settleNavigation(ns, view.tab, view.revision),
         view.at \in {"new", "hello"} => ns = {}, hide' \subseteq hide,
         UNCHANGED <<view, up, native, requests, lost>>
  PROVE  Shape' /\ Before' /\ Visible'
<1>1. down' \in Seq(Report) /\ pending' \subseteq ns /\ Shape /\ down # <<>>
  BY Remaining, Settles DEF PinsInv, Receives
<1>2. Shape'
  BY <1>1 DEF Shape
<1>3. Before'
  BY <1>1 DEF PinsInv, Before
<1> QED
  BY <1>2, <1>3 DEF PinsInv, Visible, Unseen

LEMMA FlooredForm ==
  ASSUME NEW n \in Navigation, NEW r \in Revision
  PROVE  /\ [n EXCEPT !.floor = r] \in Navigation /\ [n EXCEPT !.floor = r].id = n.id
         /\ [n EXCEPT !.floor = r].tab = n.tab /\ [n EXCEPT !.floor = r].seq = n.seq
         /\ [n EXCEPT !.floor = r].ack = n.ack /\ [n EXCEPT !.floor = r].floor = r
BY DEF Navigation

LEMMA BarrierStep == PinsInv /\ BarrierAnswer => ReceivedInv
<1> SUFFICES ASSUME PinsInv, BarrierAnswer PROVE ReceivedInv
  OBVIOUS
<1>0. PICK b : b = Head(down)
  OBVIOUS
<1> DEFINE floored(n) == IF n.seq = b.id THEN [n EXCEPT !.floor = b.revision] ELSE n
           known == {floored(n) : n \in pending}
<1>1. /\ Shape /\ Receives /\ UNCHANGED <<view, hide, up, native, requests, lost>>
      /\ Projected(b) /\ pending' = settleNavigation(known, view.tab, view.revision)
  BY <1>0 DEF BarrierAnswer, PinsInv, Projected
<1>2. b = down[1] /\ 1 \in DOMAIN down /\ b.id \in Request /\ b.revision \in Revision
  BY <1>0, <1>1, Remaining, ReportForm DEF Projected
<1>3. \A n \in pending : /\ n \in Navigation /\ floored(n) \in Navigation
                         /\ floored(n).id = n.id /\ floored(n).tab = n.tab
                         /\ floored(n).seq = n.seq /\ floored(n).ack = n.ack
                         /\ floored(n).floor = IF n.seq = b.id THEN b.revision ELSE n.floor
  <2> SUFFICES ASSUME NEW n \in pending
               PROVE  /\ n \in Navigation /\ floored(n) \in Navigation
                      /\ floored(n).id = n.id /\ floored(n).tab = n.tab
                      /\ floored(n).seq = n.seq /\ floored(n).ack = n.ack
                      /\ floored(n).floor = IF n.seq = b.id THEN b.revision ELSE n.floor
    OBVIOUS
  <2>1. n \in Navigation /\ b.revision \in Revision
    BY <1>1, <1>2 DEF Shape
  <2>2. CASE n.seq = b.id
    BY <2>1, <2>2, FlooredForm
  <2>3. CASE n.seq # b.id
    BY <2>1, <2>3
  <2> QED
    BY <2>2, <2>3
<1>4. Acked(b.id) /\ ~Reply(b)
  BY <1>1, <1>2 DEF PinsInv, Barriers, Projected, Reply
<1>5. \A n \in pending : ~n.ack => floored(n) = n /\ n \in known
  BY <1>4 DEF Acked
<1>6. known \in SUBSET Navigation /\ (pending = {} => known = {})
  BY <1>3
<1>7. /\ pending' \subseteq known
      /\ \A n \in known : ~n.ack => n \in pending'
      /\ \A n \in known : n \in pending' \/ Settled(n, view'.tab, view'.revision)
  BY <1>1 DEF settleNavigation, Settled
<1>8. Distinct'
  <2> SUFFICES ASSUME NEW x \in pending', NEW y \in pending', x.id = y.id \/ x.seq = y.seq
               PROVE  x = y
    BY DEF Distinct
  <2>1. PICK m \in pending, n \in pending : x = floored(m) /\ y = floored(n)
    BY <1>7
  <2>2. m.id = n.id \/ m.seq = n.seq
    BY <1>3, <2>1
  <2> QED
    BY <2>1, <2>2 DEF PinsInv, Tables, Distinct
<1> HIDE DEF known
<1>9. Shape' /\ Before' /\ Visible'
  BY <1>1, <1>6, SettlingShape DEF PinsInv, Before
<1>10. \A n \in pending' : \E m \in pending : Derived(n, m) /\ n.ack = m.ack
  BY <1>3, <1>7 DEF known, Derived
<1>11. Received
  BY <1>1, <1>8, <1>10 DEF PinsInv, Received, SameRequests, Derived, Projections, Real
<1>12. Pinned'
  BY <1>5, <1>7, <1>11, ReceivedPinned
<1>13. Moved'
  <2>1. ASSUME NEW n \in pending, Waits(n)
        PROVE  /\ floored(n) \in Navigation /\ floored(n).id = n.id /\ Waits(floored(n))'
               /\ floored(n) \in pending' \/ Settled(floored(n), view'.tab, view'.revision)
    <3>1. Waits(n)'
      BY <1>0, <1>1, <1>4, <2>1, WaitsOn
    <3>2. n.seq = b.id => b.revision >= native'.since
      BY <1>1, <1>2, <2>1 DEF Waits, Floors
    <3> DEFINE m == floored(n)
    <3>3. /\ m.id = n.id /\ m.tab = n.tab /\ m.seq = n.seq /\ m.ack = n.ack
          /\ m.floor = IF n.seq = b.id THEN b.revision ELSE n.floor
          /\ m \in known
      BY <1>3, <2>1 DEF known
    <3> HIDE DEF m
    <3>4. Floors(m)'
      BY <3>1, <3>2, <3>3 DEF Waits, Floors
    <3>5. Answering(m)'
      BY <3>1, <3>3 DEF Waits, Answering
    <3>6. Waits(m)'
      BY <3>1, <3>3, <3>4, <3>5 DEF Waits
    <3> QED
      BY <1>3, <1>7, <2>1, <3>3, <3>6 DEF m
  <2> HIDE DEF floored
  <2>2. \A n \in pending : n.id = native.by /\ Waits(n) =>
          \E m \in Navigation :
            /\ m.id = n.id /\ Waits(m)'
            /\ (m \in pending' \/ Settled(m, view'.tab, view'.revision))
    BY <2>1
  <2>3. view'.tab = view.tab /\ view'.where = view.where /\ view'.revision = view.revision
    BY <1>1
  <2> QED
    BY ONLY PinsInv, <1>9, <1>11, <2>2, <2>3, ReceivedMoved
<1> QED
  BY <1>9, <1>11, <1>12, <1>13 DEF ReceivedInv

LEMMA AckedForm ==
  ASSUME NEW n \in Navigation, NEW w \in BOOLEAN,
         NEW k, k = [n EXCEPT !.ack = TRUE, !.barrier = w]
  PROVE  /\ k \in Navigation /\ k.id = n.id /\ k.tab = n.tab /\ k.seq = n.seq
         /\ k.ack /\ k.floor = n.floor
BY DEF Navigation

LEMMA NavigationStep == PinsInv /\ NavigationAnswer => ReceivedInv
<1> SUFFICES ASSUME PinsInv, NavigationAnswer PROVE ReceivedInv
  OBVIOUS
<1>1. /\ Shape /\ Receives /\ UNCHANGED <<view, hide, native, requests, lost>>
      /\ Reply(Head(down))
  BY DEF NavigationAnswer, PinsInv, Reply
<1>2. PICK n \in pending :
        /\ n.id = Head(down).id
        /\ \/ /\ ~Head(down).ok
              /\ pending' = settleNavigation(pending \ {n}, view.tab, view.revision)
              /\ UNCHANGED up
           \/ /\ Head(down).ok
              /\ pending' = settleNavigation(
                   (pending \ {n}) \cup {[n EXCEPT !.ack = TRUE, !.barrier = WithBarrier]},
                   view.tab, view.revision)
              /\ up' = IF WithBarrier THEN Append(up, Barrier(n)) ELSE up
  BY DEF NavigationAnswer
<1>3. PICK w \in BOOLEAN : w = WithBarrier
  <2>1. view.requestedActive \in BOOLEAN
    BY <1>1 DEF Shape
  <2> QED
    BY <2>1 DEF WithBarrier
<1> DEFINE k == [n EXCEPT !.ack = TRUE, !.barrier = w]
<1>4. /\ n \in Navigation /\ k \in Navigation /\ k.id = n.id /\ k.tab = n.tab
      /\ k.seq = n.seq /\ k.ack /\ k.floor = n.floor
  <2>1. n \in Navigation
    BY <1>1 DEF Shape
  <2> QED
    BY <2>1, AckedForm
<1>5. PICK ns \in SUBSET Navigation :
        /\ pending' = settleNavigation(ns, view.tab, view.revision)
        /\ \/ ns = pending \ {n} /\ ~Head(down).ok /\ up' = up
           \/ /\ ns = (pending \ {n}) \cup {k} /\ Head(down).ok
              /\ up' = IF w THEN Append(up, Barrier(n)) ELSE up
  <2>1. pending \ {n} \in SUBSET Navigation /\ (pending \ {n}) \cup {k} \in SUBSET Navigation
    BY <1>1, <1>4 DEF Shape
  <2> QED
    BY <1>2, <1>3, <2>1
<1> HIDE DEF k
<1>6. \A m \in pending : m.id = n.id => m = n
  BY DEF PinsInv, Tables, Distinct
<1>7. /\ pending' \subseteq ns /\ ns \subseteq pending \cup {k}
      /\ \A m \in pending : m # n => m \in ns
      /\ \A m \in ns : m \in pending' \/ Settled(m, view'.tab, view'.revision)
      /\ \A m \in ns : ~m.ack => m \in pending'
  BY <1>1, <1>5, Settles DEF settleNavigation
<1>8. ~n.ack
  BY <1>1, <1>2, Remaining DEF PinsInv, Once, Unacked
<1>9. view.at = "ready"
  BY <1>1 DEF PinsInv, Before, Shape, Receives
<1>10. Distinct'
  <2>1. \A x \in ns : x = k \/ (x \in pending /\ x # n)
    BY <1>5
  <2>2. \A x \in pending' : x = k \/ (x \in pending /\ x # n)
    BY <1>7, <2>1
  <2>3. \A x, y \in pending : x.id = y.id \/ x.seq = y.seq => x = y
    BY DEF PinsInv, Tables, Distinct
  <2> QED
    BY <1>4, <2>2, <2>3 DEF Distinct
<1>11. \A x \in pending' : /\ \E m \in pending : Derived(x, m)
                           /\ x.ack => Replied(x) \/ \E m \in pending : m.id = x.id /\ m.ack
  BY <1>2, <1>4, <1>7, <1>1 DEF Derived, Replied
<1>12. \/ up' = up
       \/ (\E e \in Message : Urges(e)) /\ up' \in Seq(Message) /\ view.requestedActive
  <2>1. CASE w /\ Head(down).ok /\ up' = Append(up, Barrier(n))
    <3>1. /\ Barrier(n) \in Message /\ Barrier(n).from = "barrier" /\ Barrier(n).op = "set"
          /\ Barrier(n).active /\ Barrier(n).id = n.seq
      BY <1>4 DEF Barrier, Message, Navigation
    <3>2. ns = (pending \ {n}) \cup {k}
      BY <1>5, <2>1
    <3>3. \A x \in pending' : x.seq = n.seq => x.ack
      BY <1>4, <1>7, <3>2 DEF PinsInv, Tables, Distinct
    <3>4. n.seq <= view'.sequence
      BY <1>1 DEF PinsInv, Tables
    <3>5. PICK e \in Message : e = Barrier(n)
      BY <3>1
    <3>6. Acked(e.id)'
      BY <3>1, <3>3, <3>4, <3>5 DEF Acked
    <3>7. view.requestedActive /\ up' = Append(up, e)
      BY <1>3, <2>1, <3>5 DEF WithBarrier
    <3>8. Urges(e)
      BY <3>1, <3>5, <3>6, <3>7 DEF Urges
    <3>9. up' \in Seq(Message)
      BY <1>1, <3>7, Longer DEF Shape
    <3> QED
      BY <3>7, <3>8, <3>9
  <2> QED
    BY <1>5, <2>1
<1>13. Received
  BY <1>1, <1>9, <1>10, <1>11, <1>12 DEF PinsInv, Received, SameRequests, Projections, Real
<1>14. Shape'
  <2>1. ASSUME NEW e \in Message, Urges(e) PROVE UpShape'
    BY <1>1, <2>1, Requested DEF Urges
  <2>2. UpShape'
    BY <1>1, <1>12, <2>1 DEF Shape, UpShape
  <2>3. down' \in Seq(Report) /\ pending' \subseteq Navigation
    BY <1>1, <1>5, <1>7, Remaining
  <2> QED
    BY <1>1, <2>2, <2>3 DEF Shape, UpShape
<1>15. Before'
  BY <1>1, <1>9 DEF PinsInv, Before
<1>16. Visible'
  <2>1. CASE up' = up
    BY <1>1, <2>1 DEF PinsInv, Visible, Unseen
  <2>2. CASE view.requestedActive
    BY <1>1, <1>9, <2>2 DEF PinsInv, Visible, Before
  <2> QED
    BY <1>12, <2>1, <2>2
<1>17. Pinned'
  BY <1>1, <1>2, <1>7, <1>13, ReceivedPinned DEF Replied
<1>18. Moved'
  <2>1. ASSUME NEW m \in pending, m.id = native.by, Waits(m)
        PROVE  \E x \in Navigation : /\ x.id = m.id /\ Waits(x)'
                                     /\ (x \in pending' \/ Settled(x, view'.tab, view'.revision))
    <3>1. CASE m # n
      <4>1. m.id # Head(down).id
        BY <1>2, <1>6, <3>1
      <4>2. Waits(m)'
        BY <1>1, <2>1, <4>1, WaitsOn
      <4> QED
        BY <1>1, <1>7, <3>1, <4>2 DEF Shape
    <3>2. CASE m = n
      <4>1. PICK i \in DOMAIN down : Reply(down[i]) /\ down[i].id = n.id /\ down[i].ok /\ Newest(i)
        BY <1>8, <2>1, <3>2 DEF Waits, Answering
      <4>2. i = 1 /\ Head(down) = down[1]
        BY <1>1, <1>2, <4>1, Remaining, RepliesDiffer
      <4>3. Head(down).ok /\ Newest(0)'
        BY <1>1, <4>1, <4>2, NewestStays
      <4>4. Floors(n)'
        BY <1>1, <2>1, <3>2, Remaining DEF Waits, Floors, Projected
      <4>5. Waits(k)'
        BY <1>1, <1>4, <2>1, <3>2, <4>3, <4>4 DEF Waits, Floors, Answering
      <4>6. k \in ns
        BY <1>5, <4>3
      <4> QED
        BY <1>4, <1>7, <3>2, <4>5, <4>6
    <3> QED
      BY <3>1, <3>2
  <2>2. view'.tab = view.tab /\ view'.where = view.where /\ view'.revision = view.revision
    BY <1>1
  <2> QED
    BY ONLY PinsInv, <1>13, <1>14, <2>1, <2>2, ReceivedMoved
<1> QED
  BY <1>13, <1>14, <1>15, <1>16, <1>17, <1>18 DEF ReceivedInv

(* Answers that are not about what is pending only settle.                    *)
LEMMA SettlingStep ==
  ASSUME PinsInv, Receives, \A n \in pending : n.id # Head(down).id,
         pending' = settleNavigation(pending, view.tab, view.revision),
         hide' \subseteq hide, UNCHANGED <<view, up, native, requests, lost>>
  PROVE  ReceivedInv
<1>1. Shape
  BY DEF PinsInv
<1>2. /\ pending \in SUBSET Navigation /\ pending' \subseteq pending
      /\ \A n \in pending : n \in pending' \/ Settled(n, view'.tab, view'.revision)
      /\ \A n \in pending : ~n.ack => n \in pending'
  BY <1>1, Settles DEF Shape, settleNavigation
<1>3. Shape' /\ Before' /\ Visible'
  BY <1>2, SettlingShape DEF PinsInv, Before
<1>4. Received
  BY <1>2 DEF PinsInv, Received, SameRequests, Derived, Distinct, Tables, Projections, Real
<1>5. Pinned'
  BY <1>2, <1>4, ReceivedPinned
<1>6. Moved'
  <2>1. \A n \in pending : Waits(n) => Waits(n)' /\ n \in Navigation
    BY <1>1, WaitsOn DEF Shape
  <2>2. view'.tab = view.tab /\ view'.where = view.where /\ view'.revision = view.revision
    OBVIOUS
  <2> QED
    BY ONLY PinsInv, <1>2, <1>3, <1>4, <2>1, <2>2, ReceivedMoved
<1> QED
  BY <1>3, <1>4, <1>5, <1>6 DEF ReceivedInv

LEMMA HideStep == PinsInv /\ HideAnswer => ReceivedInv
<1> SUFFICES ASSUME PinsInv, HideAnswer PROVE ReceivedInv
  OBVIOUS
<1>1. /\ Shape /\ Receives /\ UNCHANGED <<up, native, requests>> /\ Reply(Head(down))
  BY DEF HideAnswer, PinsInv, Reply
<1>2. PICK h \in hide :
        /\ h.id = Head(down).id /\ hide' = hide \ {h}
        /\ \/ /\ Confirmed(h)
              /\ view' = [view EXCEPT !.active = FALSE]
              /\ pending' = {}
              /\ lost' = lost \cup {n.id : n \in pending}
           \/ /\ ~Confirmed(h)
              /\ pending' = settleNavigation(pending, view.tab, view.revision)
              /\ UNCHANGED <<view, lost>>
  BY DEF HideAnswer
<1>3. \A n \in pending : n.id # Head(down).id
  BY <1>2 DEF PinsInv, Tables
<1>4. view.at = "ready"
  BY <1>1, <1>2 DEF PinsInv, Before, Shape, Receives
<1>5. CASE Confirmed(h)
  <2>1. /\ view' = [view EXCEPT !.active = FALSE] /\ pending' = {}
        /\ lost' = lost \cup {n.id : n \in pending}
    BY <1>2, <1>5
  <2>2. Head(down).ok /\ h.activity = view.activity
    BY <1>5 DEF Confirmed
  <2>3. HidesLast(h)
    BY <1>2, <2>2 DEF PinsInv, Hiding
  <2>4. Unseen /\ ~view.requestedActive
    BY <1>1, <1>2, <2>2, <2>3, Remaining DEF HidesLast
  <2>5. Shape'
    <3>1. down' \in Seq(Report)
      BY <1>1, Remaining
    <3>2. lost' \subseteq Request
      BY <1>1, <2>1 DEF Shape, Navigation
    <3> QED
      BY <1>1, <1>2, <2>1, <3>1, <3>2 DEF Shape
  <2>6. /\ view'.at = view.at /\ view'.tab = view.tab /\ view'.where = view.where /\ view'.revision = view.revision
        /\ SameRequests
    BY <1>1, <2>1 DEF Shape, SameRequests
  <2>7. Before'
    BY <1>4, <2>6 DEF PinsInv, Before
  <2>8. Visible'
    BY <1>1, <2>4, <2>6 DEF Visible, Unseen, SameRequests
  <2>9. Received
    BY <1>1, <1>2, <1>4, <2>1, <2>6 DEF PinsInv, Received, Distinct, Projections, Real
  <2>10. Pinned'
    BY <2>1, <2>9, ReceivedPinned
  <2>11. Moved'
    <3>1. \A n \in pending : n.id \in lost'
      BY <2>1
    <3> QED
      BY ONLY PinsInv, <2>5, <2>6, <2>9, <3>1, ReceivedMoved
  <2> QED
    BY <2>5, <2>7, <2>8, <2>9, <2>10, <2>11 DEF ReceivedInv
<1>6. CASE ~Confirmed(h)
  BY <1>1, <1>2, <1>3, <1>4, <1>6, SettlingStep
<1> QED
  BY <1>5, <1>6

LEMMA OtherAnswerStep == PinsInv /\ OtherAnswer => ReceivedInv
<1> SUFFICES ASSUME PinsInv, OtherAnswer PROVE ReceivedInv
  OBVIOUS
<1>1. /\ Receives /\ UNCHANGED <<view, hide, up, native, requests, lost>>
      /\ \A n \in pending : n.id # Head(down).id
      /\ pending' = settleNavigation(pending, view.tab, view.revision)
  BY DEF OtherAnswer
<1> QED
  BY <1>1, SettlingStep

LEMMA SnapshotStep == PinsInv /\ Snapshot => ReceivedInv
<1> SUFFICES ASSUME PinsInv, Snapshot PROVE ReceivedInv
  OBVIOUS
<1>0. PICK s : s = Head(down)
  OBVIOUS
<1>1. /\ Shape /\ Receives /\ UNCHANGED <<hide, native, requests, lost>>
      /\ Shot(s) /\ s = down[1] /\ 1 \in DOMAIN down /\ ~Reply(Head(down))
      /\ s.tab \in Tab /\ s.where \in Layout /\ s.revision \in Revision
  <2>1. Shape /\ Receives /\ UNCHANGED <<hide, native, requests, lost>> /\ Shot(s) /\ ~Reply(s)
    BY <1>0 DEF Snapshot, PinsInv, Reply, Shot
  <2> QED
    BY <1>0, <2>1, Remaining, ReportForm DEF Shot
<1>2. /\ Real(s.tab, s.where, s.revision)
      /\ view.revision \in Nat /\ native.since \in Nat /\ s.revision \in Nat /\ s.revision > 0
  <2>1. Real(s.tab, s.where, s.revision)
    BY <1>1 DEF PinsInv, Projections
  <2>2. view.revision \in Nat /\ native.since \in Nat
    BY <1>1, ViewConstants DEF Shape, Revision
  <2>3. s.revision \in Nat /\ s.revision > 0
    BY <1>1, ViewConstants DEF Revision
  <2> QED
    BY <2>1, <2>2, <2>3
<1>3. CASE s.revision < view.revision /\ UNCHANGED <<view, pending, up>>
  <2>1. down' \in Seq(Report)
    BY <1>1, Remaining
  <2>2. Shape' /\ Before' /\ Visible'
    BY <1>1, <1>3, <2>1 DEF PinsInv, Shape, Before, Visible, Unseen, Receives
  <2>3. Received
    BY <1>1, <1>3 DEF PinsInv, Received, SameRequests, Derived, Distinct, Tables, Projections, Real
  <2>4. Pinned'
    BY <1>1, <1>3, <2>3, ReceivedPinned
  <2>5. \A n \in pending : Waits(n) => Waits(n)' /\ n \in Navigation /\ n \in pending'
    BY <1>1, <1>3, WaitsOn DEF Shape
  <2>6. Moved'
    BY <1>1, <1>3, <2>2, <2>3, <2>5, ReceivedMoved
  <2> QED
    BY <2>2, <2>3, <2>4, <2>6 DEF ReceivedInv
<1>4. ASSUME s.revision >= view.revision,
             view' = [view EXCEPT !.at = "ready", !.tab = s.tab, !.where = s.where,
                                  !.revision = s.revision],
             pending' = settleNavigation(pending, s.tab, s.revision),
             up' = IF view.at = "hello" /\ view.active THEN Append(up, Activation) ELSE up
      PROVE  ReceivedInv
  <2>1. /\ view'.at = "ready" /\ view'.tab = s.tab /\ view'.where = s.where
        /\ view'.revision = s.revision
        /\ view'.active = view.active /\ SameRequests
    BY <1>1, <1>4 DEF Shape, SameRequests
  <2>2. /\ pending' \subseteq pending
        /\ \A n \in pending : n \in pending' \/ Settled(n, view'.tab, view'.revision)
        /\ \A n \in pending : ~n.ack => n \in pending'
    BY <1>4, <2>1, Settles DEF settleNavigation
  <2>3. Activation \in Message /\ Activation.from = "activate" /\ Activation.op = "set" /\ Activation.active
    BY DEF Activation, Message
  <2>4. view.at # "ready" => view.at = "hello" /\ up = <<>> /\ view.active = view.requestedActive
    BY <1>1 DEF PinsInv, Before, Shape, Receives
  <2>5. up' = up \/ (view.requestedActive /\ view.active /\ up' = Append(up, Activation))
    BY <1>4, <2>4
  <2>6. up' = up \/ \E e \in Message : Urges(e)
    <3>1. PICK e \in Message : e = Activation
      BY <2>3
    <3>2. up' = Append(up, e) /\ view.requestedActive => Urges(e)
      BY <2>3, <3>1 DEF Urges
    <3> QED
      BY <2>5, <3>1, <3>2
  <2>7. view.at = "ready" \/ up' # up \/ (up = <<>> /\ ~view.requestedActive)
    <3>1. Append(up, Activation) # up
      BY <1>1, <2>3, Longer DEF Shape
    <3> QED
      BY <1>4, <2>4, <3>1
  <2>8. Shape'
    <3>1. UpShape'
      <4>1. CASE up' = up
        BY <1>1, <4>1 DEF Shape, UpShape
      <4>2. CASE up' = Append(up, Activation)
        BY <1>1, <2>3, <4>2, Requested
      <4> QED
        BY <2>5, <4>1, <4>2
    <3>2. down' \in Seq(Report) /\ pending' \subseteq Navigation
      BY <1>1, <2>2, Remaining DEF Shape
    <3>3. view' \in [at : {"new", "hello", "ready", "over"}, active : BOOLEAN,
                    requestedActive : BOOLEAN, tab : Tab, where : Layout, revision : {0} \cup Revision,
                    sequence : 0 .. MaxRequests, activity : 0 .. MaxRequests]
      BY <1>1, <1>4 DEF Shape
    <3> QED
      BY <1>1, <3>1, <3>2, <3>3 DEF Shape, UpShape
  <2>9. Before'
    BY <1>2, <2>1 DEF Before
  <2>10. Visible'
    <3>1. CASE up' = up
      BY <1>1, <1>2, <2>1, <3>1 DEF PinsInv, Visible, Unseen, SameRequests
    <3>2. CASE view.active
      BY <1>2, <2>1, <3>2 DEF Visible
    <3> QED
      BY <2>5, <3>1, <3>2
  <2>11. Received
    <3>1. Real(view.tab, view.where, view.revision)'
      BY <1>1, <1>2, <2>1 DEF Real
    <3>2. /\ Distinct' /\ \A n \in pending' : \E m \in pending : Derived(n, m)
          /\ \A n \in pending' : n.ack => \E m \in pending : m.id = n.id /\ m.ack
      BY <2>2 DEF PinsInv, Tables, Distinct, Derived
    <3> QED
      BY <1>1, <2>1, <2>6, <2>7, <3>1, <3>2 DEF Received
  <2>12. Pinned'
    BY <2>2, <2>11, ReceivedPinned
  <2>13. Moved'
    <3> SUFFICES ASSUME native.by \in Request, view'.revision < native.since
                 PROVE  Moved'
      BY <1>1 DEF Moved
    <3>1. view.revision < native.since /\ ~(s.revision >= native.since)
      BY <1>2, <1>4, <2>1
    <3>2. ~Newest(0)
      BY <1>1, <3>1 DEF Newest
    <3>3. native.by \in lost \/ \E n \in pending : n.id = native.by /\ Waits(n)
      BY <1>1, <3>1, <3>2 DEF PinsInv, Moved, Receives
    <3>4. ASSUME NEW n \in pending, n.id = native.by, Waits(n) PROVE Moved'
      <4>1. n \in pending'
        BY <2>2, <3>2, <3>4 DEF Waits, Answering
      <4>2. Waits(n)'
        BY <1>1, <3>4, WaitsOn
      <4> QED
        BY <1>1, <3>4, <4>1, <4>2 DEF Moved
    <3> QED
      BY <1>1, <3>3, <3>4 DEF Moved
  <2> QED
    BY <2>8, <2>9, <2>10, <2>11, <2>12, <2>13 DEF ReceivedInv
<1> QED
  BY <1>0, <1>3, <1>4 DEF Snapshot

LEMMA ServerFrameStep == PinsInv /\ ServerFrame => PinsInv'
<1> SUFFICES ASSUME PinsInv, ServerFrame PROVE PinsInv'
  OBVIOUS
<1>1. ReceivedInv
  BY ActivateStep, BarrierStep, NavigationStep, HideStep, OtherAnswerStep, SnapshotStep DEF ServerFrame
<1> QED
  BY <1>1, ReceivedOrder, ReceivedTables, ReceivedHiding, ReceivedTold, ReceivedProjections,
     ReceivedBarriers, ReceivedOnce DEF ReceivedInv, PinsInv

-----------------------------------------------------------------------------
(* The viewer.                                                                *)
ViewType == [at : {"new", "hello", "ready", "over"}, active : BOOLEAN,
             requestedActive : BOOLEAN, tab : Tab, where : Layout, revision : {0} \cup Revision,
             sequence : 0 .. MaxRequests, activity : 0 .. MaxRequests]

NativeType == [active : BOOLEAN, tab : Tab, where : Layouts, revision : Revision,
               sent : {0} \cup Revision, by : Request \cup {0, -1}, since : Revision,
               moves : 0 .. MaxMoves, refused : BOOLEAN]

LEMMA HelloStep == PinsInv /\ Hello => PinsInv'
<1> SUFFICES ASSUME PinsInv, Hello PROVE PinsInv'
  OBVIOUS
<1>1. PICK a \in BOOLEAN : view' = [view EXCEPT !.at = "hello", !.active = a, !.requestedActive = a]
  BY DEF Hello
<1>2. /\ Shape /\ view.at = "new"
      /\ UNCHANGED <<pending, hide, up, down, native, requests, lost>>
  BY DEF Hello, PinsInv
<1>3. /\ view' \in ViewType /\ view'.at = "hello" /\ view'.active = a /\ view'.requestedActive = a
      /\ view'.tab = view.tab /\ view'.where = view.where /\ view'.revision = view.revision
      /\ view'.sequence = view.sequence /\ view'.activity = view.activity
  BY <1>1, <1>2 DEF Shape, ViewType
<1>4. Shape' /\ Before'
  BY <1>2, <1>3 DEF PinsInv, Shape, ViewType, Before
<1>5. Visible' /\ Told' /\ Hiding'
  BY <1>2, <1>3 DEF PinsInv, Before, Visible, Unseen, Told, Hiding
<1>6. InOrder' /\ Tables'
  BY <1>2, <1>3 DEF PinsInv, InOrder, TakenTo, Tables, Distinct
<1>7. Projections' /\ Barriers' /\ Once'
  BY <1>2, <1>3 DEF PinsInv, Projections, Real, Barriers, Acked, Once, Unacked
<1>8. Pinned' /\ Moved'
  BY <1>2, <1>3 DEF PinsInv, Pinned, StillPinned, Moved, Waits, Floors, Answering, Newest
<1> QED
  BY <1>4, <1>5, <1>6, <1>7, <1>8 DEF PinsInv

LEMMA EndsStep == PinsInv /\ Ends => PinsInv'
<1> SUFFICES ASSUME PinsInv, Ends PROVE PinsInv'
  OBVIOUS
<1>1. /\ Shape
      /\ view' = [view EXCEPT !.at = "over", !.active = FALSE, !.requestedActive = FALSE]
      /\ pending' = {} /\ hide' = {} /\ up' = <<>> /\ down' = <<>>
      /\ native' = [native EXCEPT !.active = FALSE] /\ UNCHANGED <<requests, lost>>
  BY DEF Ends, PinsInv
<1>2. /\ view' \in ViewType /\ view'.at = "over" /\ ~view'.requestedActive
      /\ view'.tab = view.tab /\ view'.where = view.where /\ view'.revision = view.revision
      /\ view'.sequence = view.sequence /\ view'.activity = view.activity
  BY <1>1 DEF Shape, ViewType
<1>3. /\ native' \in NativeType /\ ~native'.active
      /\ native'.tab = native.tab /\ native'.where = native.where
      /\ native'.revision = native.revision /\ native'.since = native.since
      /\ native'.by = native.by /\ native'.moves = native.moves
  BY <1>1 DEF Shape, NativeType
<1>4. DOMAIN up' = {} /\ DOMAIN down' = {} /\ up' \in Seq(Message) /\ down' \in Seq(Report)
  BY <1>1
<1>5. Shape' /\ Before' /\ Told' /\ Hiding'
  BY <1>1, <1>2, <1>3, <1>4 DEF Shape, ViewType, NativeType, Before, Told, Hiding
<1>6. Visible'
  BY <1>2, <1>3, <1>4 DEF Visible, Unseen
<1>7. InOrder'
  <2>1. PICK c \in 0 .. requests : TakenTo(c)
    BY DEF PinsInv, InOrder
  <2>2. TakenTo(c)'
    BY <1>3, <1>4, <2>1 DEF TakenTo
  <2> QED
    BY <1>1, <1>4, <2>1, <2>2 DEF InOrder
<1>8. Tables'
  BY <1>1, <1>2 DEF PinsInv, Tables, Distinct
<1>9. Projections'
  BY <1>2, <1>3, <1>4 DEF PinsInv, Projections, Real
<1>10. Barriers' /\ Once' /\ Pinned'
  BY <1>4 DEF Barriers, Once, Pinned
<1>11. Moved'
  BY <1>2 DEF Moved
<1> QED
  BY <1>5, <1>6, <1>7, <1>8, <1>9, <1>10, <1>11 DEF PinsInv

(* A request of the viewer has a new ID.                                      *)
Requests(e) ==
  /\ Asks /\ UNCHANGED <<down, native, lost>>
  /\ up' = Append(up, e) /\ e \in Message /\ e.from = "viewer" /\ e.id = requests'

LEMMA RequestsOrder == ASSUME PinsInv, NEW e, Requests(e) PROVE InOrder'
<1>1. PICK c \in 0 .. requests : TakenTo(c)
  BY DEF PinsInv, InOrder
<1>2. /\ requests \in Nat /\ requests' = requests + 1 /\ e.id = requests + 1
      /\ c \in Nat /\ c <= requests
  BY <1>1, ViewConstants DEF PinsInv, Shape, Requests, Asks
<1>3. /\ \A i \in DOMAIN up' : \/ i \in DOMAIN up /\ up'[i] = up[i] /\ i < Len(up) + 1
                               \/ i = Len(up) + 1 /\ up'[i] = e
      /\ \A i \in DOMAIN up : i \in Nat
      /\ Len(up) + 1 \in Nat
  BY Requested DEF PinsInv, Requests
<1>4. \A i \in DOMAIN up : up[i].from = "viewer" => up[i].id \in Nat /\ c < up[i].id /\ up[i].id <= requests
  BY <1>1, MessageForm DEF PinsInv, Shape, TakenTo, Request
<1>5. TakenTo(c)'
  BY <1>1, <1>2, <1>3, <1>4 DEF TakenTo, Requests
<1>6. \A i, j \in DOMAIN up' :
        i < j /\ up'[i].from = "viewer" /\ up'[j].from = "viewer" => up'[i].id < up'[j].id
  <2> SUFFICES ASSUME NEW i \in DOMAIN up', NEW j \in DOMAIN up', i < j,
                      up'[i].from = "viewer", up'[j].from = "viewer"
               PROVE  up'[i].id < up'[j].id
    OBVIOUS
  <2>1. i \in DOMAIN up /\ up'[i] = up[i]
    BY <1>3
  <2>2. CASE j \in DOMAIN up /\ up'[j] = up[j]
    BY <2>1, <2>2 DEF PinsInv, InOrder
  <2>3. CASE up'[j] = e
    BY <1>2, <1>4, <2>1, <2>3
  <2> QED
    BY <1>3, <2>2, <2>3
<1> QED
  BY <1>1, <1>2, <1>5, <1>6 DEF PinsInv, InOrder, Requests

(* Nothing that was asked or answered before has its ID.                      *)
LEMMA NewID ==
  ASSUME PinsInv, NEW e, Requests(e)
  PROVE  /\ \A n \in pending : n.id # e.id
         /\ \A h \in hide : h.id # e.id /\ h.id <= requests'
         /\ \A i \in DOMAIN up : up[i].from = "viewer" => up[i].id # e.id
         /\ \A i \in DOMAIN down : Reply(down[i]) => down[i].id # e.id
         /\ e.id \in Request /\ requests' = requests + 1 /\ requests' \in 0 .. MaxRequests
         /\ view.at = "ready" /\ e.id = requests'
<1>1. /\ requests \in Nat /\ requests' = requests + 1 /\ e.id = requests + 1
      /\ requests < MaxRequests /\ view.at = "ready" /\ MaxRequests \in Nat /\ Shape
  BY ViewConstants DEF PinsInv, Shape, Requests, Asks
<1>2. PICK c \in 0 .. requests : TakenTo(c)
  BY DEF PinsInv, InOrder
<1>3. c \in Nat /\ c <= requests
  BY <1>1, <1>2
<1>4. \A n \in pending : n.id \in Nat /\ n.id <= requests
  BY <1>1 DEF PinsInv, Tables, Shape, Navigation, Request
<1>5. \A h \in hide : h.id \in Nat /\ h.id <= requests
  BY <1>1 DEF PinsInv, Tables, Shape, Request
<1>6. \A i \in DOMAIN up : up[i].from = "viewer" => up[i].id \in Nat /\ up[i].id <= requests
  BY <1>1, <1>2, MessageForm DEF Shape, TakenTo, Request
<1>7. \A i \in DOMAIN down : Reply(down[i]) => down[i].id \in Nat /\ down[i].id <= c
  <2>1. \A i \in DOMAIN down : down[i] \in Report
    BY <1>1 DEF Shape
  <2> QED
    BY <1>2, <2>1, ReportForm DEF TakenTo, Reply, Request
<1>8. \A i \in DOMAIN down : Reply(down[i]) => down[i].id # e.id
  BY <1>1, <1>3, <1>7
<1> QED
  BY <1>1, <1>4, <1>5, <1>6, <1>8 DEF Request

LEMMA SurfaceStep == ASSUME PinsInv, NEW a \in BOOLEAN, SurfaceSet(a) PROVE PinsInv'
<1>0. PICK e : e = [from |-> "viewer", id |-> requests', op |-> "set", active |-> a]
  OBVIOUS
<1>1. /\ Shape /\ UNCHANGED <<pending, down, native, lost>> /\ up' = Append(up, e)
      /\ e.from = "viewer" /\ e.op = "set" /\ e.active = a /\ e.id = requests'
      /\ view' = [view EXCEPT !.activity = @ + 1, !.requestedActive = a,
                              !.active = IF a THEN TRUE ELSE @]
      /\ hide' = IF a THEN hide
                 ELSE hide \cup {[id |-> requests', activity |-> view.activity + 1]}
  BY <1>0 DEF SurfaceSet, PinsInv
<1>2. Requests(e)
  <2>1. requests' \in Request
    BY ViewConstants DEF PinsInv, Shape, SurfaceSet, Asks, Request
  <2>2. e \in Message
    BY <1>0, <2>1 DEF Message
  <2> QED
    BY <1>1, <2>2 DEF Requests, SurfaceSet
<1>3. /\ \A n \in pending : n.id # e.id
      /\ \A h \in hide : h.id # e.id /\ h.id <= requests'
      /\ \A i \in DOMAIN up : up[i].from = "viewer" => up[i].id # e.id
      /\ \A i \in DOMAIN down : Reply(down[i]) => down[i].id # e.id
      /\ e.id \in Request /\ requests' = requests + 1 /\ requests' \in 0 .. MaxRequests
      /\ view.at = "ready"
  BY <1>2, NewID
<1>4. /\ UpShape' /\ Len(up) + 1 \in DOMAIN up' /\ up'[Len(up) + 1] = e
      /\ \A i \in DOMAIN up' : \/ i \in DOMAIN up /\ up'[i] = up[i] /\ i < Len(up) + 1
                               \/ i = Len(up) + 1 /\ up'[i] = e
      /\ \A i \in DOMAIN up : i \in DOMAIN up' /\ i \in Nat
      /\ Len(up) + 1 \in Nat
  BY <1>1, <1>2, Requested DEF Requests
<1>5. view.activity \in Nat /\ view.activity <= requests /\ requests \in Nat
  BY <1>1, ViewConstants DEF PinsInv, Tables, Shape
<1>6. /\ view' \in ViewType /\ view'.at = "ready" /\ view'.requestedActive = a
      /\ view'.active = (a \/ view.active) /\ view'.activity = view.activity + 1
      /\ view'.tab = view.tab /\ view'.where = view.where /\ view'.revision = view.revision
      /\ view'.sequence = view.sequence
  <2>1. view.activity + 1 \in 0 .. MaxRequests
    BY <1>3, <1>5, ViewConstants
  <2> QED
    BY <1>1, <1>3, <2>1 DEF Shape, ViewType
<1>7. Shape'
  <2>1. hide' \subseteq [id : Request, activity : Request]
    BY <1>1, <1>3, <1>5, ViewConstants DEF Shape, Request
  <2> QED
    BY <1>1, <1>3, <1>4, <1>6, <2>1 DEF Shape, UpShape, ViewType
<1>8. Before'
  BY <1>3, <1>6 DEF PinsInv, Before
<1>9. InOrder'
  BY <1>2, RequestsOrder
<1>10. Tables'
  <2>1. \A h \in hide' : h \in hide \/ (h.id = e.id /\ h.activity = view.activity + 1)
    BY <1>1
  <2>2. \A h \in hide : h.activity \in Nat /\ h.activity <= view.activity /\ h.id \in Nat /\ h.id <= requests
    BY <1>1 DEF PinsInv, Tables, Shape, Request
  <2>3. \A h \in hide' : h.id <= requests' /\ h.activity <= view'.activity
    BY <1>1, <1>3, <1>5, <1>6, <2>1, <2>2
  <2>4. \A n \in pending : n.id \in Nat /\ n.id <= requests /\ n.seq <= view.sequence
    BY <1>1 DEF PinsInv, Tables, Shape, Navigation, Request
  <2>5. \A n \in pending' : n.id <= requests' /\ n.seq <= view'.sequence
    BY <1>1, <1>3, <1>5, <1>6, <2>4
  <2>6. \A n \in pending', h \in hide' : n.id # h.id
    BY <1>1, <1>3, <2>1 DEF PinsInv, Tables
  <2>7. view'.sequence <= requests' /\ view'.activity <= requests'
    BY <1>1, <1>3, <1>5, <1>6 DEF PinsInv, Tables, Shape
  <2>8. Distinct'
    BY <1>1 DEF PinsInv, Tables, Distinct
  <2> QED
    BY <2>3, <2>5, <2>6, <2>7, <2>8 DEF Tables
<1>11. Hiding'
  <2> SUFFICES ASSUME NEW h \in hide', h.activity = view'.activity PROVE HidesLast(h)'
    BY DEF Hiding
  <2>1. h \notin hide
    BY <1>1, <1>5, <1>6 DEF PinsInv, Tables, Shape, Request
  <2>2. ~a /\ h.id = e.id
    BY <1>1, <2>1
  <2>3. \A i \in DOMAIN up' : up'[i].from = "viewer" /\ up'[i].id = h.id => i = Len(up) + 1 /\ up'[i] = e
    BY <1>3, <1>4, <2>2
  <2>4. \A j \in DOMAIN up' : ~ (j > Len(up) + 1)
    BY <1>4
  <2>5. \A k \in DOMAIN down' : ~ (Reply(down'[k]) /\ down'[k].id = h.id)
    BY <1>1, <1>3, <2>2 DEF Reply
  <2> QED
    BY <1>1, <1>6, <2>2, <2>3, <2>4, <2>5 DEF HidesLast, Shows, Reply
<1>12. Visible'
  <2>1. CASE a
    BY <1>3, <1>6, <2>1 DEF PinsInv, Before, Visible
  <2>2. CASE ~a
    BY <1>1, <1>4, <1>6, <2>2 DEF PinsInv, Visible, Unseen, Shows
  <2> QED
    BY <2>1, <2>2
<1>13. Told'
  <2>1. up'[Len(up) + 1].op = "set" /\ up'[Len(up) + 1].active = a
    BY <1>1, <1>4
  <2>2. \A j \in DOMAIN up' : ~ (j > Len(up) + 1)
    BY <1>4
  <2>3. ToldLast(a)'
    BY <1>4, <2>1, <2>2 DEF ToldLast
  <2> QED
    BY <1>6, <2>3 DEF Told
<1>14. Projections'
  BY <1>1, <1>6 DEF PinsInv, Projections, Real
<1>15. \A seq : Acked(seq)' = Acked(seq)
  BY <1>1, <1>6 DEF Acked
<1>16. Barriers'
  BY <1>1, <1>4, <1>15 DEF PinsInv, Barriers
<1>17. Once'
  BY <1>1, <1>3, <1>4 DEF PinsInv, Once, Unacked
<1>18. Pinned'
  BY <1>1, <1>4 DEF PinsInv, Pinned, StillPinned, Tracked
<1>19. Moved'
  BY <1>1, <1>6 DEF PinsInv, Moved, Waits, Floors, Answering, Newest
<1> QED
  BY <1>7, <1>8, <1>9, <1>10, <1>11, <1>12, <1>13, <1>14, <1>16, <1>17, <1>18, <1>19 DEF PinsInv

(* What Bee takes the destination of a request for.                           *)
LEMMA ResolvedForm ==
  ASSUME NEW d \in Destination, NEW layout \in Layout
  PROVE  Resolved(d, layout) \in Tab \cup {NoTab}
BY ViewConstants DEF Resolved, Layout

LEMMA FocusStep == ASSUME PinsInv, NEW d \in Destination, Focus(d) PROVE PinsInv'
<1> PICK t : t = Resolved(d, view.where)
  OBVIOUS
<1>0. PICK e, k : /\ e = [from |-> "viewer", id |-> requests', op |-> "focus", to |-> d, tab |-> t]
                  /\ k = [id |-> requests', tab |-> t, seq |-> view.sequence + 1,
                          ack |-> FALSE, floor |-> 0, barrier |-> FALSE]
  OBVIOUS
<1> t \in Tab
  <2>1. view.where \in Layout
    BY DEF PinsInv, Shape
  <2> QED
    BY <2>1, ResolvedForm DEF Focus
<1>1. /\ Shape /\ UNCHANGED <<hide, down, native, lost>> /\ up' = Append(up, e)
      /\ e.from = "viewer" /\ e.op = "focus" /\ e.tab = t /\ e.id = requests'
      /\ k.id = requests' /\ k.tab = t /\ k.seq = view.sequence + 1 /\ ~k.ack /\ k.floor = 0
      /\ view' = [view EXCEPT !.sequence = @ + 1] /\ pending' = pending \cup {k}
  BY <1>0 DEF Focus, Navigates, PinsInv
<1>2. Requests(e)
  <2>1. requests' \in Request
    BY ViewConstants DEF PinsInv, Shape, Focus, Navigates, Asks, Request
  <2>2. e \in Message
    BY <1>0, <2>1 DEF Message
  <2> QED
    BY <1>1, <2>2 DEF Requests, Focus, Navigates
<1>3. /\ \A n \in pending : n.id # e.id
      /\ \A h \in hide : h.id # e.id /\ h.id <= requests'
      /\ \A i \in DOMAIN up : up[i].from = "viewer" => up[i].id # e.id
      /\ \A i \in DOMAIN down : Reply(down[i]) => down[i].id # e.id
      /\ e.id \in Request /\ requests' = requests + 1 /\ requests' \in 0 .. MaxRequests
      /\ view.at = "ready"
  BY <1>2, NewID
<1>4. /\ UpShape' /\ Len(up) + 1 \in DOMAIN up' /\ up'[Len(up) + 1] = e
      /\ \A i \in DOMAIN up' : \/ i \in DOMAIN up /\ up'[i] = up[i] /\ i < Len(up) + 1
                               \/ i = Len(up) + 1 /\ up'[i] = e
      /\ \A i \in DOMAIN up : i \in DOMAIN up' /\ i \in Nat
      /\ Len(up) + 1 \in Nat
  BY <1>1, <1>2, Requested DEF Requests
<1>5. view.sequence \in Nat /\ view.sequence <= requests /\ requests \in Nat
  BY <1>1, ViewConstants DEF PinsInv, Tables, Shape
<1>6. /\ view' \in ViewType /\ view'.at = "ready" /\ view'.active = view.active
      /\ view'.requestedActive = view.requestedActive /\ view'.activity = view.activity
      /\ view'.tab = view.tab /\ view'.where = view.where /\ view'.revision = view.revision
      /\ view'.sequence = view.sequence + 1
  <2>1. view.sequence + 1 \in 0 .. MaxRequests
    BY <1>3, <1>5, ViewConstants
  <2> QED
    BY <1>1, <1>3, <2>1 DEF Shape, ViewType
<1>7. Shape'
  <2>1. k \in Navigation
    <3>1. view.sequence + 1 \in Request
      BY <1>3, <1>5, ViewConstants DEF Request
    <3> QED
      BY <1>0, <1>1, <1>3, <3>1 DEF Navigation
  <2> QED
    BY <1>1, <1>3, <1>4, <1>6, <2>1 DEF Shape, UpShape, ViewType
<1>8. Before'
  BY <1>3, <1>6 DEF PinsInv, Before
<1>9. InOrder'
  BY <1>2, RequestsOrder
<1>10. \A n \in pending : /\ n.id \in Nat /\ n.id <= requests /\ n.id # k.id
                          /\ n.seq \in Nat /\ n.seq <= view.sequence /\ n.seq # k.seq
  <2>1. \A n \in pending : n.seq \in Nat /\ n.seq <= view.sequence /\ n.id \in Nat /\ n.id <= requests
    BY <1>1 DEF PinsInv, Tables, Shape, Navigation, Request
  <2> QED
    BY <1>1, <1>3, <1>5, <2>1
<1>11. Tables'
  <2>1. Distinct'
    BY <1>1, <1>10 DEF PinsInv, Tables, Distinct
  <2>2. \A n \in pending' : n.id <= requests' /\ n.seq <= view'.sequence
    BY <1>1, <1>3, <1>5, <1>6, <1>10
  <2>3. \A h \in hide' : h.id <= requests' /\ h.activity <= view'.activity
    BY <1>1, <1>3, <1>6 DEF PinsInv, Tables
  <2>4. \A n \in pending', h \in hide' : n.id # h.id
    BY <1>1, <1>3 DEF PinsInv, Tables
  <2>5. view'.sequence <= requests' /\ view'.activity <= requests'
    BY <1>1, <1>3, <1>5, <1>6 DEF PinsInv, Tables, Shape
  <2> QED
    BY <2>1, <2>2, <2>3, <2>4, <2>5 DEF Tables
<1>12. Hiding'
  <2> SUFFICES ASSUME NEW h \in hide', h.activity = view'.activity PROVE HidesLast(h)'
    BY DEF Hiding
  <2>1. HidesLast(h) /\ h.id # e.id
    BY <1>1, <1>3, <1>6 DEF PinsInv, Hiding
  <2>2. ~Shows(e)
    BY <1>1 DEF Shows
  <2> QED
    BY <1>1, <1>4, <1>6, <2>1, <2>2 DEF HidesLast, Unseen, Shows
<1>13. Visible'
  BY <1>1, <1>4, <1>6 DEF PinsInv, Visible, Unseen, Shows
<1>14. Told'
  BY <1>1, <1>3, <1>4, <1>6 DEF PinsInv, Told, ToldLast
<1>15. Projections'
  BY <1>1, <1>6 DEF PinsInv, Projections, Real
<1>16. \A seq \in Request : Acked(seq) => Acked(seq)'
  BY <1>1, <1>5, <1>6 DEF Acked, Request
<1>17. Barriers'
  <2>1. \A i \in DOMAIN up : up[i].from = "barrier" => up[i].id \in Request
    BY <1>1, MessageForm DEF Shape
  <2>2. \A i \in DOMAIN down : Projected(down[i]) => down[i].id \in Request
    <3>1. \A i \in DOMAIN down : down[i] \in Report
      BY <1>1 DEF Shape
    <3> QED
      BY <3>1, ReportForm DEF Projected
  <2> QED
    BY <1>1, <1>4, <1>16, <2>1, <2>2 DEF PinsInv, Barriers, Projected
<1>18. Once'
  BY <1>1, <1>3, <1>4 DEF PinsInv, Once, Unacked
<1>19. Pinned'
  BY <1>1, <1>4 DEF PinsInv, Pinned, StillPinned, Tracked
<1>20. Moved'
  BY <1>1, <1>6 DEF PinsInv, Moved, Waits, Floors, Answering, Newest
<1> QED
  BY <1>7, <1>8, <1>9, <1>11, <1>12, <1>13, <1>14, <1>15, <1>17, <1>18, <1>19, <1>20 DEF PinsInv

LEMMA FocusUnknownStep == ASSUME PinsInv, NEW d \in Destination, FocusUnknown(d) PROVE PinsInv'
<1>0. PICK e : e = [from |-> "viewer", id |-> requests', op |-> "focus", to |-> d, tab |-> NoTab]
  OBVIOUS
<1>1. /\ Shape /\ UNCHANGED <<view, pending, hide, down, native, lost>> /\ up' = Append(up, e)
      /\ e.from = "viewer" /\ e.op = "focus" /\ e.id = requests'
      /\ ~Tracked(e) /\ ~Shows(e)
  BY <1>0 DEF FocusUnknown, Navigates, PinsInv, Tracked, Shows
<1>2. Requests(e)
  <2>1. requests' \in Request
    BY ViewConstants DEF PinsInv, Shape, FocusUnknown, Navigates, Asks, Request
  <2>2. e \in Message
    BY <1>0, <2>1 DEF Message
  <2> QED
    BY <1>1, <2>2 DEF Requests, FocusUnknown, Navigates
<1>3. /\ \A n \in pending : n.id # e.id
      /\ \A h \in hide : h.id # e.id /\ h.id <= requests'
      /\ \A i \in DOMAIN up : up[i].from = "viewer" => up[i].id # e.id
      /\ requests \in Nat /\ requests' = requests + 1 /\ requests' \in 0 .. MaxRequests
      /\ view.at = "ready"
  BY <1>2, NewID, ViewConstants DEF PinsInv, Shape
<1>4. /\ UpShape' /\ Len(up) + 1 \in DOMAIN up' /\ up'[Len(up) + 1] = e
      /\ \A i \in DOMAIN up' : \/ i \in DOMAIN up /\ up'[i] = up[i] /\ i < Len(up) + 1
                               \/ i = Len(up) + 1 /\ up'[i] = e
      /\ \A i \in DOMAIN up : i \in DOMAIN up' /\ i \in Nat
      /\ Len(up) + 1 \in Nat
  BY <1>1, <1>2, Requested DEF Requests
<1>5. Shape' /\ Before' /\ InOrder'
  BY <1>1, <1>2, <1>3, <1>4, RequestsOrder DEF PinsInv, Shape, UpShape, Before
<1>6. Tables'
  <2>1. \A n \in pending : n.id \in Nat /\ n.id <= requests
    BY <1>1 DEF PinsInv, Tables, Shape, Navigation, Request
  <2>2. view.sequence \in Nat /\ view.activity \in Nat
    BY <1>1 DEF Shape
  <2> QED
    BY <1>1, <1>3, <2>1, <2>2 DEF PinsInv, Tables, Distinct
<1>7. Hiding'
  <2> SUFFICES ASSUME NEW h \in hide', h.activity = view'.activity PROVE HidesLast(h)'
    BY DEF Hiding
  <2>1. HidesLast(h) /\ h.id # e.id
    BY <1>1, <1>3 DEF PinsInv, Hiding
  <2> QED
    BY <1>1, <1>4, <2>1 DEF HidesLast, Unseen
<1>8. Visible' /\ Told'
  BY <1>1, <1>3, <1>4 DEF PinsInv, Visible, Unseen, Told, ToldLast
<1>9. Projections' /\ Barriers' /\ Once' /\ Pinned'
  <2>1. Projections'
    BY <1>1 DEF PinsInv, Projections, Real
  <2>2. Barriers'
    BY <1>1, <1>4 DEF PinsInv, Barriers, Acked
  <2>3. Once'
    BY <1>1, <1>3, <1>4 DEF PinsInv, Once, Unacked
  <2>4. Pinned'
    BY <1>1, <1>4 DEF PinsInv, Pinned, StillPinned, Tracked
  <2> QED
    BY <2>1, <2>2, <2>3, <2>4
<1>10. Moved'
  BY <1>1 DEF PinsInv, Moved, Waits, Floors, Answering, Newest
<1> QED
  BY <1>5, <1>6, <1>7, <1>8, <1>9, <1>10 DEF PinsInv

-----------------------------------------------------------------------------
(* The native shell takes the first request, and answers it with r.           *)
Serves(m, r) ==
  /\ up # <<>> /\ m = Head(up) /\ up' = Tail(up)
  /\ down' = Append(down, r) /\ r \in Report /\ r.kind = "answer" /\ r.from = m.from
  /\ m.from # "activate" => r.id = m.id /\ r.revision = native.revision
  /\ UNCHANGED <<view, pending, hide, requests, lost>>
  /\ native'.moves = native.moves
  /\ \/ native'.revision = native.revision
     \/ native'.revision = native.revision + 1 /\ m.from = "viewer"

LEMMA Taken ==
  ASSUME Shape, up # <<>>, up' = Tail(up)
  PROVE  /\ UpShape' /\ Head(up) = up[1] /\ 1 \in DOMAIN up /\ Head(up) \in Message
         /\ \A i \in DOMAIN up' : i \in Nat /\ i > 0 /\ i + 1 \in DOMAIN up /\ up'[i] = up[i + 1]
         /\ \A i \in DOMAIN up : /\ i \in Nat /\ i > 0
                                 /\ i > 1 => i - 1 \in DOMAIN up' /\ up'[i - 1] = up[i]
<1>1. up \in Seq(Message)
  BY DEF Shape
<1>2. /\ up' \in Seq(Message) /\ Head(up) = up[1] /\ 1 \in DOMAIN up /\ Head(up) \in Message
      /\ \A i \in DOMAIN up' : i \in Nat /\ i > 0 /\ i + 1 \in DOMAIN up /\ up'[i] = up[i + 1]
      /\ \A i \in DOMAIN up : /\ i \in Nat /\ i > 0
                              /\ i > 1 => i - 1 \in DOMAIN up' /\ up'[i - 1] = up[i]
  BY <1>1, Shorter
<1> QED
  BY <1>2 DEF Shape, UpShape

LEMMA Answers ==
  ASSUME Shape, NEW r \in Report, down' = Append(down, r)
  PROVE  /\ down' \in Seq(Report) /\ Len(down) + 1 \in DOMAIN down' /\ down'[Len(down) + 1] = r
         /\ \A i \in DOMAIN down' : \/ i \in DOMAIN down /\ down'[i] = down[i] /\ i < Len(down) + 1
                                    \/ i = Len(down) + 1 /\ down'[i] = r
         /\ \A i \in DOMAIN down : i \in DOMAIN down' /\ i \in Nat
         /\ Len(down) + 1 \in Nat
<1>1. down \in Seq(Report)
  BY DEF Shape
<1> QED
  BY <1>1, Longer

LEMMA ServesOrder == ASSUME PinsInv, NEW m, NEW r, Serves(m, r) PROVE InOrder'
<1>1. Shape /\ requests' = requests /\ requests \in Nat
  BY ViewConstants DEF PinsInv, Serves, Shape
<1>2. /\ m = up[1] /\ 1 \in DOMAIN up /\ m \in Message
      /\ \A i \in DOMAIN up' : i \in Nat /\ i > 0 /\ i + 1 \in DOMAIN up /\ up'[i] = up[i + 1]
  BY <1>1, Taken DEF Serves
<1>3. /\ \A i \in DOMAIN down' : \/ i \in DOMAIN down /\ down'[i] = down[i] /\ i < Len(down) + 1
                                 \/ i = Len(down) + 1 /\ down'[i] = r
      /\ \A i \in DOMAIN down : i \in Nat
      /\ Len(down) + 1 \in Nat
  BY <1>1, Answers DEF Serves
<1>4. PICK c \in 0 .. requests : TakenTo(c)
  BY DEF PinsInv, InOrder
<1>5. /\ c \in Nat /\ c <= requests
      /\ \A i \in DOMAIN up : up[i].from = "viewer" =>
           up[i].id \in Nat /\ c < up[i].id /\ up[i].id <= requests
      /\ \A i \in DOMAIN down : Reply(down[i]) => down[i].id \in Nat /\ down[i].id <= c
  <2>1. \A i \in DOMAIN down : down[i] \in Report
    BY <1>1 DEF Shape
  <2>2. \A i \in DOMAIN up : up[i] \in Message
    BY <1>1 DEF Shape
  <2>3. \A i \in DOMAIN down : Reply(down[i]) => down[i].id \in Nat
    BY <2>1, ReportForm DEF Reply, Request
  <2>4. \A i \in DOMAIN up : up[i].from = "viewer" => up[i].id \in Nat
    BY <2>2, MessageForm DEF Request
  <2> QED
    BY <1>1, <1>4, <2>3, <2>4 DEF TakenTo
<1>6. native.revision \in Nat /\ native.moves \in Nat /\ native.revision <= 1 + native.moves + c
  BY <1>1, <1>4, ViewConstants DEF Shape, Revision, TakenTo
<1>7. \A i, j \in DOMAIN up' :
        i < j /\ up'[i].from = "viewer" /\ up'[j].from = "viewer" => up'[i].id < up'[j].id
  <2> SUFFICES ASSUME NEW i \in DOMAIN up', NEW j \in DOMAIN up', i < j,
                      up'[i].from = "viewer", up'[j].from = "viewer"
               PROVE  up'[i].id < up'[j].id
    OBVIOUS
  <2>1. /\ i + 1 \in DOMAIN up /\ up'[i] = up[i + 1] /\ j + 1 \in DOMAIN up /\ up'[j] = up[j + 1]
        /\ i + 1 < j + 1
    BY <1>2
  <2> QED
    BY <2>1 DEF PinsInv, InOrder
<1>8. CASE m.from = "viewer"
  <2>1. Reply(r) /\ r.id = m.id /\ m.id \in Nat /\ c < m.id /\ m.id <= requests
    BY <1>2, <1>5, <1>8 DEF Serves, Reply
  <2>2. \A i \in DOMAIN up' : up'[i].from = "viewer" => m.id < up'[i].id /\ up'[i].id <= requests
    <3> SUFFICES ASSUME NEW i \in DOMAIN up', up'[i].from = "viewer"
                 PROVE  m.id < up'[i].id /\ up'[i].id <= requests
      OBVIOUS
    <3>1. i + 1 \in DOMAIN up /\ up'[i] = up[i + 1] /\ 1 < i + 1
      BY <1>2
    <3> QED
      BY <1>2, <1>5, <1>8, <3>1 DEF PinsInv, InOrder
  <2>3. \A i \in DOMAIN down' : Reply(down'[i]) => down'[i].id <= m.id
    BY <1>3, <1>5, <2>1
  <2>4. native'.revision <= 1 + native'.moves + m.id
    BY <1>5, <1>6, <2>1 DEF Serves
  <2>5. TakenTo(m.id)'
    <3>1. PICK d : d = m.id
      OBVIOUS
    <3>2. TakenTo(d)'
      BY <1>1, <2>2, <2>3, <2>4, <3>1 DEF TakenTo, Reply
    <3> QED
      BY <3>1, <3>2
  <2>6. \A i, j \in DOMAIN down' :
          i < j /\ Reply(down'[i]) /\ Reply(down'[j]) => down'[i].id < down'[j].id
    <3> SUFFICES ASSUME NEW i \in DOMAIN down', NEW j \in DOMAIN down', i < j,
                        Reply(down'[i]), Reply(down'[j])
                 PROVE  down'[i].id < down'[j].id
      OBVIOUS
    <3>1. i \in DOMAIN down /\ down'[i] = down[i]
      BY <1>3
    <3>2. CASE j \in DOMAIN down /\ down'[j] = down[j]
      BY <3>1, <3>2 DEF PinsInv, InOrder
    <3>3. CASE down'[j] = r
      BY <1>5, <2>1, <3>1, <3>3
    <3> QED
      BY <1>3, <3>2, <3>3
  <2>7. m.id \in 0 .. requests'
    BY <1>1, <2>1
  <2> QED
    BY <1>7, <2>5, <2>6, <2>7 DEF InOrder, Reply
<1>9. CASE m.from # "viewer"
  <2>1. ~Reply(r) /\ native'.revision = native.revision
    BY <1>9 DEF Serves, Reply
  <2>2. TakenTo(c)'
    BY <1>1, <1>2, <1>3, <1>4, <2>1 DEF TakenTo, Serves, Reply
  <2>3. \A i, j \in DOMAIN down' :
          i < j /\ Reply(down'[i]) /\ Reply(down'[j]) => down'[i].id < down'[j].id
    BY <1>3, <2>1 DEF PinsInv, InOrder
  <2> QED
    BY <1>1, <1>4, <1>7, <2>2, <2>3 DEF InOrder, Reply
<1> QED
  BY <1>8, <1>9

LEMMA ServesTables ==
  ASSUME PinsInv, NEW m, NEW r, Serves(m, r)
  PROVE  Tables' /\ Barriers' /\ Once'
<1>1. Shape /\ UNCHANGED <<view, pending, hide, requests, lost>>
  BY DEF PinsInv, Serves
<1>2. /\ m = up[1] /\ 1 \in DOMAIN up
      /\ \A i \in DOMAIN up' : i + 1 \in DOMAIN up /\ up'[i] = up[i + 1]
  BY <1>1, Taken DEF Serves
<1>3. \A i \in DOMAIN down' : (i \in DOMAIN down /\ down'[i] = down[i]) \/ down'[i] = r
  BY <1>1, Answers DEF Serves
<1>4. Tables'
  BY <1>1 DEF PinsInv, Tables, Distinct
<1>5. \A x : (Acked(x)' <=> Acked(x)) /\ (Unacked(x)' <=> Unacked(x))
  BY <1>1 DEF Acked, Unacked
<1>6. (Projected(r) => Acked(r.id)) /\ (Reply(r) => Unacked(r.id))
  BY <1>2 DEF PinsInv, Barriers, Once, Serves, Projected, Reply
<1>7. Barriers'
  BY <1>2, <1>3, <1>5, <1>6 DEF PinsInv, Barriers, Projected
<1>8. Once'
  BY <1>2, <1>3, <1>5, <1>6 DEF PinsInv, Once, Reply
<1> QED
  BY <1>4, <1>7, <1>8

LEMMA ServesPinned ==
  ASSUME PinsInv, NEW m, NEW r, Serves(m, r)
  PROVE  Pinned' /\ Before'
<1>1. Shape /\ UNCHANGED <<view, pending, hide, requests, lost>>
  BY DEF PinsInv, Serves
<1>2. \A i \in DOMAIN up' : i + 1 \in DOMAIN up /\ up'[i] = up[i + 1]
  BY <1>1, Taken DEF Serves
<1>3. Pinned'
  BY <1>1, <1>2 DEF PinsInv, Pinned, StillPinned, Tracked
<1>4. view.at \notin {"new", "hello"}
  BY DEF PinsInv, Before, Serves
<1> QED
  BY <1>1, <1>3, <1>4 DEF PinsInv, Before

(* The last request for visibility is passed on to the native shell.          *)
LEMMA ToldOn ==
  ASSUME Shape, up # <<>>, up' = Tail(up), NEW a, ToldLast(a),
         native'.active = IF Head(up).op = "set" THEN Head(up).active ELSE native.active
  PROVE  ToldLast(a)'
<1>1. /\ Head(up) = up[1] /\ 1 \in DOMAIN up
      /\ \A i \in DOMAIN up' : i \in Nat /\ i > 0 /\ i + 1 \in DOMAIN up /\ up'[i] = up[i + 1]
      /\ \A i \in DOMAIN up : /\ i \in Nat /\ i > 0
                              /\ i > 1 => i - 1 \in DOMAIN up' /\ up'[i - 1] = up[i]
  BY Taken
<1>2. CASE native.active = a /\ \A i \in DOMAIN up : up[i].op # "set"
  BY <1>1, <1>2 DEF ToldLast
<1>3. ASSUME NEW i \in DOMAIN up, up[i].op = "set", up[i].active = a,
             \A j \in DOMAIN up : j > i => up[j].op # "set"
      PROVE  ToldLast(a)'
  <2>1. CASE i = 1
    <3>1. native'.active = a
      BY <1>1, <1>3, <2>1
    <3>2. \A j \in DOMAIN up' : up'[j].op # "set"
      <4> SUFFICES ASSUME NEW j \in DOMAIN up' PROVE up'[j].op # "set"
        OBVIOUS
      <4>1. j + 1 \in DOMAIN up /\ j + 1 > 1 /\ up'[j] = up[j + 1]
        BY <1>1
      <4> QED
        BY <1>3, <2>1, <4>1
    <3> QED
      BY <3>1, <3>2 DEF ToldLast
  <2>2. CASE i # 1
    <3>1. i \in Nat /\ i > 1 /\ i - 1 \in DOMAIN up' /\ up'[i - 1] = up[i]
      BY <1>1, <2>2
    <3>2. \A j \in DOMAIN up' : j > i - 1 => up'[j].op # "set"
      <4> SUFFICES ASSUME NEW j \in DOMAIN up', j > i - 1 PROVE up'[j].op # "set"
        OBVIOUS
      <4>1. j + 1 \in DOMAIN up /\ j + 1 > i /\ up'[j] = up[j + 1]
        BY <1>1, <3>1
      <4> QED
        BY <1>3, <4>1
    <3> QED
      BY <1>3, <3>1, <3>2 DEF ToldLast
  <2> QED
    BY <2>1, <2>2
<1> QED
  BY <1>2, <1>3 DEF ToldLast

(* The navigation that the native shell has moved to stays pinned when it     *)
(* sends something.                                                           *)
LEMMA MovedSends ==
  ASSUME Shape, UNCHANGED <<view, pending, lost>>, Moved,
         native'.since = native.since, native'.tab = native.tab, native'.by = native.by,
         NEW r \in Report, down' = Append(down, r),
         Shot(r) \/ Projected(r) => r.revision >= native.since
  PROVE  Moved'
<1>1. /\ \A i \in DOMAIN down' : (i \in DOMAIN down /\ down'[i] = down[i]) \/ down'[i] = r
      /\ \A i \in DOMAIN down : i \in DOMAIN down'
      /\ \A i \in DOMAIN down : down'[i] = down[i]
  <2>1. \A i \in DOMAIN down : i # Len(down) + 1
    BY DEF Shape
  <2> QED
    BY <2>1, Answers
<1>2. \A k : Newest(k) => Newest(k)'
  BY <1>1 DEF Newest, Shot
<1>3. \A n : Floors(n) => Floors(n)'
  BY <1>1 DEF Floors, Projected
<1>4. \A n : Answering(n) => Answering(n)'
  BY <1>1, <1>2 DEF Answering, Reply
<1> QED
  BY <1>2, <1>3, <1>4 DEF Moved, Waits

LEMMA RevisionsAreNumbers ==
  ASSUME Shape
  PROVE  /\ view.revision \in Nat /\ native.revision \in Nat /\ native.since \in Nat
         /\ \A i \in DOMAIN down : Shot(down[i]) => down[i].revision \in Nat
<1>1. \A i \in DOMAIN down : down[i] \in Report
  BY DEF Shape
<1>2. \A i \in DOMAIN down : Shot(down[i]) => down[i].revision \in Revision
  BY <1>1, ReportForm DEF Shot
<1>3. \A x \in Revision : x \in Nat
  BY ViewConstants DEF Revision
<1>4. view.revision \in Nat /\ native.revision \in Nat /\ native.since \in Nat
  BY ViewConstants DEF Shape, Revision
<1> QED
  BY <1>2, <1>3, <1>4

(* A new projection, of the same tab or of another one.                       *)
LEMMA ProjectsForm ==
  ASSUME Shape, NEW t \in Tab, NEW layout \in Layouts, NEW by \in Request \cup {-1},
         native.revision + 1 \in Revision,
         NEW new, new = Projects(t, layout, by)
  PROVE  /\ new \in NativeType /\ new.active = native.active /\ new.tab = t
         /\ new.where = layout /\ new.revision = native.revision + 1
         /\ new.moves = native.moves /\ new.refused = native.refused
         /\ t = native.tab => new.by = native.by /\ new.since = native.since
         /\ t # native.tab => new.by = by /\ new.since = native.revision + 1
BY DEF Projects, Shape, NativeType

LEMMA ProjectsProjections ==
  ASSUME PinsInv, UNCHANGED view, native'.revision = native.revision + 1,
         \/ native'.tab = native.tab /\ native'.by = native.by /\ native'.since = native.since
         \/ native'.by # 0 /\ native'.since = native.revision + 1,
         \A i \in DOMAIN down' : Shot(down'[i]) => i \in DOMAIN down /\ down'[i] = down[i]
  PROVE  Projections'
<1>1. /\ view.revision \in Nat /\ native.revision \in Nat /\ native.since \in Nat
      /\ \A i \in DOMAIN down : Shot(down[i]) => down[i].revision \in Nat
  BY RevisionsAreNumbers DEF PinsInv
<1>2. ASSUME NEW tab, NEW where, NEW x \in Nat, Real(tab, where, x) PROVE Real(tab, where, x)'
  <2>1. x <= native.revision /\ (x >= native.since => tab = native.tab)
    BY <1>2 DEF Real
  <2>2. x <= native'.revision /\ x # native'.revision /\ ~(x >= native.revision + 1)
    BY <1>1, <2>1
  <2> QED
    BY <2>1, <2>2 DEF Real
<1>3. Real(view.tab, view.where, view.revision)'
  <2>1. PICK tab, where, x : tab = view.tab /\ where = view.where /\ x = view.revision
    OBVIOUS
  <2>2. Real(tab, where, x)
    BY <2>1 DEF PinsInv, Projections
  <2>3. Real(tab, where, x)'
    BY <1>1, <1>2, <2>1, <2>2
  <2> QED
    BY <2>1, <2>3
<1>4. ASSUME NEW i \in DOMAIN down', Shot(down'[i])
      PROVE  Real(down[i].tab, down[i].where, down[i].revision)'
  <2>1. PICK tab, where, x :
          tab = down'[i].tab /\ where = down'[i].where /\ x = down'[i].revision
    OBVIOUS
  <2>2. i \in DOMAIN down /\ down'[i] = down[i] /\ Shot(down[i])
    BY <1>4 DEF Shot
  <2>3. Real(tab, where, x) /\ x \in Nat
    BY <1>1, <2>1, <2>2 DEF PinsInv, Projections
  <2>4. Real(tab, where, x)'
    BY <1>2, <2>3
  <2> QED
    BY <2>1, <2>4
<1>5. native'.since <= native'.revision /\ (native'.by = 0 => native'.since = 1)
  BY <1>1 DEF PinsInv, Projections
<1> QED
  BY <1>3, <1>4, <1>5 DEF Projections, Shot

LEMMA TakesStep == PinsInv /\ NativeTakes => PinsInv'
<1> SUFFICES ASSUME PinsInv, NativeTakes PROVE PinsInv'
  OBVIOUS
<1>1. PICK m, r : m = Head(up) /\ r = Answer(m, TRUE)
  OBVIOUS
<1>2. /\ Shape /\ up # <<>> /\ up' = Tail(up)
      /\ UNCHANGED <<view, pending, hide, requests, lost>> /\ down' = Append(down, r)
      /\ \/ m.op = "set" /\ native' = [native EXCEPT !.active = m.active]
         \/ /\ m.op = "focus"
            /\ \E t \in Tab, layout \in Layouts :
                 native' = Projects(t, layout, IF t = m.tab THEN m.id ELSE -1)
  BY <1>1 DEF NativeTakes, PinsInv, HasPane
<1>3. /\ UpShape' /\ m = up[1] /\ 1 \in DOMAIN up /\ m \in Message
      /\ \A i \in DOMAIN up' : i \in Nat /\ i > 0 /\ i + 1 \in DOMAIN up /\ up'[i] = up[i + 1]
  BY <1>1, <1>2, Taken
<1>4. /\ m.from \in {"viewer", "barrier", "activate"} /\ m.op \in {"focus", "set"}
      /\ m.from # "activate" => m.id \in Request
      /\ m.op = "set" => m.active \in BOOLEAN
      /\ m.op = "focus" => m.from = "viewer"
  BY <1>2, <1>3, MessageForm DEF Shape
<1>5. /\ r \in Report /\ r.kind = "answer" /\ r.from = m.from /\ r.ok
      /\ m.from # "activate" => r.id = m.id /\ r.revision = native.revision
  <2>1. native.revision \in Revision
    BY <1>2 DEF Shape
  <2> QED
    BY <1>1, <1>4, <2>1 DEF Answer, Report
<1>6. /\ down' \in Seq(Report) /\ Len(down) + 1 \in DOMAIN down' /\ down'[Len(down) + 1] = r
      /\ \A i \in DOMAIN down' : \/ i \in DOMAIN down /\ down'[i] = down[i] /\ i < Len(down) + 1
                                 \/ i = Len(down) + 1 /\ down'[i] = r
      /\ \A i \in DOMAIN down : i \in DOMAIN down' /\ i \in Nat
      /\ Len(down) + 1 \in Nat
  BY <1>2, <1>5, Answers
<1>7. m.op = "set" => /\ native' \in NativeType /\ native'.active = m.active
                      /\ native'.tab = native.tab /\ native'.where = native.where
                      /\ native'.revision = native.revision /\ native'.since = native.since
                      /\ native'.by = native.by /\ native'.moves = native.moves
                      /\ native'.refused = native.refused
  BY <1>2, <1>4 DEF Shape, NativeType
<1>8. native.revision \in Nat /\ native.moves \in Nat /\ native.moves <= MaxMoves
  BY <1>2, ViewConstants DEF Shape, Revision
<1>9. m.op = "focus" => native.revision + 1 \in Revision
  <2> SUFFICES ASSUME m.op = "focus" PROVE native.revision + 1 \in Revision
    OBVIOUS
  <2>1. PICK c \in 0 .. requests : TakenTo(c)
    BY DEF PinsInv, InOrder
  <2>2. native.revision <= 1 + native.moves + c /\ c < m.id
    BY <1>3, <1>4, <2>1 DEF TakenTo
  <2>3. m.id \in Nat /\ m.id <= MaxRequests /\ c \in Nat
    BY <1>2, <1>4, <2>1, ViewConstants DEF Shape, Request
  <2> QED
    BY <1>8, <2>2, <2>3, ViewConstants DEF Revision
<1>10. m.op = "focus" =>
         /\ native' \in NativeType /\ native'.active = native.active
         /\ native'.revision = native.revision + 1
         /\ native'.moves = native.moves /\ native'.refused = native.refused
         /\ \/ native'.tab = native.tab /\ native'.by = native.by /\ native'.since = native.since
            \/ /\ native'.since = native.revision + 1
               /\ native'.by = -1 \/ (native'.by = m.id /\ native'.tab = m.tab)
  <2> SUFFICES ASSUME m.op = "focus"
               PROVE  /\ native' \in NativeType /\ native'.active = native.active
                      /\ native'.revision = native.revision + 1
                      /\ native'.moves = native.moves /\ native'.refused = native.refused
                      /\ \/ /\ native'.tab = native.tab /\ native'.by = native.by
                            /\ native'.since = native.since
                         \/ /\ native'.since = native.revision + 1
                            /\ native'.by = -1 \/ (native'.by = m.id /\ native'.tab = m.tab)
    OBVIOUS
  <2>1. PICK t \in Tab, layout \in Layouts :
          native' = Projects(t, layout, IF t = m.tab THEN m.id ELSE -1)
    BY <1>2
  <2>2. PICK by : by = IF t = m.tab THEN m.id ELSE -1
    OBVIOUS
  <2>3. by \in Request \cup {-1} /\ (by = -1 \/ (by = m.id /\ t = m.tab))
    BY <1>4, <2>2
  <2>4. /\ native' \in NativeType /\ native'.active = native.active /\ native'.tab = t
        /\ native'.revision = native.revision + 1
        /\ native'.moves = native.moves /\ native'.refused = native.refused
        /\ t = native.tab => native'.by = native.by /\ native'.since = native.since
        /\ t # native.tab => native'.by = by /\ native'.since = native.revision + 1
    BY <1>2, <1>9, <2>1, <2>2, <2>3, ProjectsForm
  <2> QED
    BY <2>3, <2>4
<1>11. Shape'
  BY <1>2, <1>3, <1>4, <1>6, <1>7, <1>10 DEF Shape, UpShape, NativeType
<1>12. Serves(m, r)
  BY <1>1, <1>2, <1>4, <1>5, <1>7, <1>10 DEF Serves
<1>13. native'.active => native.active \/ Shows(m)
  BY <1>4, <1>7, <1>10 DEF Shows
<1>14. Unseen => Unseen'
  BY <1>3, <1>11, <1>13 DEF Unseen, Shape
<1>15. Hiding'
  <2> SUFFICES ASSUME NEW h \in hide', h.activity = view'.activity PROVE HidesLast(h)'
    BY DEF Hiding
  <2>1. HidesLast(h)
    BY <1>2 DEF PinsInv, Hiding
  <2>2. ASSUME NEW i \in DOMAIN up', up'[i].from = "viewer", up'[i].id = h.id
        PROVE  ~Shows(up'[i]) /\ up'[i].op = "set" /\ \A j \in DOMAIN up' : j > i => ~Shows(up'[j])
    <3>1. i + 1 \in DOMAIN up /\ up'[i] = up[i + 1] /\ i \in Nat
      BY <1>3
    <3>2. \A j \in DOMAIN up' : j > i => j + 1 > i + 1 /\ j + 1 \in DOMAIN up /\ up'[j] = up[j + 1]
      BY <1>3, <3>1
    <3> QED
      BY <2>1, <2>2, <3>1, <3>2 DEF HidesLast
  <2>3. ASSUME Reply(r), r.id = h.id PROVE Unseen'
    <3>1. m.from = "viewer" /\ m.id = h.id
      BY <1>5, <2>3 DEF Reply
    <3>2. m.op = "set" /\ ~Shows(m) /\ \A j \in DOMAIN up : j > 1 => ~Shows(up[j])
      BY <1>3, <2>1, <3>1 DEF HidesLast
    <3>3. ~native'.active
      BY <1>7, <3>2 DEF Shows
    <3>4. \A j \in DOMAIN up' : ~Shows(up'[j])
      <4> SUFFICES ASSUME NEW j \in DOMAIN up' PROVE ~Shows(up'[j])
        OBVIOUS
      <4>1. j + 1 \in DOMAIN up /\ up'[j] = up[j + 1] /\ j + 1 > 1
        BY <1>3
      <4> QED
        BY <3>2, <4>1
    <3> QED
      BY <3>3, <3>4 DEF Unseen
  <2>4. (\E k \in DOMAIN down' : Reply(down'[k]) /\ down'[k].id = h.id /\ down'[k].ok) => Unseen'
    BY <1>6, <1>14, <2>1, <2>3 DEF HidesLast
  <2> QED
    BY <1>2, <2>1, <2>2, <2>4 DEF HidesLast, Shows, Reply
<1>16. Visible'
  BY <1>2, <1>14 DEF PinsInv, Visible
<1>17. Told'
  <2> SUFFICES ASSUME view'.at = "ready", ~native'.refused, NEW a, a = view'.requestedActive
               PROVE  ToldLast(a)'
    BY DEF Told
  <2>1. ToldLast(a)
    BY <1>2, <1>4, <1>7, <1>10 DEF PinsInv, Told
  <2>2. native'.active = IF m.op = "set" THEN m.active ELSE native.active
    BY <1>4, <1>7, <1>10
  <2> QED
    BY <1>1, <1>2, <2>1, <2>2, ToldOn
<1>18. CASE m.op = "set"
  <2>1. Projections'
    <3>1. Projections /\ ~Shot(r)
      BY <1>5 DEF PinsInv, Shot
    <3>2. /\ native'.tab = native.tab /\ native'.where = native.where
          /\ native'.revision = native.revision /\ native'.since = native.since
          /\ native'.by = native.by /\ view' = view
      BY <1>2, <1>7, <1>18
    <3>3. \A i \in DOMAIN down' : Shot(down'[i]) => i \in DOMAIN down /\ down'[i] = down[i]
      BY <1>6, <3>1
    <3> QED
      BY <3>1, <3>2, <3>3 DEF Projections, Real
  <2>2. Shot(r) \/ Projected(r) => r.revision >= native.since
    BY <1>2, <1>5, <1>8, RevisionsAreNumbers DEF PinsInv, Projections, Shot, Projected
  <2>3. Moved'
    BY <1>2, <1>5, <1>7, <1>18, <2>2, MovedSends DEF PinsInv
  <2> QED
    BY <2>1, <2>3, <1>11, <1>12, <1>15, <1>16, <1>17, ServesOrder, ServesTables, ServesPinned DEF PinsInv
<1>19. CASE m.op = "focus"
  <2>1. ~Shot(r) /\ ~Projected(r) /\ -1 # 0 /\ m.id # 0 /\ m.id \in Request
    BY <1>4, <1>5, <1>19 DEF Shot, Projected, Request
  <2>2. Projections'
    <3>1. \A i \in DOMAIN down' : Shot(down'[i]) => i \in DOMAIN down /\ down'[i] = down[i]
      BY <1>6, <2>1
    <3> QED
      BY <1>2, <1>10, <1>19, <2>1, <3>1, ProjectsProjections
  <2>3. native'.tab = native.tab /\ native'.by = native.by /\ native'.since = native.since => Moved'
    BY <1>2, <1>5, <2>1, MovedSends DEF PinsInv
  <2>4. native'.by = -1 => Moved'
    BY DEF Moved, Request
  <2>5. ASSUME native'.by = m.id, native'.tab = m.tab PROVE Moved'
    <3>1. StillPinned(m)
      <4>1. native'.tab # NoTab
        BY <1>10, <1>19, ViewConstants DEF NativeType
      <4> QED
        BY <1>3, <1>19, <2>5, <4>1 DEF PinsInv, Pinned, Tracked
    <3>2. m.id \in lost => Moved'
      BY <1>2, <2>5 DEF Moved
    <3>3. ASSUME NEW n \in pending, n.id = m.id, n.tab = m.tab, ~n.ack, n.floor = 0
          PROVE  Waits(n)'
      <4>1. \A i \in DOMAIN down : Projected(down[i]) => down[i].id # n.seq
        BY <3>3 DEF PinsInv, Barriers, Acked
      <4>3. Floors(n)'
        BY <1>6, <2>1, <3>3, <4>1 DEF Floors, Projected
      <4>4. PICK k \in DOMAIN down' : down'[k] = r /\ \A j \in DOMAIN down' : ~ (j > k)
        BY <1>6
      <4>5. Newest(k)'
        BY <4>4 DEF Newest
      <4>6. Answering(n)'
        BY <1>4, <1>5, <1>19, <3>3, <4>4, <4>5 DEF Answering, Reply
      <4> QED
        BY <2>5, <3>3, <4>3, <4>6 DEF Waits
    <3> QED
      BY <1>2, <2>5, <3>1, <3>2, <3>3 DEF StillPinned, Moved
  <2>6. Moved'
    BY <1>10, <1>19, <2>3, <2>4, <2>5
  <2> QED
    BY <2>2, <2>6, <1>11, <1>12, <1>15, <1>16, <1>17, ServesOrder, ServesTables, ServesPinned DEF PinsInv
<1> QED
  BY <1>4, <1>18, <1>19

LEMMA RefusesStep == PinsInv /\ NativeRefuses => PinsInv'
<1> SUFFICES ASSUME PinsInv, NativeRefuses PROVE PinsInv'
  OBVIOUS
<1>1. PICK m, r : m = Head(up) /\ r = Answer(m, FALSE)
  OBVIOUS
<1>2. /\ Shape /\ up # <<>> /\ up' = Tail(up) /\ m.from = "viewer"
      /\ UNCHANGED <<view, pending, hide, requests, lost>> /\ down' = Append(down, r)
      /\ native' = [native EXCEPT !.refused = @ \/ m.op = "set"]
  BY <1>1 DEF NativeRefuses, PinsInv
<1>3. /\ UpShape' /\ m = up[1] /\ 1 \in DOMAIN up /\ m \in Message
      /\ \A i \in DOMAIN up' : i \in Nat /\ i > 0 /\ i + 1 \in DOMAIN up /\ up'[i] = up[i + 1]
  BY <1>1, <1>2, Taken
<1>4. m.op \in {"focus", "set"} /\ m.id \in Request
  BY <1>2, <1>3, MessageForm
<1>5. /\ r \in Report /\ r.kind = "answer" /\ r.from = "viewer" /\ ~r.ok
      /\ r.id = m.id /\ r.revision = native.revision
  <2>1. native.revision \in Revision
    BY <1>2 DEF Shape
  <2> QED
    BY <1>1, <1>2, <1>4, <2>1 DEF Answer, Report
<1>6. /\ down' \in Seq(Report)
      /\ \A i \in DOMAIN down' : (i \in DOMAIN down /\ down'[i] = down[i]) \/ down'[i] = r
  BY <1>2, <1>5, Answers
<1>7. /\ native' \in NativeType /\ native'.active = native.active
      /\ native'.tab = native.tab /\ native'.where = native.where
      /\ native'.revision = native.revision /\ native'.since = native.since
      /\ native'.by = native.by /\ native'.moves = native.moves
      /\ native'.refused = (native.refused \/ m.op = "set")
  BY <1>2 DEF Shape, NativeType
<1>8. Shape'
  BY <1>2, <1>3, <1>6, <1>7 DEF Shape, UpShape, NativeType
<1>9. Serves(m, r)
  BY <1>1, <1>2, <1>5, <1>7 DEF Serves
<1>10. Unseen => Unseen'
  BY <1>3, <1>7 DEF Unseen
<1>11. Hiding'
  <2> SUFFICES ASSUME NEW h \in hide', h.activity = view'.activity PROVE HidesLast(h)'
    BY DEF Hiding
  <2>1. HidesLast(h)
    BY <1>2 DEF PinsInv, Hiding
  <2>2. ASSUME NEW i \in DOMAIN up', up'[i].from = "viewer", up'[i].id = h.id
        PROVE  ~Shows(up'[i]) /\ up'[i].op = "set" /\ \A j \in DOMAIN up' : j > i => ~Shows(up'[j])
    <3>1. i + 1 \in DOMAIN up /\ up'[i] = up[i + 1] /\ i \in Nat
      BY <1>3
    <3>2. \A j \in DOMAIN up' : j > i => j + 1 > i + 1 /\ j + 1 \in DOMAIN up /\ up'[j] = up[j + 1]
      BY <1>3, <3>1
    <3> QED
      BY <2>1, <2>2, <3>1, <3>2 DEF HidesLast
  <2>3. (\E k \in DOMAIN down' : Reply(down'[k]) /\ down'[k].id = h.id /\ down'[k].ok) => Unseen'
    BY <1>5, <1>6, <1>10, <2>1 DEF HidesLast
  <2> QED
    BY <1>2, <2>1, <2>2, <2>3 DEF HidesLast, Shows, Reply
<1>12. Visible'
  BY <1>2, <1>10 DEF PinsInv, Visible
<1>13. Told'
  <2> SUFFICES ASSUME view'.at = "ready", ~native'.refused, NEW a, a = view'.requestedActive
               PROVE  ToldLast(a)'
    BY DEF Told
  <2>1. ToldLast(a) /\ m.op # "set"
    BY <1>2, <1>7 DEF PinsInv, Told
  <2> QED
    BY <1>1, <1>2, <1>7, <2>1, ToldOn
<1>14. Projections'
  BY <1>2, <1>5, <1>6, <1>7 DEF PinsInv, Projections, Real, Shot
<1>15. Moved'
  <2>1. ~Shot(r) /\ ~Projected(r)
    BY <1>5 DEF Shot, Projected
  <2> QED
    BY <1>2, <1>5, <1>7, <2>1, MovedSends DEF PinsInv
<1> QED
  BY <1>8, <1>9, <1>11, <1>12, <1>13, <1>14, <1>15, ServesOrder, ServesTables, ServesPinned DEF PinsInv

LEMMA MovesStep == PinsInv /\ NativeMoves => PinsInv'
<1> SUFFICES ASSUME PinsInv, NativeMoves PROVE PinsInv'
  OBVIOUS
<1>1. PICK t \in Tab, layout \in Layouts :
        native' = [Projects(t, layout, -1) EXCEPT !.moves = @ + 1]
  BY DEF NativeMoves
<1>2. /\ Shape /\ native.moves < MaxMoves
      /\ UNCHANGED <<view, pending, hide, up, down, requests, lost>>
  BY DEF NativeMoves, PinsInv
<1>3. PICK c \in 0 .. requests : TakenTo(c)
  BY DEF PinsInv, InOrder
<1>4. /\ native.revision \in Nat /\ native.moves \in Nat /\ c \in Nat /\ c <= MaxRequests
      /\ native.revision <= 1 + native.moves + c /\ native.revision > 0
  BY <1>2, <1>3, ViewConstants DEF Shape, Revision, TakenTo
<1>5. native.revision + 1 \in Revision /\ native.moves + 1 \in 0 .. MaxMoves
  BY <1>2, <1>4, ViewConstants DEF Revision
<1>6. /\ native' \in NativeType /\ native'.active = native.active
      /\ native'.revision = native.revision + 1
      /\ native'.moves = native.moves + 1 /\ native'.refused = native.refused
      /\ \/ native'.tab = native.tab /\ native'.by = native.by /\ native'.since = native.since
         \/ native'.by = -1 /\ native'.since = native.revision + 1
  <2>1. PICK new : new = Projects(t, layout, -1)
    OBVIOUS
  <2>2. /\ new \in NativeType /\ new.active = native.active /\ new.tab = t
        /\ new.revision = native.revision + 1
        /\ new.moves = native.moves /\ new.refused = native.refused
        /\ t = native.tab => new.by = native.by /\ new.since = native.since
        /\ t # native.tab => new.by = -1 /\ new.since = native.revision + 1
    BY <1>2, <1>5, <2>1, ProjectsForm
  <2>3. native' = [new EXCEPT !.moves = @ + 1]
    BY <1>1, <2>1
  <2> QED
    BY <1>5, <2>2, <2>3 DEF NativeType
<1>7. Shape' /\ Before'
  BY <1>2, <1>6 DEF PinsInv, Shape, NativeType, Before
<1>8. TakenTo(c)'
  BY <1>2, <1>3, <1>4, <1>6 DEF TakenTo
<1>9. InOrder' /\ Tables'
  BY <1>2, <1>3, <1>8 DEF PinsInv, InOrder, Tables, Distinct
<1>10. Hiding' /\ Visible' /\ Told'
  BY <1>2, <1>6 DEF PinsInv, Hiding, HidesLast, Visible, Unseen, Told, ToldLast
<1>11. Projections'
  <2>1. -1 # 0
    OBVIOUS
  <2> QED
    BY <1>2, <1>6, <2>1, ProjectsProjections
<1>12. Barriers' /\ Once' /\ Pinned'
  BY <1>2 DEF PinsInv, Barriers, Acked, Once, Unacked, Pinned, StillPinned
<1>13. Moved'
  <2>1. CASE native'.by = -1
    BY <2>1 DEF Moved, Request
  <2>2. CASE native'.tab = native.tab /\ native'.by = native.by /\ native'.since = native.since
    BY <1>2, <2>2 DEF PinsInv, Moved, Waits, Floors, Answering, Newest
  <2> QED
    BY <1>6, <2>1, <2>2
<1> QED
  BY <1>7, <1>9, <1>10, <1>11, <1>12, <1>13 DEF PinsInv

LEMMA ShowsStep == PinsInv /\ NativeShows => PinsInv'
<1> SUFFICES ASSUME PinsInv, NativeShows PROVE PinsInv'
  OBVIOUS
<1>1. PICK r : r = [kind |-> "snapshot", tab |-> native.tab, where |-> native.where,
                    revision |-> native.revision]
  OBVIOUS
<1>2. /\ Shape /\ view.at \in {"hello", "ready"} /\ native' = [native EXCEPT !.sent = native.revision]
      /\ down' = Append(down, r) /\ UNCHANGED <<view, pending, hide, up, requests, lost>>
  BY <1>1 DEF NativeShows, Runs, PinsInv
<1>3. /\ r \in Report /\ r.kind = "snapshot" /\ r.tab = native.tab
      /\ r.where = native.where /\ r.revision = native.revision
      /\ native.revision \in Nat
  <2>1. native.where \in Layout
    BY <1>2, ViewConstants DEF Shape, Layout
  <2> QED
    BY <1>1, <1>2, <2>1, ViewConstants DEF Shape, Report, Revision
<1>4. /\ down' \in Seq(Report)
      /\ \A i \in DOMAIN down' : (i \in DOMAIN down /\ down'[i] = down[i]) \/ down'[i] = r
      /\ \A i \in DOMAIN down' : Reply(down'[i]) \/ Projected(down'[i]) =>
           i \in DOMAIN down /\ down'[i] = down[i]
  BY <1>2, <1>3, Answers DEF Reply, Projected
<1>5. /\ native' \in NativeType /\ native'.active = native.active
      /\ native'.tab = native.tab /\ native'.where = native.where
      /\ native'.revision = native.revision /\ native'.since = native.since
      /\ native'.by = native.by /\ native'.moves = native.moves
      /\ native'.refused = native.refused
  BY <1>2 DEF Shape, NativeType
<1>6. Shape' /\ Before'
  BY <1>2, <1>4, <1>5 DEF PinsInv, Shape, NativeType, Before
<1>7. InOrder'
  <2>1. PICK c \in 0 .. requests : TakenTo(c)
    BY DEF PinsInv, InOrder
  <2>2. TakenTo(c)'
    BY <1>2, <1>4, <1>5, <2>1 DEF TakenTo, Reply
  <2>3. \A i, j \in DOMAIN down' :
          i < j /\ Reply(down'[i]) /\ Reply(down'[j]) => down'[i].id < down'[j].id
    BY <1>4 DEF PinsInv, InOrder
  <2> QED
    BY <1>2, <2>1, <2>2, <2>3 DEF PinsInv, InOrder, Reply
<1>8. Tables' /\ Visible' /\ Told'
  BY <1>2, <1>5 DEF PinsInv, Tables, Distinct, Visible, Unseen, Told, ToldLast
<1>9. Hiding'
  BY <1>2, <1>4, <1>5 DEF PinsInv, Hiding, HidesLast, Unseen, Reply
<1>10. Projections'
  BY <1>2, <1>3, <1>4, <1>5 DEF PinsInv, Projections, Real, Shot
<1>11. Barriers' /\ Once'
  BY <1>2, <1>4 DEF PinsInv, Barriers, Acked, Once, Unacked, Projected, Reply
<1>12. Pinned'
  BY <1>2 DEF PinsInv, Pinned, StillPinned, Tracked
<1>13. Moved'
  <2>1. r.revision >= native.since
    BY <1>2, <1>3, RevisionsAreNumbers DEF PinsInv, Projections
  <2> QED
    BY <1>2, <1>3, <1>5, <2>1, MovedSends DEF PinsInv
<1> QED
  BY <1>6, <1>7, <1>8, <1>9, <1>10, <1>11, <1>12, <1>13 DEF PinsInv

LEMMA SizeViewStep == PinsInv /\ [Next]_vars => PinsInv'
<1> SUFFICES ASSUME PinsInv, [Next]_vars PROVE PinsInv'
  OBVIOUS
<1>1. CASE Next
  BY <1>1, HelloStep, EndsStep, ServerFrameStep, SurfaceStep, FocusStep, FocusUnknownStep,
     TakesStep, RefusesStep, MovesStep, ShowsStep DEF Next
<1>2. CASE UNCHANGED vars
  <2>1. UNCHANGED <<view, pending, hide, up, down, native, requests, lost>>
    BY <1>2 DEF vars
  <2>2. Shape' /\ Before'
    BY <2>1 DEF PinsInv, Shape, Before
  <2>3. InOrder' /\ Tables'
    BY <2>1 DEF PinsInv, InOrder, TakenTo, Tables, Distinct
  <2>4. Hiding' /\ Visible' /\ Told' /\ Projections'
    BY <2>1 DEF PinsInv, Hiding, HidesLast, Unseen, Visible, Told, ToldLast, Projections, Real
  <2>5. Barriers' /\ Once' /\ Pinned' /\ Moved'
    BY <2>1 DEF PinsInv, Barriers, Acked, Once, Unacked, Pinned, StillPinned, Moved, Waits, Floors,
                Answering, Newest
  <2> QED
    BY <2>2, <2>3, <2>4, <2>5 DEF PinsInv
<1> QED
  BY <1>1, <1>2

LEMMA SizeViewInvariant == Spec => []PinsInv
BY SizeViewInit, SizeViewStep, PTL DEF Spec

(* The variables of a stream keep their types: a revision counts the          *)
(* navigations that the native shell took and its own moves, so it is bounded *)
(* by the requests (InOrder).                                                 *)
THEOREM ViewTypeCorrect == Spec => []TypeOK
<1>1. PinsInv => TypeOK
  <2> SUFFICES ASSUME Shape PROVE TypeOK
    BY DEF PinsInv
  <2>1. \A i \in DOMAIN up : up[i] \in Message
    BY DEF Shape
  <2> QED
    BY <2>1 DEF Shape, TypeOK, Layout
<1> QED
  BY <1>1, SizeViewInvariant, PTL

(* For any tabs and any number of requests: Bee's own requests for visibility *)
(* never undo the viewer's (sizing.go, clientFrame and serverFrame).          *)
THEOREM BarriersAlwaysKeepVisibility == Spec => []BarriersKeepVisibility
<1>1. PinsInv => BarriersKeepVisibility
  <2> SUFFICES ASSUME PinsInv, view.at = "ready", ~native.refused
               PROVE  LastSet = view.requestedActive
    BY DEF BarriersKeepVisibility
  <2> DEFINE sets == {i \in DOMAIN up : up[i].op = "set"}
             Last(i) == \A j \in sets : j <= i
  <2>1. ToldLast(view.requestedActive)
    BY DEF PinsInv, Told
  <2>2. LastSet = IF sets = {} THEN native.active ELSE up[CHOOSE i \in sets : Last(i)].active
    BY DEF LastSet
  <2>3. CASE native.active = view.requestedActive /\ \A i \in DOMAIN up : up[i].op # "set"
    BY <2>2, <2>3
  <2>4. ASSUME NEW i \in DOMAIN up, up[i].op = "set", up[i].active = view.requestedActive,
               \A j \in DOMAIN up : j > i => up[j].op # "set"
        PROVE  LastSet = view.requestedActive
    <3>1. sets \subseteq Nat
      BY DEF PinsInv, Shape
    <3>2. i \in sets /\ Last(i)
      BY <2>4, <3>1
    <3> DEFINE k == CHOOSE k \in sets : Last(k)
    <3>3. k \in sets /\ Last(k)
      BY <3>2
    <3>4. k = i
      BY <3>1, <3>2, <3>3
    <3>5. sets # {}
      BY <3>2
    <3> HIDE DEF sets, Last
    <3> QED
      BY <2>2, <2>4, <3>4, <3>5
  <2> QED
    BY <2>1, <2>3, <2>4 DEF ToldLast
<1> QED
  BY <1>1, SizeViewInvariant, PTL

(* For any session, any number of requests, and every order of requests,      *)
(* answers and late snapshots (sizing.go, clientFrame, serverFrame and        *)
(* reconcile): a pane that the native shell shows is pinned, by the tab of the *)
(* last snapshot or by the navigation that took the shell there, which stays  *)
(* pending until that snapshot, unless Bee's snapshot is older than what is   *)
(* shown and either could not tell where the shell would go or does not have  *)
(* the pane in that tab.                                                      *)
THEOREM ShownAlwaysPinned == Spec => []ShownIsPinned
<1>1. PinsInv => ShownIsPinned
  <2> SUFFICES ASSUME PinsInv, view.at # "over", native.active,
                      NEW p \in Pane, native.where[p] = native.tab, ~MovedIn(p)
               PROVE  view.active /\ (p \in Held \/ Strange)
    BY DEF ShownIsPinned, PinsInv, Visible, Unseen
  <2>1. view.active /\ view.revision > 0
    BY DEF PinsInv, Visible, Unseen
  <2>2. /\ view.revision \in Nat /\ native.revision \in Nat /\ native.since \in Nat
        /\ native.by \in Request \cup {0, -1}
    BY RevisionsAreNumbers DEF PinsInv, Shape
  <2>3. view.revision <= native.revision
    BY DEF PinsInv, Projections, Real
  <2>4. view.where[p] = native.tab
    BY <2>2, <2>3 DEF MovedIn, PinsInv, Projections, Real
  <2>5. native.tab \in Kept => p \in Held
    BY <2>1, <2>4 DEF Held
  <2>6. CASE view.revision >= native.since
    BY <2>1, <2>5, <2>6 DEF PinsInv, Projections, Real, Kept
  <2>7. CASE view.revision < native.since
    <3>1. native.by # 0
      BY <2>1, <2>2, <2>7 DEF PinsInv, Projections
    <3>2. CASE native.by \in Request
      BY <2>1, <2>5, <2>7, <3>2 DEF PinsInv, Moved, Waits, Kept, Strange
    <3>3. CASE native.by = -1
      BY <2>1, <2>7, <3>3 DEF Strange
    <3> QED
      BY <2>2, <3>1, <3>2, <3>3
  <2> QED
    BY <2>2, <2>6, <2>7
<1> QED
  BY <1>1, SizeViewInvariant, PTL

=============================================================================
