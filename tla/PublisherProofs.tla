--------------------------- MODULE PublisherProofs ---------------------------
(***************************************************************************)
(* Streams and configuration changes of Publisher, for any number of       *)
(* sessions, commands, connections and streams and any number of changes   *)
(* and replaced endpoints.  The argument rests on                          *)
(*   OneRun   only the Run that the daemon can cancel is alive, and it     *)
(*            shares what the daemon has loaded;                           *)
(*   Held     a stream belongs to a connection that waits for it, and its  *)
(*            session is pinned by that connection;                        *)
(*   Forward  incarnations of an endpoint only go forward, past what is    *)
(*            pinned and past what a stream has reached;                   *)
(*   InForce  a command that waits or is done has had its change loaded    *)
(*            when the daemon is back.                                     *)
(***************************************************************************)
EXTENDS Publisher, TLAPS

USE PublisherAssumption

OneRun ==
  /\ \A r \in Run : run[r].pc # "over" =>
       current = r /\ loaded.enabled /\ run[r].rules = loaded.rules
  /\ daemon.pc \in {"off", "starting", "load"} => current = NoOne

Pinned ==
  \A r \in Run : run[r].pc \in {"publish", "connected", "leaving"} =>
    \A s \in run[r].rules : run[r].bound[s] # 0

Held ==
  \A x \in Stream : stream[x].pc # "free" =>
    /\ stream[x].of \in Run /\ run[stream[x].of].pc \in {"connected", "leaving"}
    /\ stream[x].session \in run[stream[x].of].rules

Forward ==
  /\ \A r \in Run, s \in Session : endpoint[s] # 0 => endpoint[s] >= run[r].bound[s]
  /\ \A x \in Stream : stream[x].pc # "free" /\ endpoint[stream[x].session] # 0 =>
       endpoint[stream[x].session] >= stream[x].got

Reached ==
  \A x \in Stream :
    /\ stream[x].pc \in {"recheck", "relay"} =>
         stream[x].got >= run[stream[x].of].bound[stream[x].session]
    /\ stream[x].pc = "relay" /\ stream[x].kind = "api" =>
         stream[x].got = run[stream[x].of].bound[stream[x].session]

StreamInv == TypeOK /\ OneRun /\ Pinned /\ Held /\ Forward /\ Reached

-----------------------------------------------------------------------------
LEMMA BlankTypes ==
  /\ NoBinding \in [Session -> Nat]
  /\ NoRun \in [pc : {"over", "begin", "bind", "publish", "connected", "leaving", "ended"},
                cancelled : BOOLEAN, rules : SUBSET Session, bound : [Session -> Nat]]
  /\ NoStream \in [pc : {"free", "check", "dial", "recheck", "relay"},
                   kind : {"client", "api"}, of : Run \cup {NoOne},
                   session : Session, got : Nat, cancelled : BOOLEAN]
  /\ NoSettings \in [enabled : BOOLEAN, rules : SUBSET Session, version : 0..MaxChanges]
  /\ \A on \in BOOLEAN :
       Blank(on) \in [enabled : BOOLEAN, connected : BOOLEAN, error : BOOLEAN]
<1>1. (CHOOSE s \in Session : TRUE) \in Session
  OBVIOUS
<1> QED
  BY <1>1 DEF NoBinding, NoRun, NoStream, NoSettings, Blank

(* What a Run and a stream are at each of their steps.                     *)
RunType == [pc : {"over", "begin", "bind", "publish", "connected", "leaving", "ended"},
            cancelled : BOOLEAN, rules : SUBSET Session, bound : [Session -> Nat]]
StreamType == [pc : {"free", "check", "dial", "recheck", "relay"},
               kind : {"client", "api"}, of : Run \cup {NoOne},
               session : Session, got : Nat, cancelled : BOOLEAN]

(* The variables of the commands and the daemon.                           *)
HostOK ==
  /\ daemon.pc \in {"off", "starting", "idle", "exit"} => daemon.busy = NoOne
  /\ file \in [enabled : BOOLEAN, rules : SUBSET Session, version : 0..MaxChanges]
  /\ loaded \in [enabled : BOOLEAN, rules : SUBSET Session, version : 0..MaxChanges]
  /\ cli \in [Cli -> [pc : {"idle", "saved", "told", "waiting", "done", "failed"},
                      version : 0..MaxChanges]]
  /\ daemon \in [pc : {"off", "starting", "load", "idle", "cancel", "reply", "exit"},
                 busy : Cli \cup {NoOne}]
  /\ status \in [enabled : BOOLEAN, connected : BOOLEAN, error : BOOLEAN]
  /\ current \in Run \cup {NoOne}

LEMMA TypeParts ==
  TypeOK <=> /\ HostOK /\ run \in [Run -> RunType] /\ endpoint \in [Session -> Nat]
             /\ stream \in [Stream -> StreamType]
BY DEF TypeOK, HostOK, RunType, StreamType

LEMMA TypeInit == Init => TypeOK
BY BlankTypes DEF Init, TypeOK, NoSettings, Blank, NoBinding

LEMMA TypeStep == TypeOK /\ [Next]_vars => TypeOK'
<1> SUFFICES ASSUME TypeOK, [Next]_vars
             PROVE  /\ HostOK' /\ (run \in [Run -> RunType])'
                    /\ (endpoint \in [Session -> Nat])' /\ (stream \in [Stream -> StreamType])'
  BY DEF TypeOK, HostOK, RunType, StreamType
<1>0. /\ HostOK /\ run \in [Run -> RunType] /\ endpoint \in [Session -> Nat]
      /\ stream \in [Stream -> StreamType]
  BY TypeParts
<1> USE <1>0
<1>b. /\ NoBinding \in [Session -> Nat] /\ NoRun \in RunType /\ NoStream \in StreamType
      /\ NoSettings \in [enabled : BOOLEAN, rules : SUBSET Session, version : 0..MaxChanges]
      /\ \A on \in BOOLEAN :
           Blank(on) \in [enabled : BOOLEAN, connected : BOOLEAN, error : BOOLEAN]
  BY BlankTypes DEF RunType, StreamType
<1>1. ASSUME NEW a \in Cli, NEW new \in Settings, Update(a, new) PROVE HostOK'
  BY <1>1 DEF Update, HostOK
<1>2. ASSUME NEW a \in Cli, Status(a) PROVE HostOK'
  BY <1>2 DEF Status, HostOK
<1>3. ASSUME NEW a \in Cli, Reload(a) PROVE HostOK'
  BY <1>3 DEF Reload, HostOK
<1>4. ASSUME NEW a \in Cli, GiveUp(a) \/ Again(a) PROVE HostOK'
  BY <1>4 DEF GiveUp, Again, HostOK
<1>5. CASE CliNext
  <2>1. UNCHANGED <<run, endpoint, stream>>
    BY <1>5 DEF CliNext, Update, Status, Reload, GiveUp, Again
  <2> QED
    BY <1>1, <1>2, <1>3, <1>4, <1>5, <2>1 DEF CliNext
<1>6. CASE Launch \/ Listen \/ Stop
  BY <1>6 DEF Launch, Listen, Stop, HostOK
<1>7. CASE Await \/ Exit
  <2>1. UNCHANGED status \/ status' = Blank(FALSE)
    BY <1>7 DEF Await, Exit
  <2>2. status' \in [enabled : BOOLEAN, connected : BOOLEAN, error : BOOLEAN]
    BY <1>b, <2>1 DEF HostOK
  <2> QED
    BY <1>7, <2>2 DEF Await, Exit, RunOver, HostOK
<1>8. CASE Reply
  <2>1. cli' \in [Cli -> [pc : {"idle", "saved", "told", "waiting", "done", "failed"},
                         version : 0..MaxChanges]]
    <3> DEFINE b == daemon.busy
    <3>1. cli' = [cli EXCEPT ![b].pc = IF @ = "waiting" THEN "done" ELSE @] /\ b \in Cli \cup {NoOne}
      BY <1>8 DEF Reply, HostOK
    <3> HIDE DEF b
    <3>2. CASE b \in Cli
      BY <3>1, <3>2 DEF HostOK
    <3>3. CASE b \notin Cli
      <4>1. cli' = cli
        BY <3>1, <3>3 DEF HostOK
      <4> QED
        BY <4>1 DEF HostOK
    <3> QED
      BY <3>2, <3>3
  <2>2. daemon' = [pc |-> "idle", busy |-> NoOne] \/ daemon' = [pc |-> "exit", busy |-> NoOne]
    BY <1>8 DEF Reply
  <2>3. UNCHANGED <<file, loaded, status, current, run, endpoint, stream>>
    BY <1>8 DEF Reply
  <2> QED
    BY <2>1, <2>2, <2>3, NoOne \notin Cli, SMTT(30) DEF HostOK
<1>9. CASE CancelRun
  <2>1. current \in Run /\ run' = [run EXCEPT ![current].cancelled = TRUE]
    BY <1>9 DEF CancelRun, HostOK
  <2>2. run' \in [Run -> RunType]
    <3> DEFINE new == [run[current] EXCEPT !.cancelled = TRUE]
    <3>1. run[current] \in RunType
      BY <2>1
    <3>2. new \in RunType
      BY <3>1 DEF RunType
    <3>3. run' = [run EXCEPT ![current] = new]
      BY <2>1
    <3> QED
      BY <3>2, <3>3
  <2>3. UNCHANGED <<hostVars, status, current, endpoint, stream>>
    BY <1>9 DEF CancelRun
  <2> QED
    BY <2>2, <2>3 DEF HostOK, hostVars
<1>10. CASE Load
  <2>1. loaded' \in [enabled : BOOLEAN, rules : SUBSET Session, version : 0..MaxChanges]
        /\ status' \in [enabled : BOOLEAN, connected : BOOLEAN, error : BOOLEAN]
    <3>1. CASE loaded' = file /\ status' = Blank(file.enabled)
      BY <1>b, <3>1 DEF HostOK
    <3>2. CASE /\ loaded' = [NoSettings EXCEPT !.version = file.version]
               /\ status' = [Blank(FALSE) EXCEPT !.error = TRUE]
      BY <3>2 DEF HostOK, NoSettings, Blank
    <3> QED
      BY <1>10, <3>1, <3>2 DEF Load
  <2>2. run' \in [Run -> RunType] /\ current' \in Run \cup {NoOne}
    <3>1. CASE UNCHANGED <<current, run>>
      BY <3>1 DEF HostOK
    <3>2. ASSUME NEW r \in Run, current' = r,
                 run' = [run EXCEPT ![r] = [NoRun EXCEPT !.pc = "begin", !.rules = loaded'.rules]]
          PROVE  run' \in [Run -> RunType] /\ current' \in Run \cup {NoOne}
      BY <1>b, <2>1, <3>2 DEF RunType
    <3> QED
      BY <1>10, <3>1, <3>2 DEF Load
  <2> QED
    <3>1. daemon' = [daemon EXCEPT !.pc = IF daemon.busy = NoOne THEN "idle" ELSE "reply"]
          /\ UNCHANGED <<file, cli, endpoint, stream>>
      BY <1>10 DEF Load
    <3>2. /\ daemon' \in [pc : {"off", "starting", "load", "idle", "cancel", "reply", "exit"},
                           busy : Cli \cup {NoOne}]
          /\ daemon'.pc \in {"off", "starting", "idle", "exit"} => daemon'.busy = NoOne
      BY <3>1 DEF HostOK
    <3> QED
      BY <2>1, <2>2, <3>1, <3>2 DEF HostOK
<1>11. ASSUME NEW r \in Run, NEW new \in RunType, RunStep(r, new)
       PROVE  run' \in [Run -> RunType]
  BY <1>11 DEF RunStep
<1>12. ASSUME NEW r \in Run, NEW s \in Session, Bind(r, s) PROVE run' \in [Run -> RunType]
  <2> DEFINE new == [run[r] EXCEPT !.bound[s] = endpoint[s]]
  <2>1. run[r] \in RunType /\ endpoint[s] \in Nat
    OBVIOUS
  <2>2. new \in RunType
    BY <2>1 DEF RunType
  <2>3. run' = [run EXCEPT ![r] = new]
    BY <1>12 DEF Bind, RunStep
  <2> QED
    BY <2>2, <2>3
<1>13. ASSUME NEW r \in Run,
              Begin(r) \/ Dial(r) \/ ConnectFails(r) \/ Published(r) \/ Left(r) \/ Retry(r)
                \/ \E why \in {"cancelled", "lost", "stale"} : Leave(r, why)
       PROVE  run' \in [Run -> RunType]
  <2>1. run[r] \in RunType
    OBVIOUS
  <2>2. /\ [run[r] EXCEPT !.pc = "bind"] \in RunType /\ [run[r] EXCEPT !.pc = "publish"] \in RunType
        /\ [run[r] EXCEPT !.pc = "connected"] \in RunType /\ [run[r] EXCEPT !.pc = "begin"] \in RunType
        /\ [run[r] EXCEPT !.pc = "leaving"] \in RunType
        /\ [run[r] EXCEPT !.pc = "ended", !.bound = NoBinding] \in RunType
    BY <1>b, <2>1 DEF RunType
  <2>3. CASE Begin(r) \/ Retry(r)
    BY <1>b, <1>11, <2>2, <2>3 DEF Begin, Retry
  <2>4. CASE Dial(r) \/ ConnectFails(r) \/ Published(r)
    BY <1>11, <2>2, <2>4 DEF Dial, ConnectFails, Published
  <2>5. CASE Left(r) \/ \E why \in {"cancelled", "lost", "stale"} : Leave(r, why)
    BY <1>11, <2>2, <2>5 DEF Left, Leave
  <2> QED
    BY ONLY <1>13, <2>3, <2>4, <2>5
<1>14. ASSUME NEW r \in Run, NEW why \in {"cancelled", "lost", "stale"}, Leave(r, why)
       PROVE  stream' \in [Stream -> StreamType]
  <2>1. stream' = [x \in Stream |->
          IF stream[x].of = r THEN [stream[x] EXCEPT !.cancelled = TRUE] ELSE stream[x]]
    BY <1>14 DEF Leave
  <2>2. \A x \in Stream : [stream[x] EXCEPT !.cancelled = TRUE] \in StreamType
    BY DEF StreamType
  <2> QED
    BY <2>1, <2>2
<1>15. CASE RunNext
  <2>1. UNCHANGED <<hostVars, current, endpoint>>
    BY <1>15 DEF RunNext, Begin, Dial, ConnectFails, Published, Left, Retry, Leave, Bind
  <2>2. UNCHANGED stream \/ \E r \in Run, why \in {"cancelled", "lost", "stale"} : Leave(r, why)
    <3>1. ASSUME NEW r \in Run,
                 Begin(r) \/ Dial(r) \/ ConnectFails(r) \/ Published(r) \/ Left(r) \/ Retry(r)
          PROVE  UNCHANGED stream
      BY <3>1 DEF Begin, Dial, ConnectFails, Published, Left, Retry
    <3>2. ASSUME NEW r \in Run, NEW s \in Session, Bind(r, s) PROVE UNCHANGED stream
      BY <3>2 DEF Bind
    <3> QED
      BY ONLY <1>15, <3>1, <3>2 DEF RunNext
  <2>3. status' \in [enabled : BOOLEAN, connected : BOOLEAN, error : BOOLEAN]
    <3>1. ASSUME NEW r \in Run, Begin(r) \/ Dial(r) \/ ConnectFails(r) \/ Left(r)
          PROVE  UNCHANGED status
      BY <3>1 DEF Begin, Dial, ConnectFails, Left
    <3>2. ASSUME NEW r \in Run, Published(r) \/ Retry(r)
          PROVE  status' \in [enabled : BOOLEAN, connected : BOOLEAN, error : BOOLEAN]
      <4>1. \/ UNCHANGED status
            \/ status' = [enabled |-> TRUE, connected |-> TRUE, error |-> FALSE]
            \/ status' = [enabled |-> TRUE, connected |-> FALSE, error |-> TRUE]
        BY <3>2 DEF Published, Retry
      <4>2. status \in [enabled : BOOLEAN, connected : BOOLEAN, error : BOOLEAN]
        BY DEF HostOK
      <4>3. /\ [enabled |-> TRUE, connected |-> TRUE, error |-> FALSE]
                \in [enabled : BOOLEAN, connected : BOOLEAN, error : BOOLEAN]
            /\ [enabled |-> TRUE, connected |-> FALSE, error |-> TRUE]
                \in [enabled : BOOLEAN, connected : BOOLEAN, error : BOOLEAN]
        OBVIOUS
      <4> QED
        BY ONLY <4>1, <4>2, <4>3
    <3>3. ASSUME NEW r \in Run, NEW s \in Session, Bind(r, s) PROVE UNCHANGED status
      BY <3>3 DEF Bind
    <3>4. ASSUME NEW r \in Run, NEW why \in {"cancelled", "lost", "stale"}, Leave(r, why)
          PROVE  UNCHANGED status
      BY <3>4 DEF Leave
    <3>5. status \in [enabled : BOOLEAN, connected : BOOLEAN, error : BOOLEAN]
      BY DEF HostOK
    <3> QED
      BY ONLY <1>15, <3>1, <3>2, <3>3, <3>4, <3>5 DEF RunNext
  <2>4. HostOK'
    BY <2>1, <2>3 DEF HostOK, hostVars
  <2> QED
    BY <1>12, <1>13, <1>14, <1>15, <2>1, <2>2, <2>4 DEF RunNext
<1>16. ASSUME NEW x \in Stream, NEW new \in StreamType, StreamStep(x, new)
       PROVE  stream' \in [Stream -> StreamType]
  BY <1>16 DEF StreamStep
<1>17. ASSUME NEW x \in Stream, NEW r \in Run, NEW s \in Session,
              NEW kind \in {"client", "api"}, Open(x, r, s, kind)
       PROVE  stream' \in [Stream -> StreamType]
  BY <1>17 DEF Open, StreamStep, StreamType
<1>18. ASSUME NEW x \in Stream, Check(x) \/ Connect(x) \/ Recheck(x) \/ End(x)
       PROVE  stream' \in [Stream -> StreamType]
  <2>1. stream[x] \in StreamType /\ endpoint[stream[x].session] \in Nat
    BY DEF StreamType
  <2>2. /\ [stream[x] EXCEPT !.pc = "dial"] \in StreamType
        /\ [stream[x] EXCEPT !.pc = "relay"] \in StreamType
        /\ [stream[x] EXCEPT !.got = endpoint[stream[x].session],
                             !.pc = IF stream[x].kind \in Rechecked THEN "recheck" ELSE "relay"]
             \in StreamType
    BY <2>1 DEF StreamType
  <2> QED
    BY <1>b, <1>16, <1>18, <2>2 DEF Check, Connect, Recheck, End, Over
<1>19. CASE StreamNext
  <2>1. UNCHANGED <<hostVars, status, current, run, endpoint>>
    BY <1>19 DEF StreamNext, Open, Check, Connect, Recheck, End
  <2>2. HostOK'
    BY <2>1 DEF HostOK, hostVars
  <2> QED
    BY <1>17, <1>18, <1>19, <2>1, <2>2 DEF StreamNext
<1>20. ASSUME NEW s \in Session, Replace(s)
       PROVE  /\ HostOK' /\ (run \in [Run -> RunType])'
              /\ (endpoint \in [Session -> Nat])' /\ (stream \in [Stream -> StreamType])'
  <2>1. endpoint' \in [Session -> Nat]
    BY <1>20 DEF Replace
  <2>2. UNCHANGED <<hostVars, status, current, run, stream>>
    BY <1>20 DEF Replace
  <2>3. HostOK'
    BY <2>2 DEF HostOK, hostVars
  <2> QED
    BY <2>1, <2>2, <2>3
<1>21. CASE UNCHANGED vars
  BY <1>21 DEF vars, HostOK
<1> QED
  BY <1>5, <1>6, <1>7, <1>8, <1>9, <1>10, <1>15, <1>19, <1>20, <1>21 DEF Next, DaemonNext


-----------------------------------------------------------------------------
LEMMA InvTypes ==
  ASSUME TypeOK
  PROVE  /\ run \in [Run -> RunType] /\ endpoint \in [Session -> Nat]
         /\ stream \in [Stream -> StreamType] /\ current \in Run \cup {NoOne}
         /\ \A r \in Run : run[r].rules \in SUBSET Session /\ run[r].bound \in [Session -> Nat]
         /\ \A x \in Stream : /\ stream[x].session \in Session /\ stream[x].got \in Nat
                              /\ stream[x].of \in Run \cup {NoOne}
BY DEF TypeOK, RunType, StreamType

(* One Run at a time: reload and exit wait for it before current is given  *)
(* up, and a new one is started only after that.                           *)
LEMMA OneRunStep == TypeOK /\ OneRun /\ [Next]_vars => OneRun'
<1> SUFFICES ASSUME TypeOK, OneRun, [Next]_vars PROVE OneRun'
  OBVIOUS
<1>0. run \in [Run -> RunType] /\ current \in Run \cup {NoOne}
  BY InvTypes
<1>1. CASE CliNext
  <2>1. UNCHANGED <<loaded, current, run>> /\ (UNCHANGED daemon \/ daemon'.pc = "cancel")
    BY <1>1 DEF CliNext, Update, Status, Reload, GiveUp, Again
  <2> QED
    BY <2>1 DEF OneRun
<1>2. CASE Launch \/ Listen \/ Stop \/ Reply
  <2>1. UNCHANGED <<loaded, current, run>>
    BY <1>2 DEF Launch, Listen, Stop, Reply
  <2>2. daemon'.pc \in {"off", "starting", "load"} => daemon.pc \in {"off", "starting", "load"}
    BY <1>2 DEF Launch, Listen, Stop, Reply, TypeOK
  <2> QED
    BY <2>1, <2>2 DEF OneRun
<1>3. CASE Await \/ Exit
  <2>1. RunOver /\ current' = NoOne /\ UNCHANGED <<loaded, run>>
    BY <1>3 DEF Await, Exit
  <2>2. \A r \in Run : run[r].pc = "over"
    BY <2>1 DEF OneRun, RunOver
  <2> QED
    BY <2>1, <2>2 DEF OneRun
<1>4. CASE CancelRun
  <2>1. current \in Run /\ run' = [run EXCEPT ![current].cancelled = TRUE]
    BY <1>0, <1>4 DEF CancelRun
  <2>2. \A r \in Run : run'[r].pc = run[r].pc /\ run'[r].rules = run[r].rules
    BY <1>0, <2>1 DEF RunType
  <2>3. UNCHANGED <<loaded, current, daemon>>
    BY <1>4 DEF CancelRun, hostVars
  <2> QED
    BY <2>2, <2>3 DEF OneRun
<1>5. CASE Load
  <2>1. current = NoOne /\ daemon'.pc \in {"idle", "reply"}
    BY <1>5 DEF Load, OneRun, TypeOK
  <2>2. \A r \in Run : run[r].pc = "over"
    BY <2>1 DEF OneRun
  <2>3. CASE UNCHANGED <<current, run>>
    BY <2>1, <2>2, <2>3 DEF OneRun
  <2>4. ASSUME NEW r \in Run, current' = r, loaded'.enabled,
               run' = [run EXCEPT ![r] = [NoRun EXCEPT !.pc = "begin", !.rules = loaded'.rules]]
        PROVE  OneRun'
    <3>1. run'[r].rules = loaded'.rules /\ \A q \in Run : q # r => run'[q] = run[q]
      BY <1>0, <2>4 DEF NoRun
    <3> QED
      BY <2>1, <2>2, <2>4, <3>1 DEF OneRun
  <2> QED
    BY <1>5, <2>3, <2>4 DEF Load
<1>6. ASSUME NEW r \in Run, NEW new, RunStep(r, new), UNCHANGED hostVars, UNCHANGED current,
             new.pc # "over" => run[r].pc # "over" /\ new.rules = run[r].rules
      PROVE  OneRun'
  <2>1. run'[r] = new /\ \A q \in Run : q # r => run'[q] = run[q]
    BY <1>0, <1>6 DEF RunStep
  <2> QED
    BY <1>6, <2>1 DEF OneRun, hostVars
<1>7. ASSUME NEW r \in Run, Begin(r) PROVE OneRun'
  <2>1. run[r] \in RunType /\ NoRun.pc = "over"
    BY <1>0 DEF NoRun
  <2> QED
    BY <1>6, <1>7, <2>1 DEF Begin, RunType
<1>8. ASSUME NEW r \in Run, NEW s \in Session, Bind(r, s) PROVE OneRun'
  BY <1>0, <1>6, <1>8 DEF Bind, RunType
<1>9. ASSUME NEW r \in Run, Dial(r) \/ Published(r) PROVE OneRun'
  BY <1>0, <1>6, <1>9 DEF Dial, Published, RunType
<1>10. ASSUME NEW r \in Run, ConnectFails(r) \/ Left(r) PROVE OneRun'
  BY <1>0, <1>6, <1>10 DEF ConnectFails, Left, RunType
<1>11. ASSUME NEW r \in Run, Retry(r) PROVE OneRun'
  <2>1. run[r] \in RunType /\ NoRun.pc = "over"
    BY <1>0 DEF NoRun
  <2> QED
    BY <1>6, <1>11, <2>1 DEF Retry, RunType
<1>12. ASSUME NEW r \in Run, NEW why \in {"cancelled", "lost", "stale"}, Leave(r, why)
       PROVE  OneRun'
  <2>1. run[r] \in RunType /\ run[r].pc = "connected"
        /\ RunStep(r, [run[r] EXCEPT !.pc = "leaving"]) /\ UNCHANGED <<hostVars, current>>
    BY <1>0, <1>12 DEF Leave
  <2> QED
    BY <1>6, <2>1 DEF RunType
<1>13. CASE StreamNext
  <2>1. UNCHANGED <<hostVars, current, run>>
    BY <1>13 DEF StreamNext, Open, Check, Connect, Recheck, End
  <2> QED
    BY <2>1 DEF OneRun, hostVars
<1>14. ASSUME NEW s \in Session, Replace(s) PROVE OneRun'
  BY <1>14 DEF Replace, OneRun, hostVars
<1>15. CASE UNCHANGED vars
  BY <1>15 DEF vars, OneRun
<1>16. CASE RunNext
  BY <1>7, <1>8, <1>9, <1>10, <1>11, <1>12, <1>16 DEF RunNext
<1> QED
  BY <1>1, <1>2, <1>3, <1>4, <1>5, <1>13, <1>14, <1>15, <1>16 DEF Next, DaemonNext

(* A connection is dialled when every session that it shares is pinned,    *)
(* and its pins are kept until it has ended.                               *)
LEMMA PinnedStep == TypeOK /\ Pinned /\ [Next]_vars => Pinned'
<1> SUFFICES ASSUME TypeOK, Pinned, [Next]_vars PROVE Pinned'
  OBVIOUS
<1>0. run \in [Run -> RunType] /\ current \in Run \cup {NoOne}
  BY InvTypes
<1>1. CASE UNCHANGED run
  BY <1>1 DEF Pinned
<1>2. ASSUME NEW r \in Run, NEW new, RunStep(r, new),
             new.pc \in {"publish", "connected", "leaving"} =>
               \A s \in new.rules : new.bound[s] # 0
      PROVE  Pinned'
  <2>1. run'[r] = new /\ \A q \in Run : q # r => run'[q] = run[q]
    BY <1>0, <1>2 DEF RunStep
  <2> QED
    BY <1>2, <2>1 DEF Pinned
<1>3. CASE CancelRun
  <2>1. current \in Run /\ run' = [run EXCEPT ![current].cancelled = TRUE]
    BY <1>0, <1>3 DEF CancelRun
  <2>2. \A r \in Run : /\ run'[r].pc = run[r].pc /\ run'[r].rules = run[r].rules
                       /\ run'[r].bound = run[r].bound
    BY <1>0, <2>1 DEF RunType
  <2> QED
    BY <2>2 DEF Pinned
<1>4. CASE Load
  <2>1. ASSUME NEW r \in Run,
               run' = [run EXCEPT ![r] = [NoRun EXCEPT !.pc = "begin", !.rules = loaded'.rules]]
        PROVE  Pinned'
    BY <1>2, <2>1 DEF RunStep, NoRun
  <2> QED
    BY <1>1, <1>4, <2>1 DEF Load
<1>5. ASSUME NEW r \in Run, Begin(r) \/ Retry(r) PROVE Pinned'
  <2>1. run[r] \in RunType /\ NoRun.pc = "over"
    BY <1>0 DEF NoRun
  <2> QED
    BY <1>2, <1>5, <2>1 DEF Begin, Retry, RunType
<1>6. ASSUME NEW r \in Run, NEW s \in Session, Bind(r, s) PROVE Pinned'
  BY <1>0, <1>2, <1>6 DEF Bind, RunType
<1>7. ASSUME NEW r \in Run, Dial(r) PROVE Pinned'
  BY <1>0, <1>2, <1>7 DEF Dial, RunType
<1>8. ASSUME NEW r \in Run, Published(r) PROVE Pinned'
  BY <1>0, <1>2, <1>8 DEF Published, RunType, Pinned
<1>9. ASSUME NEW r \in Run, ConnectFails(r) \/ Left(r) PROVE Pinned'
  BY <1>0, <1>2, <1>9 DEF ConnectFails, Left, RunType
<1>10. ASSUME NEW r \in Run, NEW why \in {"cancelled", "lost", "stale"}, Leave(r, why)
       PROVE  Pinned'
  <2>1. run[r] \in RunType /\ run[r].pc = "connected"
        /\ RunStep(r, [run[r] EXCEPT !.pc = "leaving"])
    BY <1>0, <1>10 DEF Leave
  <2> QED
    BY <1>2, <2>1 DEF RunType, Pinned
<1>11. CASE CliNext \/ Launch \/ Listen \/ Await \/ Reply \/ Stop \/ Exit
  BY <1>1, <1>11
  DEF CliNext, Update, Status, Reload, GiveUp, Again, Launch, Listen, Await, Reply, Stop, Exit
<1>12. CASE StreamNext
  BY <1>1, <1>12 DEF StreamNext, Open, Check, Connect, Recheck, End
<1>13. ASSUME NEW s \in Session, Replace(s) PROVE Pinned'
  BY <1>1, <1>13 DEF Replace
<1>14. CASE UNCHANGED vars
  BY <1>1, <1>14 DEF vars
<1>15. CASE RunNext
  BY <1>5, <1>6, <1>7, <1>8, <1>9, <1>10, <1>15 DEF RunNext
<1> QED
  BY <1>3, <1>4, <1>11, <1>12, <1>13, <1>14, <1>15 DEF Next, DaemonNext


-----------------------------------------------------------------------------
(* While a connection has streams, nothing of it changes except that it    *)
(* may be cancelled and leave: it waits for them before it lets go.        *)
LEMMA Kept ==
  ASSUME TypeOK, OneRun, [Next]_vars, NEW r \in Run, run[r].pc \in {"connected", "leaving"},
         ~StreamsOver(r)
  PROVE  /\ run'[r].pc \in {"connected", "leaving"} /\ run'[r].rules = run[r].rules
         /\ run'[r].bound = run[r].bound
<1> DEFINE Same == /\ run'[r].pc \in {"connected", "leaving"} /\ run'[r].rules = run[r].rules
                   /\ run'[r].bound = run[r].bound
<1>0. run \in [Run -> RunType] /\ current \in Run \cup {NoOne}
  BY InvTypes
<1>1. CASE UNCHANGED run
  BY <1>1
<1>2. ASSUME NEW q \in Run, NEW new, RunStep(q, new), q # r PROVE Same
  BY <1>0, <1>2 DEF RunStep
<1>3. CASE CancelRun
  BY <1>0, <1>3 DEF CancelRun, RunType
<1>4. CASE Load
  <2>1. ASSUME NEW q \in Run, run[q].pc = "over",
               run' = [run EXCEPT ![q] = [NoRun EXCEPT !.pc = "begin", !.rules = loaded'.rules]]
        PROVE  Same
    BY <1>2, <2>1 DEF RunStep
  <2> QED
    BY <1>1, <1>4, <2>1 DEF Load
<1>5. ASSUME NEW q \in Run,
             Begin(q) \/ Dial(q) \/ ConnectFails(q) \/ Published(q) \/ Left(q) \/ Retry(q)
      PROVE  Same
  <2>1. q # r
    BY <1>5 DEF Begin, Dial, ConnectFails, Published, Left, Retry
  <2> QED
    BY <1>2, <1>5, <2>1 DEF Begin, Dial, ConnectFails, Published, Left, Retry
<1>6. ASSUME NEW q \in Run, NEW s \in Session, Bind(q, s) PROVE Same
  <2>1. q # r
    BY <1>6 DEF Bind
  <2> QED
    BY <1>2, <1>6, <2>1 DEF Bind
<1>7. ASSUME NEW q \in Run, NEW why \in {"cancelled", "lost", "stale"}, Leave(q, why) PROVE Same
  <2>1. run' = [run EXCEPT ![q] = [run[q] EXCEPT !.pc = "leaving"]]
    BY <1>7 DEF Leave, RunStep
  <2> QED
    BY <1>0, <2>1 DEF RunType
<1>8. CASE CliNext \/ Launch \/ Listen \/ Await \/ Reply \/ Stop \/ Exit
  BY <1>1, <1>8
  DEF CliNext, Update, Status, Reload, GiveUp, Again, Launch, Listen, Await, Reply, Stop, Exit
<1>9. CASE StreamNext
  BY <1>1, <1>9 DEF StreamNext, Open, Check, Connect, Recheck, End
<1>10. ASSUME NEW s \in Session, Replace(s) PROVE Same
  BY <1>1, <1>10 DEF Replace
<1>11. CASE UNCHANGED vars
  BY <1>1, <1>11 DEF vars
<1>12. CASE RunNext
  BY <1>5, <1>6, <1>7, <1>12 DEF RunNext
<1> QED
  BY <1>3, <1>4, <1>8, <1>9, <1>10, <1>11, <1>12 DEF Next, DaemonNext

(* All but the steps of a stream leave it alone, or only cancel it.        *)
SameStream(x) ==
  /\ stream'[x].pc = stream[x].pc /\ stream'[x].kind = stream[x].kind
  /\ stream'[x].of = stream[x].of /\ stream'[x].session = stream[x].session
  /\ stream'[x].got = stream[x].got

LEMMA StreamsSame ==
  ASSUME TypeOK, [Next]_vars, ~StreamNext
  PROVE  \A x \in Stream : SameStream(x)
<1>0. stream \in [Stream -> StreamType]
  BY InvTypes
<1>1. CASE UNCHANGED stream
  BY <1>1 DEF SameStream
<1>2. ASSUME NEW r \in Run, NEW why \in {"cancelled", "lost", "stale"}, Leave(r, why)
      PROVE  \A x \in Stream : SameStream(x)
  <2>1. stream' = [x \in Stream |->
          IF stream[x].of = r THEN [stream[x] EXCEPT !.cancelled = TRUE] ELSE stream[x]]
    BY <1>2 DEF Leave
  <2> QED
    BY <1>0, <2>1 DEF SameStream, StreamType
<1>3. CASE CliNext \/ DaemonNext
  BY <1>1, <1>3
  DEF CliNext, DaemonNext, Update, Status, Reload, GiveUp, Again, Launch, Listen, CancelRun,
      Await, Load, Reply, Stop, Exit
<1>4. ASSUME NEW r \in Run,
             Begin(r) \/ Dial(r) \/ ConnectFails(r) \/ Published(r) \/ Left(r) \/ Retry(r)
      PROVE  UNCHANGED stream
  BY <1>4 DEF Begin, Dial, ConnectFails, Published, Left, Retry
<1>5. ASSUME NEW r \in Run, NEW s \in Session, Bind(r, s) PROVE UNCHANGED stream
  BY <1>5 DEF Bind
<1>6. CASE RunNext
  BY <1>1, <1>2, <1>4, <1>5, <1>6 DEF RunNext
<1>7. ASSUME NEW s \in Session, Replace(s) PROVE UNCHANGED stream
  BY <1>7 DEF Replace
<1>8. CASE UNCHANGED vars
  BY <1>1, <1>8 DEF vars
<1> QED
  BY <1>1, <1>3, <1>6, <1>7, <1>8 DEF Next

(* A step of a stream gives it a new state, and leaves everything else.    *)
LEMMA StreamMoves ==
  ASSUME TypeOK, NEW x \in Stream, NEW new, StreamStep(x, new)
  PROVE  stream'[x] = new /\ \A y \in Stream : y # x => stream'[y] = stream[y]
<1>1. stream \in [Stream -> StreamType]
  BY InvTypes
<1> QED
  BY <1>1 DEF StreamStep

LEMMA OthersStay ==
  ASSUME StreamNext PROVE UNCHANGED <<hostVars, status, current, run, endpoint>>
BY DEF StreamNext, Open, Check, Connect, Recheck, End

(* What a stream becomes: free, opened, or the same with a little more     *)
(* done.                                                                   *)
Freed(x) == stream'[x].pc = "free"
Opened(x) ==
  \E r \in Run, s \in Session, kind \in {"client", "api"} :
    /\ stream'[x] = [pc |-> "check", kind |-> kind, of |-> r, session |-> s, got |-> 0,
                     cancelled |-> FALSE]
    /\ run[r].pc = "connected" /\ s \in run[r].rules
Checked(x) == stream[x].pc = "check" /\ stream'[x] = [stream[x] EXCEPT !.pc = "dial"]
Connected(x) ==
  /\ stream[x].pc = "dial" /\ endpoint[stream[x].session] # 0
  /\ stream'[x] = [stream[x] EXCEPT
       !.got = endpoint[stream[x].session],
       !.pc = IF stream[x].kind \in Rechecked THEN "recheck" ELSE "relay"]
Confirmed(x) ==
  /\ stream[x].pc = "recheck" /\ Fresh(x) /\ stream'[x] = [stream[x] EXCEPT !.pc = "relay"]

LEMMA StreamBecomes ==
  ASSUME TypeOK, StreamNext, NEW x \in Stream
  PROVE  \/ stream'[x] = stream[x]
         \/ Freed(x) \/ Opened(x) \/ Checked(x) \/ Connected(x) \/ Confirmed(x)
<1>0. NoStream.pc = "free"
  BY DEF NoStream
<1>1. ASSUME NEW y \in Stream, NEW r \in Run, NEW s \in Session,
             NEW kind \in {"client", "api"}, Open(y, r, s, kind)
      PROVE  stream'[x] = stream[x] \/ Opened(x)
  <2>1. /\ y # x => stream'[x] = stream[x]
        /\ stream'[y] = [pc |-> "check", kind |-> kind, of |-> r, session |-> s, got |-> 0,
                         cancelled |-> FALSE]
        /\ run[r].pc = "connected" /\ s \in run[r].rules
    BY <1>1, StreamMoves DEF Open
  <2> QED
    BY <2>1 DEF Opened
<1>2. ASSUME NEW y \in Stream, Check(y)
      PROVE  stream'[x] = stream[x] \/ Freed(x) \/ Checked(x)
  BY <1>0, <1>2, StreamMoves DEF Check, Over, Freed, Checked
<1>3. ASSUME NEW y \in Stream, Connect(y)
      PROVE  stream'[x] = stream[x] \/ Freed(x) \/ Connected(x)
  BY <1>0, <1>3, StreamMoves DEF Connect, Over, Freed, Connected
<1>4. ASSUME NEW y \in Stream, Recheck(y)
      PROVE  stream'[x] = stream[x] \/ Freed(x) \/ Confirmed(x)
  BY <1>0, <1>4, StreamMoves DEF Recheck, Over, Freed, Confirmed
<1>5. ASSUME NEW y \in Stream, End(y)
      PROVE  stream'[x] = stream[x] \/ Freed(x)
  BY <1>0, <1>5, StreamMoves DEF End, Over, Freed
<1> QED
  BY <1>1, <1>2, <1>3, <1>4, <1>5 DEF StreamNext

-----------------------------------------------------------------------------
LEMMA HeldStep ==
  ASSUME TypeOK, OneRun, Held, [Next]_vars
  PROVE  Held'
<1> SUFFICES ASSUME NEW x \in Stream, stream'[x].pc # "free"
             PROVE  /\ stream'[x].of \in Run /\ run'[stream'[x].of].pc \in {"connected", "leaving"}
                    /\ stream'[x].session \in run'[stream'[x].of].rules
  BY DEF Held
<1>1. CASE ~StreamNext
  <2>1. /\ stream[x].pc # "free" /\ stream'[x].of = stream[x].of
        /\ stream'[x].session = stream[x].session
    BY <1>1, StreamsSame DEF SameStream
  <2>2. PICK r \in Run : /\ r = stream[x].of /\ run[r].pc \in {"connected", "leaving"}
                         /\ stream[x].session \in run[r].rules
    BY <2>1 DEF Held
  <2>3. ~StreamsOver(r)
    BY <2>2 DEF StreamsOver
  <2>4. run'[r].pc \in {"connected", "leaving"} /\ run'[r].rules = run[r].rules
    BY <2>2, <2>3, Kept
  <2> QED
    BY <2>1, <2>2, <2>4
<1>2. CASE StreamNext
  <2>1. UNCHANGED run
    BY <1>2, OthersStay
  <2>2. stream[x] \in StreamType
    BY InvTypes
  <2>3. CASE stream'[x] = stream[x]
    BY <2>1, <2>3 DEF Held
  <2>4. CASE Opened(x)
    BY <2>1, <2>4 DEF Opened
  <2>5. CASE Checked(x) \/ Connected(x) \/ Confirmed(x)
    <3>1. /\ stream[x].pc # "free" /\ stream'[x].of = stream[x].of
          /\ stream'[x].session = stream[x].session
      BY <2>2, <2>5 DEF Checked, Connected, Confirmed, StreamType
    <3> QED
      BY <2>1, <3>1 DEF Held
  <2> QED
    BY <1>2, <2>3, <2>4, <2>5, StreamBecomes DEF Freed
<1> QED
  BY <1>1, <1>2

(* The incarnation of an endpoint is never one that was pinned or reached  *)
(* before: Replace gives a new one, or none.                               *)
LEMMA BoundsForward ==
  ASSUME TypeOK, Forward, [Next]_vars
  PROVE  \A r \in Run, s \in Session : endpoint'[s] # 0 => endpoint'[s] >= run'[r].bound[s]
<1> DEFINE Ahead == \A r \in Run, s \in Session : endpoint'[s] # 0 => endpoint'[s] >= run'[r].bound[s]
<1>0. /\ run \in [Run -> RunType] /\ endpoint \in [Session -> Nat]
      /\ current \in Run \cup {NoOne}
      /\ \A r \in Run : run[r] \in RunType /\ run[r].bound \in [Session -> Nat]
  BY InvTypes DEF RunType
<1>1. CASE UNCHANGED <<run, endpoint>>
  BY <1>1 DEF Forward
<1>2. ASSUME NEW r \in Run, NEW new, RunStep(r, new), UNCHANGED endpoint,
             \A s \in Session : endpoint[s] # 0 => endpoint[s] >= new.bound[s]
      PROVE  Ahead
  <2>1. run'[r] = new /\ \A q \in Run : q # r => run'[q] = run[q]
    BY <1>0, <1>2 DEF RunStep
  <2> QED
    BY <1>2, <2>1 DEF Forward
<1>b. /\ \A s \in Session : endpoint[s] # 0 => endpoint[s] >= NoBinding[s]
      /\ NoRun.bound = NoBinding
  BY <1>0 DEF NoBinding, NoRun
<1>k. \A r \in Run, s \in Session : endpoint[s] # 0 => endpoint[s] >= run[r].bound[s]
  BY DEF Forward
<1>3. CASE CancelRun
  <2>1. current \in Run /\ run' = [run EXCEPT ![current].cancelled = TRUE] /\ UNCHANGED endpoint
    BY <1>0, <1>3 DEF CancelRun
  <2>2. \A r \in Run : run'[r].bound = run[r].bound
    BY <1>0, <2>1 DEF RunType
  <2> QED
    BY <2>1, <2>2 DEF Forward
<1>4. CASE Load
  <2>1. ASSUME NEW r \in Run,
               run' = [run EXCEPT ![r] = [NoRun EXCEPT !.pc = "begin", !.rules = loaded'.rules]]
        PROVE  Ahead
    <3>1. [NoRun EXCEPT !.pc = "begin", !.rules = loaded'.rules].bound = NoBinding
      BY DEF NoRun
    <3>2. UNCHANGED endpoint
      BY <1>4 DEF Load
    <3> QED
      BY <1>2, <1>b, <2>1, <3>1, <3>2 DEF RunStep
  <2> QED
    BY <1>1, <1>4, <2>1 DEF Load
<1>5. ASSUME NEW r \in Run, Begin(r) \/ Retry(r) PROVE Ahead
  <2>1. [run[r] EXCEPT !.pc = "bind"].bound = run[r].bound
        /\ [run[r] EXCEPT !.pc = "begin"].bound = run[r].bound
    BY <1>0 DEF RunType
  <2>2. UNCHANGED endpoint /\ \/ RunStep(r, NoRun)
                              \/ RunStep(r, [run[r] EXCEPT !.pc = "bind"])
                              \/ RunStep(r, [run[r] EXCEPT !.pc = "begin"])
    BY <1>5 DEF Begin, Retry
  <2> QED
    BY <1>2, <1>b, <1>k, <2>1, <2>2
<1>6. ASSUME NEW r \in Run, NEW s \in Session, Bind(r, s) PROVE Ahead
  <2>1. \A q \in Session : [run[r] EXCEPT !.bound[s] = endpoint[s]].bound[q] =
                             IF q = s THEN endpoint[s] ELSE run[r].bound[q]
    BY <1>0 DEF RunType
  <2>2. RunStep(r, [run[r] EXCEPT !.bound[s] = endpoint[s]]) /\ UNCHANGED endpoint
    BY <1>6 DEF Bind
  <2>3. \A q \in Session : endpoint[q] # 0 =>
          endpoint[q] >= [run[r] EXCEPT !.bound[s] = endpoint[s]].bound[q]
    BY <1>0, <1>k, <2>1
  <2> QED
    BY <1>2, <2>2, <2>3
<1>7. ASSUME NEW r \in Run, Dial(r) \/ Published(r) PROVE Ahead
  <2>1. [run[r] EXCEPT !.pc = "publish"].bound = run[r].bound
        /\ [run[r] EXCEPT !.pc = "connected"].bound = run[r].bound
    BY <1>0 DEF RunType
  <2>2. UNCHANGED endpoint /\ \/ RunStep(r, [run[r] EXCEPT !.pc = "publish"])
                              \/ RunStep(r, [run[r] EXCEPT !.pc = "connected"])
    BY <1>7 DEF Dial, Published
  <2> QED
    BY <1>2, <1>k, <2>1, <2>2
<1>8. ASSUME NEW r \in Run, ConnectFails(r) \/ Left(r) PROVE Ahead
  <2>1. [run[r] EXCEPT !.pc = "ended", !.bound = NoBinding].bound = NoBinding
    BY <1>0 DEF RunType
  <2>2. UNCHANGED endpoint /\ RunStep(r, [run[r] EXCEPT !.pc = "ended", !.bound = NoBinding])
    BY <1>8 DEF ConnectFails, Left
  <2> QED
    BY <1>2, <1>b, <2>1, <2>2
<1>9. ASSUME NEW r \in Run, NEW why \in {"cancelled", "lost", "stale"}, Leave(r, why) PROVE Ahead
  <2>1. [run[r] EXCEPT !.pc = "leaving"].bound = run[r].bound
    BY <1>0 DEF RunType
  <2>2. UNCHANGED endpoint /\ RunStep(r, [run[r] EXCEPT !.pc = "leaving"])
    BY <1>9 DEF Leave
  <2> QED
    BY <1>2, <1>k, <2>1, <2>2
<1>10. ASSUME NEW s \in Session, Replace(s) PROVE Ahead
  <2>1. PICK n \in {0} \cup 1..MaxReplaced :
          /\ n # 0 => \A r \in Run : n > run[r].bound[s]
          /\ endpoint' = [endpoint EXCEPT ![s] = n]
    BY <1>10 DEF Replace
  <2>2. endpoint'[s] = n /\ \A q \in Session : q # s => endpoint'[q] = endpoint[q]
    BY <1>0, <2>1
  <2>3. UNCHANGED run
    BY <1>10 DEF Replace
  <2>4. ASSUME NEW r \in Run, n # 0 PROVE n >= run[r].bound[s]
    BY <1>0, <2>1, <2>4
  <2> QED
    BY <1>k, <2>2, <2>3, <2>4
<1>11. CASE CliNext \/ Launch \/ Listen \/ Await \/ Reply \/ Stop \/ Exit
  BY <1>1, <1>11
  DEF CliNext, Update, Status, Reload, GiveUp, Again, Launch, Listen, Await, Reply, Stop, Exit
<1>12. CASE StreamNext
  BY <1>1, <1>12, OthersStay
<1>13. CASE UNCHANGED vars
  BY <1>1, <1>13 DEF vars
<1>14. CASE RunNext
  BY <1>5, <1>6, <1>7, <1>8, <1>9, <1>14 DEF RunNext
<1> QED
  BY <1>3, <1>4, <1>10, <1>11, <1>12, <1>13, <1>14 DEF Next, DaemonNext

(* Only Replace changes an endpoint.                                       *)
LEMMA OnlyReplace ==
  ASSUME TypeOK, [Next]_vars
  PROVE  UNCHANGED endpoint \/ \E s \in Session : Replace(s)
<1>1. CASE CliNext \/ DaemonNext
  BY <1>1
  DEF CliNext, DaemonNext, Update, Status, Reload, GiveUp, Again, Launch, Listen, CancelRun,
      Await, Load, Reply, Stop, Exit
<1>2. ASSUME NEW r \in Run,
             Begin(r) \/ Dial(r) \/ ConnectFails(r) \/ Published(r) \/ Left(r) \/ Retry(r)
      PROVE  UNCHANGED endpoint
  BY <1>2 DEF Begin, Dial, ConnectFails, Published, Left, Retry
<1>3. ASSUME NEW r \in Run, NEW s \in Session, Bind(r, s) PROVE UNCHANGED endpoint
  BY <1>3 DEF Bind
<1>4. ASSUME NEW r \in Run, NEW why \in {"cancelled", "lost", "stale"}, Leave(r, why)
      PROVE  UNCHANGED endpoint
  BY <1>4 DEF Leave
<1>5. CASE RunNext
  BY <1>2, <1>3, <1>4, <1>5 DEF RunNext
<1>6. CASE StreamNext
  BY <1>6, OthersStay
<1> QED
  BY <1>1, <1>5, <1>6 DEF Next, vars

LEMMA GotForward ==
  ASSUME TypeOK, Forward, [Next]_vars
  PROVE  \A x \in Stream : stream'[x].pc # "free" /\ endpoint'[stream'[x].session] # 0 =>
           endpoint'[stream'[x].session] >= stream'[x].got
<1> SUFFICES ASSUME NEW x \in Stream, stream'[x].pc # "free",
                    endpoint'[stream'[x].session] # 0
             PROVE  endpoint'[stream'[x].session] >= stream'[x].got
  OBVIOUS
<1>0. /\ endpoint \in [Session -> Nat] /\ stream[x] \in StreamType
      /\ stream[x].session \in Session /\ stream[x].got \in Nat
  BY InvTypes
<1>1. CASE StreamNext
  <2>1. UNCHANGED endpoint
    BY <1>1, OthersStay
  <2>2. CASE stream'[x] = stream[x]
    BY <2>1, <2>2 DEF Forward
  <2>3. CASE Opened(x)
    <3>1. stream'[x].session \in Session /\ stream'[x].got = 0
      BY <2>3 DEF Opened
    <3> QED
      BY <1>0, <2>1, <3>1
  <2>4. CASE Checked(x) \/ Connected(x) \/ Confirmed(x)
    <3>1. /\ stream[x].pc # "free" /\ stream'[x].session = stream[x].session
          /\ stream'[x].got = stream[x].got \/ stream'[x].got = endpoint[stream[x].session]
      BY <1>0, <2>4 DEF Checked, Connected, Confirmed, StreamType
    <3>2. endpoint[stream[x].session] \in Nat /\ endpoint[stream[x].session] >= stream[x].got
      BY <1>0, <2>1, <3>1 DEF Forward
    <3> QED
      BY <2>1, <3>1, <3>2
  <2> QED
    BY <1>1, <2>2, <2>3, <2>4, StreamBecomes DEF Freed
<1>2. CASE ~StreamNext
  <2>1. /\ stream[x].pc # "free" /\ stream'[x].got = stream[x].got
        /\ stream'[x].session = stream[x].session
    BY <1>2, StreamsSame DEF SameStream
  <2>2. CASE UNCHANGED endpoint
    BY <2>1, <2>2 DEF Forward
  <2>3. ASSUME NEW s \in Session, Replace(s) PROVE endpoint'[stream[x].session] >= stream[x].got
    <3>1. PICK n \in {0} \cup 1..MaxReplaced :
            /\ n # 0 => \A y \in Stream : stream[y].session = s => n > stream[y].got
            /\ endpoint' = [endpoint EXCEPT ![s] = n]
      BY <2>3 DEF Replace
    <3>2. CASE stream[x].session = s
      <4>1. endpoint'[s] = n /\ n # 0
        BY <1>0, <2>1, <3>1, <3>2
      <4>2. n > stream[x].got
        BY <3>1, <3>2, <4>1
      <4> QED
        BY <1>0, <3>2, <4>1, <4>2
    <3>3. CASE stream[x].session # s
      <4>1. endpoint'[stream[x].session] = endpoint[stream[x].session]
        BY <1>0, <3>1, <3>3
      <4> QED
        BY <2>1, <4>1 DEF Forward
    <3> QED
      BY <3>2, <3>3
  <2> QED
    BY <2>1, <2>2, <2>3, OnlyReplace
<1> QED
  BY <1>1, <1>2


(* An API call is written only where the check after connecting finds the  *)
(* pinned incarnation: one that was reached in between cannot be older, and*)
(* the endpoint cannot have come back to it.                               *)
LEMMA ReachedStep ==
  ASSUME TypeOK, OneRun, Held, Forward, Reached, [Next]_vars
  PROVE  Reached'
<1> SUFFICES ASSUME NEW x \in Stream
             PROVE  /\ stream'[x].pc \in {"recheck", "relay"} =>
                         stream'[x].got >= run'[stream'[x].of].bound[stream'[x].session]
                    /\ stream'[x].pc = "relay" /\ stream'[x].kind = "api" =>
                         stream'[x].got = run'[stream'[x].of].bound[stream'[x].session]
  BY DEF Reached
<1>0. /\ endpoint \in [Session -> Nat] /\ stream[x] \in StreamType
      /\ stream[x].session \in Session /\ stream[x].got \in Nat
      /\ \A r \in Run : run[r].bound \in [Session -> Nat]
  BY InvTypes
<1>1. CASE StreamNext
  <2>1. UNCHANGED run
    BY <1>1, OthersStay
  <2>2. CASE stream'[x] = stream[x]
    BY <2>1, <2>2 DEF Reached
  <2>3. CASE Freed(x)
    BY <2>3 DEF Freed
  <2>4. CASE Opened(x) \/ Checked(x)
    <3>1. Opened(x) => stream'[x].pc = "check"
      BY DEF Opened
    <3>2. Checked(x) => stream'[x].pc = "dial"
      BY <1>0 DEF Checked, StreamType
    <3> QED
      BY <2>4, <3>1, <3>2
  <2>5. CASE Connected(x)
    <3>1. PICK r \in Run : r = stream[x].of
      BY <2>5 DEF Connected, Held
    <3>2. /\ stream'[x].of = r /\ stream'[x].session = stream[x].session
          /\ stream'[x].kind = stream[x].kind /\ stream'[x].got = endpoint[stream[x].session]
          /\ stream'[x].kind = "api" => stream'[x].pc = "recheck"
      BY <1>0, <2>5, <3>1 DEF Connected, Rechecked, StreamType
    <3>3. endpoint[stream[x].session] >= run[r].bound[stream[x].session]
      BY <1>0, <2>5 DEF Connected, Forward
    <3> QED
      BY <2>1, <3>2, <3>3
  <2>6. CASE Confirmed(x)
    <3>1. PICK r \in Run : r = stream[x].of
      BY <2>6 DEF Confirmed, Held
    <3> DEFINE b == run[r].bound[stream[x].session]
               e == endpoint[stream[x].session]
    <3>2. /\ stream'[x].of = r /\ stream'[x].session = stream[x].session
          /\ stream'[x].got = stream[x].got
      BY <1>0, <2>6, <3>1 DEF Confirmed, StreamType
    <3>3. e # 0 /\ e = b
      BY <2>6, <3>1 DEF Confirmed, Fresh
    <3>4. stream[x].got >= b
      BY <2>6, <3>1 DEF Confirmed, Reached
    <3>5. e >= stream[x].got
      BY <2>6, <3>3 DEF Confirmed, Forward
    <3>6. b \in Nat /\ e \in Nat
      BY <1>0
    <3> HIDE DEF b, e
    <3>7. stream[x].got = b
      BY <1>0, <3>3, <3>4, <3>5, <3>6
    <3> QED
      BY <1>0, <2>1, <3>2, <3>6, <3>7 DEF b
  <2> QED
    BY <1>1, <2>2, <2>3, <2>4, <2>5, <2>6, StreamBecomes
<1>2. CASE ~StreamNext /\ stream[x].pc \in {"recheck", "relay"}
  <2>1. /\ stream'[x].pc = stream[x].pc /\ stream'[x].kind = stream[x].kind
        /\ stream'[x].of = stream[x].of /\ stream'[x].session = stream[x].session
        /\ stream'[x].got = stream[x].got
    BY <1>2, StreamsSame DEF SameStream
  <2>2. PICK r \in Run : r = stream[x].of /\ run[r].pc \in {"connected", "leaving"}
    BY <1>2 DEF Held
  <2>3. ~StreamsOver(r)
    BY <2>2 DEF StreamsOver
  <2>4. run'[r].bound = run[r].bound
    BY <2>2, <2>3, Kept
  <2> QED
    BY <2>1, <2>2, <2>4 DEF Reached
<1>3. CASE ~StreamNext /\ stream[x].pc \notin {"recheck", "relay"}
  <2>1. stream'[x].pc = stream[x].pc
    BY <1>3, StreamsSame DEF SameStream
  <2> QED
    BY <1>3, <2>1
<1> QED
  BY <1>1, <1>2, <1>3

LEMMA StreamInvariant == Spec => []StreamInv
<1>1. Init => StreamInv
  <2> SUFFICES ASSUME Init PROVE StreamInv
    OBVIOUS
  <2>1. TypeOK
    BY TypeInit
  <2>2. (\A r \in Run : run[r] = NoRun) /\ (\A x \in Stream : stream[x] = NoStream)
    BY DEF Init
  <2>3. /\ NoRun.pc = "over" /\ NoStream.pc = "free"
        /\ \A s \in Session : NoRun.bound[s] = 0 /\ endpoint[s] = 1
    BY DEF NoRun, NoStream, NoBinding, Init
  <2>4. OneRun /\ Pinned
    BY <2>2, <2>3 DEF Init, OneRun, Pinned
  <2>5. Held /\ Reached
    BY <2>2, <2>3 DEF Held, Reached
  <2>6. Forward
    BY <2>2, <2>3 DEF Forward
  <2> QED
    BY <2>1, <2>4, <2>5, <2>6 DEF StreamInv
<1>2. StreamInv /\ [Next]_vars => StreamInv'
  <2> SUFFICES ASSUME StreamInv, [Next]_vars PROVE StreamInv'
    OBVIOUS
  <2>1. TypeOK' /\ OneRun' /\ Pinned'
    BY TypeStep, OneRunStep, PinnedStep DEF StreamInv
  <2>2. Held' /\ Reached'
    BY HeldStep, ReachedStep DEF StreamInv
  <2>3. Forward'
    BY BoundsForward, GotForward DEF StreamInv, Forward
  <2> QED
    BY <2>1, <2>2, <2>3 DEF StreamInv
<1> QED
  BY <1>1, <1>2, PTL DEF Spec

(***************************************************************************)
(* "Disabling publication closes streams before acknowledgement", "pins    *)
(* outlive all handlers" and "close the stat-to-connect race": a stream is *)
(* what its publication is bound to, from the check that admits it until   *)
(* it ends, across reloads, stops and replaced sessions.                   *)
(***************************************************************************)
THEOREM StreamsAlwaysBound == Spec => []StreamsStayBound
<1>1. StreamInv => StreamsStayBound
  <2> SUFFICES ASSUME StreamInv, NEW x \in Stream, stream[x].pc # "free"
               PROVE  /\ loaded.enabled /\ stream[x].session \in loaded.rules
                      /\ run[stream[x].of].bound[stream[x].session] # 0
                      /\ stream[x].pc = "relay" /\ stream[x].kind = "api" =>
                           stream[x].got = run[stream[x].of].bound[stream[x].session]
    <3>1. "relay" # "free"
      OBVIOUS
    <3> QED
      BY <3>1 DEF StreamsStayBound, StreamsAreShared, PinsOutliveStreams, CallsReachTheirSession
  <2>1. PICK r \in Run : /\ r = stream[x].of /\ run[r].pc \in {"connected", "leaving"}
                         /\ stream[x].session \in run[r].rules
    BY DEF StreamInv, Held
  <2>2. loaded.enabled /\ run[r].rules = loaded.rules
    BY <2>1 DEF StreamInv, OneRun
  <2>3. run[r].bound[stream[x].session] # 0
    BY <2>1 DEF StreamInv, Pinned
  <2>4. stream[x].pc = "relay" /\ stream[x].kind = "api" =>
          stream[x].got = run[r].bound[stream[x].session]
    BY <2>1 DEF StreamInv, Reached
  <2> QED
    BY <2>1, <2>2, <2>3, <2>4
<1> QED
  BY StreamInvariant, <1>1, PTL

-----------------------------------------------------------------------------
(***************************************************************************)
(* Configuration changes.                                                  *)
(***************************************************************************)
InForce ==
  /\ \A a \in Cli : cli[a].version <= file.version
  /\ \A a \in Cli : cli[a].pc = "waiting" =>
       daemon.busy = a /\ daemon.pc \in {"cancel", "load", "reply"}
  /\ \A a \in Cli : cli[a].pc \in {"done", "waiting"} /\ daemon.pc \in {"idle", "reply"} =>
       loaded.version >= cli[a].version

(* A command is served from the idle state, so that the daemon loads what  *)
(* the command saved; one that finds nobody to tell is done while the      *)
(* daemon has yet to load.                                                 *)
LEMMA InForceStep == TypeOK /\ InForce /\ [Next]_vars => InForce'
<1> SUFFICES ASSUME TypeOK, InForce, [Next]_vars PROVE InForce'
  OBVIOUS
<1> USE DEF InForce
<1>0. /\ file.version \in Nat /\ loaded.version \in Nat
      /\ cli \in [Cli -> [pc : {"idle", "saved", "told", "waiting", "done", "failed"},
                          version : 0..MaxChanges]]
      /\ daemon \in [pc : {"off", "starting", "load", "idle", "cancel", "reply", "exit"},
                     busy : Cli \cup {NoOne}]
      /\ \A a \in Cli : cli[a].version \in Nat
  BY DEF TypeOK
<1>1. ASSUME NEW a \in Cli, NEW new \in Settings, Update(a, new) PROVE InForce'
  <2>1. /\ file'.version = file.version + 1 /\ UNCHANGED <<daemon, loaded>>
        /\ cli'[a] = [pc |-> "saved", version |-> file.version + 1]
        /\ \A c \in Cli : c # a => cli'[c] = cli[c]
    BY <1>0, <1>1 DEF Update
  <2> QED
    BY <1>0, <2>1
<1>2. ASSUME NEW a \in Cli, Status(a) PROVE InForce'
  <2>1. /\ UNCHANGED <<file, daemon, loaded>>
        /\ cli'[a].version = cli[a].version
        /\ cli'[a].pc = IF daemon.pc = "idle" THEN "told" ELSE "done"
        /\ \A c \in Cli : c # a => cli'[c] = cli[c]
    BY <1>0, <1>2 DEF Status
  <2>2. daemon.pc # "reply"
    BY <1>2 DEF Status, Stalled, Listening
  <2> QED
    BY <1>0, <2>1, <2>2
<1>3. ASSUME NEW a \in Cli, Reload(a) PROVE InForce'
  <2>1. CASE daemon.pc = "idle" /\ daemon' = [pc |-> "cancel", busy |-> a]
             /\ cli' = [cli EXCEPT ![a].pc = "waiting"]
    <3>1. /\ UNCHANGED <<file, loaded>> /\ daemon'.pc = "cancel" /\ daemon'.busy = a
          /\ cli'[a].version = cli[a].version
          /\ \A c \in Cli : c # a => cli'[c] = cli[c] /\ cli[c].pc # "waiting"
      BY <1>0, <1>3, <2>1 DEF Reload
    <3> QED
      BY <1>0, <3>1
  <2>2. CASE cli' = [cli EXCEPT ![a].pc = "failed"] /\ UNCHANGED daemon
    <3>1. /\ UNCHANGED <<file, loaded, daemon>>
          /\ cli'[a].version = cli[a].version /\ cli'[a].pc = "failed"
          /\ \A c \in Cli : c # a => cli'[c] = cli[c]
      BY <1>0, <1>3, <2>2 DEF Reload
    <3> QED
      BY <1>0, <3>1
  <2> QED
    BY <1>3, <2>1, <2>2 DEF Reload
<1>4. ASSUME NEW a \in Cli, GiveUp(a) \/ Again(a) PROVE InForce'
  <2>1. /\ UNCHANGED <<file, loaded, daemon>>
        /\ cli'[a].version \in {0, cli[a].version} /\ cli'[a].pc \in {"failed", "idle"}
        /\ \A c \in Cli : c # a => cli'[c] = cli[c]
    BY <1>0, <1>4 DEF GiveUp, Again
  <2> QED
    BY <1>0, <2>1
<1>5. CASE Launch \/ Listen \/ Await \/ Stop \/ Exit
  <2>1. /\ UNCHANGED <<file, cli, loaded>> /\ daemon'.busy = daemon.busy
        /\ daemon'.pc \notin {"idle", "reply"}
        /\ daemon.pc \in {"cancel", "load", "reply"} => daemon'.pc \in {"cancel", "load", "reply"}
    BY <1>0, <1>5 DEF Launch, Listen, Await, Stop, Exit
  <2> QED
    BY <2>1
<1>6. CASE Load
  <2>1. /\ UNCHANGED <<file, cli>> /\ daemon'.busy = daemon.busy
        /\ daemon.busy # NoOne => daemon'.pc = "reply"
        /\ loaded'.version = file.version
    BY <1>0, <1>6 DEF Load, NoSettings
  <2>2. \A a \in Cli : a # NoOne
    OBVIOUS
  <2> QED
    BY <1>0, <2>1, <2>2
<1>7. CASE Reply
  <2>1. /\ UNCHANGED <<file, loaded>> /\ daemon.pc = "reply"
        /\ \A a \in Cli : /\ cli'[a].version = cli[a].version
                          /\ a = daemon.busy => cli'[a].pc # "waiting"
                          /\ cli'[a].pc = "done" => cli[a].pc \in {"waiting", "done"}
                          /\ a # daemon.busy => cli'[a] = cli[a]
    BY <1>0, <1>7 DEF Reply
  <2> QED
    BY <1>0, <2>1
<1>8. CASE UNCHANGED hostVars
  BY <1>8 DEF hostVars
<1>9. CASE CancelRun
  BY <1>8, <1>9 DEF CancelRun
<1>10. ASSUME NEW r \in Run,
              Begin(r) \/ Dial(r) \/ ConnectFails(r) \/ Published(r) \/ Left(r) \/ Retry(r)
       PROVE  UNCHANGED hostVars
  BY <1>10 DEF Begin, Dial, ConnectFails, Published, Left, Retry
<1>11. ASSUME NEW r \in Run, NEW s \in Session, Bind(r, s) PROVE UNCHANGED hostVars
  BY <1>11 DEF Bind
<1>12. ASSUME NEW r \in Run, NEW why \in {"cancelled", "lost", "stale"}, Leave(r, why)
       PROVE  UNCHANGED hostVars
  BY <1>12 DEF Leave
<1>13. CASE RunNext
  BY <1>8, <1>10, <1>11, <1>12, <1>13 DEF RunNext
<1>14. CASE StreamNext
  BY <1>8, <1>14, OthersStay
<1>15. ASSUME NEW s \in Session, Replace(s) PROVE UNCHANGED hostVars
  BY <1>15 DEF Replace
<1>16. CASE UNCHANGED vars
  BY <1>8, <1>16 DEF vars, hostVars
<1>17. CASE CliNext
  BY <1>1, <1>2, <1>3, <1>4, <1>17 DEF CliNext
<1> QED
  BY <1>5, <1>6, <1>7, <1>8, <1>9, <1>13, <1>14, <1>15, <1>16, <1>17 DEF Next, DaemonNext

(***************************************************************************)
(* A command that has succeeded is in force: a daemon that serves requests *)
(* has loaded its change, also one that was starting, leaving or too busy  *)
(* when the command met it, and told nobody; and an earlier configuration  *)
(* is only published by a Run that such a daemon is about to end.  The     *)
(* latter is OneRun: a daemon that is off, starting or about to load has   *)
(* no Run.                                                                 *)
(***************************************************************************)
THEOREM ChangesAlwaysTakeEffect == Spec => []ChangesTakeEffect
<1>1. Init => TypeOK /\ InForce
  <2> SUFFICES ASSUME Init PROVE InForce
    BY TypeInit
  <2>1. /\ file.version = 0 /\ daemon.pc = "off"
        /\ \A a \in Cli : cli[a].pc = "idle" /\ cli[a].version = 0
    BY DEF Init, NoSettings
  <2> QED
    BY <2>1 DEF InForce
<1>2. (TypeOK /\ InForce) /\ [Next]_vars => (TypeOK /\ InForce)'
  BY TypeStep, InForceStep
<1>3. TypeOK /\ OneRun /\ InForce => ChangesTakeEffect
  <2> SUFFICES ASSUME TypeOK, OneRun, InForce, NEW a \in Cli,
                      cli[a].pc = "done", loaded.version < cli[a].version
               PROVE  /\ daemon.pc \notin {"idle", "reply"}
                      /\ \A r \in Run : run[r].pc # "over" => Stalled
    BY DEF ChangesTakeEffect
  <2>1. loaded.version \in Nat /\ cli[a].version \in Nat
    BY DEF TypeOK
  <2>2. daemon.pc \notin {"idle", "reply"}
    BY <2>1 DEF InForce
  <2>3. ASSUME NEW r \in Run, run[r].pc # "over" PROVE Stalled
    <3>1. current = r /\ r # NoOne
      BY <2>3 DEF OneRun
    <3>2. daemon.pc \notin {"off", "starting", "load"}
      BY <3>1 DEF OneRun
    <3>3. daemon.pc \in {"off", "starting", "load", "idle", "cancel", "reply", "exit"}
      BY DEF TypeOK
    <3> QED
      BY <2>2, <3>2, <3>3 DEF Stalled
  <2> QED
    BY <2>2, <2>3
<1>4. StreamInv => OneRun
  BY DEF StreamInv
<1> QED
  BY <1>1, <1>2, <1>3, <1>4, StreamInvariant, PTL DEF Spec

=============================================================================
