------------------------------ MODULE Publisher ------------------------------
(***************************************************************************)
(* Bee's background publisher: the daemon with its control socket          *)
(* (bee/internal/publisher/daemon.go), the retry loop and the connection   *)
(* to Hive (publisher.go), the streams that Hive opens over it (handle,    *)
(* Bound in bee/internal/herdr/local.go, ServeAPI in api.go), and the      *)
(* commands that change its configuration (App.change in app.go).          *)
(*                                                                         *)
(* Herdr may replace the endpoints of a session at any time: an endpoint   *)
(* is the number of its incarnation.  Descriptors that are kept open on    *)
(* both endpoints (pins) rule out that an incarnation returns.             *)
(*                                                                         *)
(* A goroutine that runs Run has a slot in Run, so that two of them could  *)
(* exist; a stream has a slot in Stream (64 of them in the code).  A       *)
(* stream of kind "client" checks its endpoint and connects to it, as the  *)
(* other kinds do, except for "api".                                       *)
(***************************************************************************)
EXTENDS Integers, FiniteSets

CONSTANTS
  Session,      \* local Herdr sessions
  Cli,          \* bee commands that change the configuration
  Run,          \* goroutines of Run
  Stream,       \* handlers of Hive's channels
  Settings,     \* configurations: [enabled, rules]
  MaxChanges,   \* how often the configuration changes
  MaxReplaced,  \* how often an endpoint is replaced
  NoOne

ASSUME PublisherAssumption ==
  /\ Settings \subseteq [enabled : BOOLEAN, rules : SUBSET Session]
  /\ MaxChanges \in Nat /\ MaxReplaced \in Nat /\ NoOne \notin Cli \cup Run
  /\ Session # {}

VARIABLES
  file,         \* config.json, with the number of the change that wrote it
  cli,          \* the commands
  daemon,       \* [pc, busy]: the control loop and the command it serves
  loaded,       \* the configuration of the last reload
  status,       \* what "bee status" shows
  current,      \* the Run that the daemon can cancel
  run,          \* the goroutines of Run
  endpoint,     \* the incarnation of every session's endpoints; 0: none
  stream        \* the streams

vars == <<file, cli, daemon, loaded, status, current, run, endpoint, stream>>
hostVars == <<file, cli, daemon, loaded>>

NoBinding == [s \in Session |-> 0]
NoRun == [pc |-> "over", cancelled |-> FALSE, rules |-> {}, bound |-> NoBinding]
NoStream == [pc |-> "free", kind |-> "client", of |-> NoOne,
             session |-> CHOOSE s \in Session : TRUE, got |-> 0, cancelled |-> FALSE]
NoSettings == [enabled |-> FALSE, rules |-> {}, version |-> 0]
Blank(on) == [enabled |-> on, connected |-> FALSE, error |-> FALSE]

Init ==
  /\ file = NoSettings /\ loaded = NoSettings /\ status = Blank(FALSE)
  /\ cli = [a \in Cli |-> [pc |-> "idle", version |-> 0]]
  /\ daemon = [pc |-> "off", busy |-> NoOne]
  /\ current = NoOne /\ run = [r \in Run |-> NoRun]
  /\ endpoint = [s \in Session |-> 1]
  /\ stream = [x \in Stream |-> NoStream]

-----------------------------------------------------------------------------
(***************************************************************************)
(* bee share, unshare, enable, disable: App.change.                        *)
(***************************************************************************)
(* config.Update, under its file lock.                                     *)
Update(a, new) ==
  /\ cli[a].pc = "idle" /\ file.version < MaxChanges
  /\ file' = [enabled |-> new.enabled, rules |-> new.rules, version |-> file.version + 1]
  /\ cli' = [cli EXCEPT ![a] = [pc |-> "saved", version |-> file.version + 1]]
  /\ UNCHANGED <<daemon, loaded, status, current, run, endpoint, stream>>

Listening == daemon.pc \notin {"off", "starting"}

(* Faulty: a daemon that is busy is taken for one that is not there.       *)
StatusImpatient(a) ==
  /\ cli[a].pc = "saved"
  /\ cli' = [cli EXCEPT ![a].pc = IF daemon.pc = "idle" THEN "told" ELSE "done"]
  /\ UNCHANGED <<file, daemon, loaded, status, current, run, endpoint, stream>>

(* The daemon waits for a Run to end: a command may give up after 10       *)
(* seconds.                                                                *)
Stalled == daemon.pc \in {"cancel", "exit"}

(* Control "status": without an answer there is nobody to tell.            *)
Status(a) ==
  /\ cli[a].pc = "saved" /\ (daemon.pc = "idle" \/ Stalled \/ ~Listening)
  /\ cli' = [cli EXCEPT ![a].pc = IF daemon.pc = "idle" THEN "told" ELSE "done"]
  /\ UNCHANGED <<file, daemon, loaded, status, current, run, endpoint, stream>>

(* Control "reload" is accepted, or fails since the daemon has left or     *)
(* makes the command wait too long.                                        *)
Reload(a) ==
  /\ cli[a].pc = "told"
  /\ \/ /\ daemon.pc = "idle"
        /\ daemon' = [pc |-> "cancel", busy |-> a]
        /\ cli' = [cli EXCEPT ![a].pc = "waiting"]
     \/ /\ Stalled \/ ~Listening
        /\ cli' = [cli EXCEPT ![a].pc = "failed"] /\ UNCHANGED daemon
  /\ UNCHANGED <<file, loaded, status, current, run, endpoint, stream>>

(* It is accepted and takes too long: the daemon finishes it all the same. *)
GiveUp(a) ==
  /\ cli[a].pc = "waiting" /\ Stalled
  /\ cli' = [cli EXCEPT ![a].pc = "failed"]
  /\ UNCHANGED <<file, daemon, loaded, status, current, run, endpoint, stream>>

Again(a) ==
  /\ cli[a].pc \in {"done", "failed"}
  /\ cli' = [cli EXCEPT ![a] = [pc |-> "idle", version |-> 0]]
  /\ UNCHANGED <<file, daemon, loaded, status, current, run, endpoint, stream>>

-----------------------------------------------------------------------------
(***************************************************************************)
(* Daemon.                                                                 *)
(***************************************************************************)
(* The lock of the directory is taken.                                     *)
Launch ==
  /\ daemon.pc = "off"
  /\ daemon' = [daemon EXCEPT !.pc = "starting"]
  /\ UNCHANGED <<file, cli, loaded, status, current, run, endpoint, stream>>

(* The control socket exists before the first reload.                      *)
Listen ==
  /\ daemon.pc = "starting"
  /\ daemon' = [daemon EXCEPT !.pc = "load"]
  /\ UNCHANGED <<file, cli, loaded, status, current, run, endpoint, stream>>

(* reload: cancel().  A stop of the process cancels as well.               *)
CancelRun ==
  /\ daemon.pc \in {"cancel", "exit"} /\ current # NoOne /\ ~run[current].cancelled
  /\ run' = [run EXCEPT ![current].cancelled = TRUE]
  /\ UNCHANGED <<hostVars, status, current, endpoint, stream>>

(* <-done.                                                                 *)
RunOver == current # NoOne => run[current].pc = "over"

Await ==
  /\ daemon.pc = "cancel" /\ RunOver
  /\ daemon' = [daemon EXCEPT !.pc = "load"] /\ current' = NoOne
  /\ UNCHANGED <<file, cli, loaded, status, run, endpoint, stream>>

(* reload: config.Load, and a new Run if sharing is enabled; a file that   *)
(* cannot be read counts as disabled.                                      *)
Load ==
  /\ daemon.pc = "load"
  /\ daemon' = [daemon EXCEPT !.pc = IF daemon.busy = NoOne THEN "idle" ELSE "reply"]
  /\ \/ loaded' = file /\ status' = Blank(file.enabled)
     \/ /\ loaded' = [NoSettings EXCEPT !.version = file.version]
        /\ status' = [Blank(FALSE) EXCEPT !.error = TRUE]
  /\ IF loaded'.enabled
     THEN \E r \in Run :
            /\ run[r].pc = "over" /\ current' = r
            /\ run' = [run EXCEPT ![r] = [NoRun EXCEPT !.pc = "begin", !.rules = loaded'.rules]]
     ELSE UNCHANGED <<current, run>>
  /\ UNCHANGED <<file, cli, endpoint, stream>>

(* The answer to reload; a daemon that is not enabled any more leaves.     *)
Reply ==
  /\ daemon.pc = "reply"
  /\ cli' = [cli EXCEPT ![daemon.busy].pc = IF @ = "waiting" THEN "done" ELSE @]
  /\ daemon' = [pc |-> IF status.enabled THEN "idle" ELSE "exit", busy |-> NoOne]
  /\ UNCHANGED <<file, loaded, status, current, run, endpoint, stream>>

(* A signal, or Control "restart".                                         *)
Stop ==
  /\ daemon.pc = "idle"
  /\ daemon' = [daemon EXCEPT !.pc = "exit"]
  /\ UNCHANGED <<file, cli, loaded, status, current, run, endpoint, stream>>

(* The deferred calls: the Run is over, the socket and the lock are gone.  *)
Exit ==
  /\ daemon.pc = "exit" /\ RunOver
  /\ daemon' = [daemon EXCEPT !.pc = "off"] /\ current' = NoOne
  /\ status' = Blank(FALSE)
  /\ UNCHANGED <<file, cli, loaded, run, endpoint, stream>>

-----------------------------------------------------------------------------
(***************************************************************************)
(* Run and connect.                                                        *)
(***************************************************************************)
RunStep(r, new) == run' = [run EXCEPT ![r] = new]

(* The loop of Run: leave, or connect.                                     *)
Begin(r) ==
  /\ run[r].pc = "begin"
  /\ RunStep(r, IF run[r].cancelled THEN NoRun ELSE [run[r] EXCEPT !.pc = "bind"])
  /\ UNCHANGED <<hostVars, status, current, endpoint, stream>>

(* Bind: the endpoints of one more selected session are pinned.            *)
Bind(r, s) ==
  /\ run[r].pc = "bind" /\ s \in run[r].rules
  /\ run[r].bound[s] = 0 /\ endpoint[s] # 0
  /\ RunStep(r, [run[r] EXCEPT !.bound[s] = endpoint[s]])
  /\ UNCHANGED <<hostVars, status, current, endpoint, stream>>

(* dial, when every session is bound; Run's context ends it.               *)
Dial(r) ==
  /\ run[r].pc = "bind" /\ run[r].rules # {} /\ \A s \in run[r].rules : run[r].bound[s] # 0
  /\ ~run[r].cancelled
  /\ RunStep(r, [run[r] EXCEPT !.pc = "publish"])
  /\ UNCHANGED <<hostVars, status, current, endpoint, stream>>

(* A step of connect fails: what it had is released.                       *)
ConnectFails(r) ==
  /\ run[r].pc \in {"bind", "publish"}
  /\ RunStep(r, [run[r] EXCEPT !.pc = "ended", !.bound = NoBinding])
  /\ UNCHANGED <<hostVars, status, current, endpoint, stream>>

(* Hive accepted the publication.                                          *)
Published(r) ==
  /\ run[r].pc = "publish"
  /\ RunStep(r, [run[r] EXCEPT !.pc = "connected"])
  /\ status' = [enabled |-> TRUE, connected |-> TRUE, error |-> FALSE]
  /\ UNCHANGED <<hostVars, current, endpoint, stream>>

Stale(r) == \E s \in run[r].rules : endpoint[s] # run[r].bound[s]

(* Faulty: bindings are not checked while connected.                       *)
LeaveUnlessStale(r, why) ==
  /\ run[r].pc = "connected"
  /\ why = "lost" \/ (why = "cancelled" /\ run[r].cancelled)
  /\ RunStep(r, [run[r] EXCEPT !.pc = "leaving"])
  /\ stream' = [x \in Stream |->
       IF stream[x].of = r THEN [stream[x] EXCEPT !.cancelled = TRUE] ELSE stream[x]]
  /\ UNCHANGED <<hostVars, status, current, endpoint>>

(* Faulty: the streams are waited for and not cancelled.                   *)
LeaveUncancelled(r, why) ==
  /\ run[r].pc = "connected"
  /\ CASE why = "cancelled" -> run[r].cancelled
       [] why = "lost" -> TRUE
       [] why = "stale" -> Stale(r)
  /\ RunStep(r, [run[r] EXCEPT !.pc = "leaving"])
  /\ UNCHANGED <<hostVars, status, current, endpoint, stream>>

(* connect leaves its loop: cancelled, Hive gone, or an endpoint replaced. *)
(* The connection is closed before the streams are cancelled.              *)
Leave(r, why) ==
  /\ run[r].pc = "connected"
  /\ CASE why = "cancelled" -> run[r].cancelled
       [] why = "lost" -> TRUE
       [] why = "stale" -> Stale(r)
  /\ RunStep(r, [run[r] EXCEPT !.pc = "leaving"])
  /\ stream' = [x \in Stream |->
       IF stream[x].of = r THEN [stream[x] EXCEPT !.cancelled = TRUE] ELSE stream[x]]
  /\ UNCHANGED <<hostVars, status, current, endpoint>>

(* wg.Wait.                                                                *)
StreamsOver(r) == \A x \in Stream : stream[x].of # r

(* And then the pins are released.                                         *)
Left(r) ==
  /\ run[r].pc = "leaving" /\ StreamsOver(r)
  /\ RunStep(r, [run[r] EXCEPT !.pc = "ended", !.bound = NoBinding])
  /\ UNCHANGED <<hostVars, status, current, endpoint, stream>>

(* Run, after connect: leave, or report the error and wait for a retry.    *)
Retry(r) ==
  /\ run[r].pc = "ended"
  /\ IF run[r].cancelled
     THEN RunStep(r, NoRun) /\ UNCHANGED status
     ELSE /\ RunStep(r, [run[r] EXCEPT !.pc = "begin"])
          /\ status' = [enabled |-> TRUE, connected |-> FALSE, error |-> TRUE]
  /\ UNCHANGED <<hostVars, current, endpoint, stream>>

(* Herdr replaces or removes the endpoints of a session.                   *)
Replace(s) ==
  /\ \E n \in {0} \cup 1..MaxReplaced :
       /\ n # endpoint[s]
       /\ n # 0 => /\ n > endpoint[s]
                   /\ \A r \in Run : n > run[r].bound[s]
                   /\ \A x \in Stream : stream[x].session = s => n > stream[x].got
       /\ endpoint' = [endpoint EXCEPT ![s] = n]
  /\ UNCHANGED <<hostVars, status, current, run, stream>>

-----------------------------------------------------------------------------
(***************************************************************************)
(* handle: a stream that Hive opens.                                       *)
(***************************************************************************)
StreamStep(x, new) == stream' = [stream EXCEPT ![x] = new]
Over(x) == StreamStep(x, NoStream)

(* A channel for a session that is bound, while a slot is free.            *)
Open(x, r, s, kind) ==
  /\ stream[x] = NoStream /\ run[r].pc = "connected" /\ s \in run[r].rules
  /\ StreamStep(x, [pc |-> "check", kind |-> kind, of |-> r, session |-> s, got |-> 0,
                    cancelled |-> FALSE])
  /\ UNCHANGED <<hostVars, status, current, run, endpoint>>

(* Bound.Check.                                                            *)
Fresh(x) ==
  /\ endpoint[stream[x].session] # 0
  /\ endpoint[stream[x].session] = run[stream[x].of].bound[stream[x].session]

(* Check, before connecting.                                               *)
Check(x) ==
  /\ stream[x].pc = "check"
  /\ IF Fresh(x) THEN StreamStep(x, [stream[x] EXCEPT !.pc = "dial"]) ELSE Over(x)
  /\ UNCHANGED <<hostVars, status, current, run, endpoint>>

(* Faulty: an API call is written after connecting.                        *)
Unchecked == {}

(* The kinds that check again after connecting: ServeAPI.                  *)
Rechecked == {"api"}

(* Connecting reaches the endpoint that exists now, or none.               *)
Connect(x) ==
  /\ stream[x].pc = "dial"
  /\ IF endpoint[stream[x].session] = 0 THEN Over(x)
     ELSE StreamStep(x, [stream[x] EXCEPT
            !.got = endpoint[stream[x].session],
            !.pc = IF stream[x].kind \in Rechecked THEN "recheck" ELSE "relay"])
  /\ UNCHANGED <<hostVars, status, current, run, endpoint>>

(* Check, before the request is written.                                   *)
Recheck(x) ==
  /\ stream[x].pc = "recheck"
  /\ IF Fresh(x) THEN StreamStep(x, [stream[x] EXCEPT !.pc = "relay"]) ELSE Over(x)
  /\ UNCHANGED <<hostVars, status, current, run, endpoint>>

(* Either side ends, the context is cancelled, or a step fails.            *)
End(x) ==
  /\ stream[x].pc # "free"
  /\ Over(x)
  /\ UNCHANGED <<hostVars, status, current, run, endpoint>>

-----------------------------------------------------------------------------
CliNext ==
  \E a \in Cli :
    \/ \E new \in Settings : Update(a, new)
    \/ Status(a) \/ Reload(a) \/ GiveUp(a) \/ Again(a)

DaemonNext ==
  Launch \/ Listen \/ CancelRun \/ Await \/ Load \/ Reply \/ Stop \/ Exit

RunNext ==
  \E r \in Run :
    \/ Begin(r) \/ Dial(r) \/ ConnectFails(r) \/ Published(r) \/ Left(r) \/ Retry(r)
    \/ \E s \in Session : Bind(r, s)
    \/ \E why \in {"cancelled", "lost", "stale"} : Leave(r, why)

StreamNext ==
  \/ \E x \in Stream, r \in Run, s \in Session, kind \in {"client", "api"} : Open(x, r, s, kind)
  \/ \E x \in Stream : Check(x) \/ Connect(x) \/ Recheck(x) \/ End(x)

Next ==
  \/ CliNext \/ DaemonNext \/ RunNext \/ StreamNext
  \/ \E s \in Session : Replace(s)

Spec == Init /\ [][Next]_vars

(***************************************************************************)
(* Every goroutine goes on: the calls it waits for have time limits (5     *)
(* seconds for session list, 10 for the handshake, 45 for a silent Hive)   *)
(* or end with its context.  A stream ends when it is cancelled.           *)
(***************************************************************************)
Fairness ==
  /\ WF_vars(Listen) /\ WF_vars(CancelRun) /\ WF_vars(Await) /\ WF_vars(Load)
  /\ WF_vars(Reply) /\ WF_vars(Exit)
  /\ \A r \in Run :
       /\ WF_vars(Begin(r)) /\ WF_vars(ConnectFails(r)) /\ WF_vars(Left(r))
       /\ WF_vars(Leave(r, "cancelled")) /\ WF_vars(Leave(r, "stale")) /\ WF_vars(Retry(r))
  /\ \A x \in Stream :
       /\ WF_vars(Check(x)) /\ WF_vars(Connect(x)) /\ WF_vars(Recheck(x))
       /\ WF_vars(stream[x].cancelled /\ End(x))

FairSpec == Spec /\ Fairness

-----------------------------------------------------------------------------
(* The shape of the state; one command is served at a time.                *)
TypeOK ==
  /\ daemon.pc \in {"off", "starting", "idle", "exit"} => daemon.busy = NoOne
  /\ file \in [enabled : BOOLEAN, rules : SUBSET Session, version : 0..MaxChanges]
  /\ loaded \in [enabled : BOOLEAN, rules : SUBSET Session, version : 0..MaxChanges]
  /\ cli \in [Cli -> [pc : {"idle", "saved", "told", "waiting", "done", "failed"},
                      version : 0..MaxChanges]]
  /\ daemon \in [pc : {"off", "starting", "load", "idle", "cancel", "reply", "exit"},
                 busy : Cli \cup {NoOne}]
  /\ status \in [enabled : BOOLEAN, connected : BOOLEAN, error : BOOLEAN]
  /\ current \in Run \cup {NoOne}
  /\ run \in [Run -> [pc : {"over", "begin", "bind", "publish", "connected", "leaving", "ended"},
                      cancelled : BOOLEAN, rules : SUBSET Session,
                      bound : [Session -> Nat]]]
  /\ endpoint \in [Session -> Nat]
  /\ stream \in [Stream -> [pc : {"free", "check", "dial", "recheck", "relay"},
                            kind : {"client", "api"}, of : Run \cup {NoOne},
                            session : Session, got : Nat, cancelled : BOOLEAN]]

(***************************************************************************)
(* "Disabling publication closes streams ... before acknowledgement": no   *)
(* stream is open for a session that the configuration the daemon last     *)
(* loaded does not share.                                                  *)
(***************************************************************************)
StreamsAreShared ==
  \A x \in Stream : stream[x].pc # "free" =>
    loaded.enabled /\ stream[x].session \in loaded.rules

(***************************************************************************)
(* A command that has succeeded is in force: a daemon that serves requests *)
(* has loaded its change, also when the command met a daemon that was      *)
(* starting, leaving or too busy to answer, and told nobody.  Only in the  *)
(* last two cases may a Run still publish what an earlier configuration    *)
(* shared, while the daemon is ending it: App.change takes the missing     *)
(* answer for the absence of a daemon.                                     *)
(***************************************************************************)
ChangesTakeEffect ==
  \A a \in Cli : cli[a].pc = "done" /\ loaded.version < cli[a].version =>
    /\ daemon.pc \notin {"idle", "reply"}
    /\ \A r \in Run : run[r].pc # "over" => Stalled

(***************************************************************************)
(* "pins outlive all handlers": while a stream runs, the endpoints of its  *)
(* session stay pinned, so that no incarnation can be taken for another.   *)
(***************************************************************************)
PinsOutliveStreams ==
  \A x \in Stream : stream[x].pc # "free" =>
    run[stream[x].of].bound[stream[x].session] # 0

(***************************************************************************)
(* "Close the stat-to-connect race": an API call is only ever written to   *)
(* the incarnation its publication is bound to.                            *)
(***************************************************************************)
CallsReachTheirSession ==
  \A x \in Stream : stream[x].pc = "relay" /\ stream[x].kind = "api" =>
    stream[x].got = run[stream[x].of].bound[stream[x].session]

(***************************************************************************)
(* A stream is what its publication is bound to, from the check that admits*)
(* it until it ends, across reloads and replaced sessions.                 *)
(***************************************************************************)
StreamsStayBound == StreamsAreShared /\ PinsOutliveStreams /\ CallsReachTheirSession

(***************************************************************************)
(* "Within a connected publication, changed socket identities reject new   *)
(* streams" (docs/DESIGN.md:88-89): no stream of any kind relays to an     *)
(* incarnation its publication is not bound to.                            *)
(***************************************************************************)
StreamsReachTheirSession ==
  \A x \in Stream : stream[x].pc = "relay" =>
    stream[x].got = run[stream[x].of].bound[stream[x].session]

(***************************************************************************)
(* A publication of replaced endpoints is withdrawn, with its streams.     *)
(***************************************************************************)
StaleIsWithdrawn ==
  \A r \in Run : (run[r].pc = "connected" /\ Stale(r)) ~> (run[r].pc \in {"ended", "over"})

(***************************************************************************)
(* A reload is answered, whatever Hive, the streams and the endpoints do.  *)
(***************************************************************************)
ReloadsAreAnswered ==
  \A a \in Cli : cli[a].pc = "waiting" ~> cli[a].pc # "waiting"

=============================================================================
