----------------------------- MODULE ServerProofs -----------------------------
(***************************************************************************)
(* The server's invariants, for any number of connections, devices,        *)
(* channels and sources.  The argument has layers; Lives is below all of   *)
(* them, and Relays and Gone rest on Bindings:                             *)
(*   Lives      what a connection may still do at each stage of its life;  *)
(*   Bindings   shares and owners agree and name live connections;         *)
(*   Relays     every relay is held by its publication or being closed;    *)
(*   Opens      the mark "opening" belongs to exactly one caller;          *)
(*   Gone       a server that has returned has nothing left.               *)
(***************************************************************************)
EXTENDS Server, FiniteSetTheorems, TLAPS

USE ServerAssumption

HandlerType ==
  [pc : {"free", "started", "opening", "check", "relay", "viewing", "closing", "leaving"},
   kind : {"client", "query", "api", "viewer"}, at : Conn \cup {NoConn},
   pub : Conn \cup {NoConn}, open : BOOLEAN, severed : BOOLEAN]

StreamType ==
  [caller : {"none", "called", "claimed", "waiting", "check", "streaming"},
   worker : {"none", "asking", "opened", "refused", "leaving"},
   viewer : Handler \cup {NoConn}, pub : Conn \cup {NoConn},
   open : BOOLEAN, severed : BOOLEAN, cancelled : BOOLEAN]

(* The requests of a connection come and end before it is withdrawn; after *)
(* that nothing of it is alive.                                            *)
Lives ==
  /\ \A c \in queued \cup drained : conn[c] \notin {"new", "accepted", "handshake"}
  /\ drained \cap (alive \cup queued) = {}
  /\ \A c \in alive : conn[c] \notin {"draining", "severing"}
  /\ \A c \in Conn : conn[c] = "severing" => c \in drained
  /\ \A c \in Conn : closeList[c] # {} => conn[c] = "severing"

(* A channel, or a source, that names a publication names a connection; a  *)
(* channel is served for a connection that waits for it.                   *)
Named ==
  /\ \A h \in Handler :
       /\ handler[h].pc \in {"opening", "check", "relay"} => handler[h].pub \in Conn
       /\ handler[h].pc # "free" =>
            handler[h].at \in Conn /\ conn[handler[h].at] \in {"open", "draining", "severing"}
  /\ \A x \in Stream :
       stream[x].caller # "none" \/ stream[x].worker # "none" => stream[x].pub \in Conn

LifeInv == TypeOK /\ Lives /\ Named

LEMMA NoHandlerType == NoHandler \in HandlerType /\ NoHandler.pc = "free"
BY DEF NoHandler, HandlerType

LEMMA NoStreamType ==
  NoStream \in StreamType /\ NoStream.caller = "none" /\ NoStream.worker = "none"
  /\ NoStream.open = FALSE
BY DEF NoStream, StreamType

LEMMA LifeInit == Init => LifeInv
<1> SUFFICES ASSUME Init PROVE LifeInv
  OBVIOUS
<1>1. TypeOK
  BY NoHandlerType, NoStreamType
  DEF Init, TypeOK, Places, Tracked, HandlerType, StreamType
<1>2. Lives
  BY DEF Init, Lives
<1>3. Named
  BY NoHandlerType, NoStreamType DEF Init, Named
<1> QED
  BY <1>1, <1>2, <1>3 DEF LifeInv

(* A step of Serve: it accepts, registers, shuts down.                     *)
LEMMA LifeServe == LifeInv /\ ServeNext => LifeInv'
<1> SUFFICES ASSUME LifeInv, ServeNext PROVE LifeInv'
  OBVIOUS
<1> USE DEF LifeInv, TypeOK, Lives, Named, Places, Tracked, serveVars, connVars, shareVars
<1>1. ASSUME NEW c \in Conn, Accept(c) PROVE LifeInv'
  BY <1>1 DEF Accept
<1>2. ASSUME NEW c \in Conn, Reject(c) PROVE LifeInv'
  BY <1>2 DEF Reject
<1>3. ASSUME NEW c \in Conn, Register(c) PROVE LifeInv'
  BY <1>3 DEF Register
<1>4. CASE Cancel \/ ListenerFails \/ Sweep \/ LoopExits \/ Return
  BY <1>4 DEF Cancel, ListenerFails, Sweep, LoopExits, Return
<1> QED
  BY <1>1, <1>2, <1>3, <1>4 DEF ServeNext


(* The records that the steps of a channel, or of a source, are made from. *)
LEMMA RecordTypes ==
  ASSUME LifeInv
  PROVE  /\ handler \in [Handler -> HandlerType] /\ stream \in [Stream -> StreamType]
         /\ \A h \in Handler : handler[h] \in HandlerType
         /\ \A x \in Stream : stream[x] \in StreamType
         /\ active \in [Conn -> SUBSET (Handler \cup Stream)] /\ opening \subseteq Conn
         /\ \A d \in Device : shares[d] \in Conn \cup {NoConn}
BY DEF LifeInv, TypeOK, HandlerType, StreamType

(* Closing one channel of a withdrawn publication only marks it.           *)
LEMMA LifeSever ==
  ASSUME LifeInv, NEW c \in Conn, Sever(c)
  PROVE  LifeInv'
<1>0. PICK z \in closeList[c] :
        /\ closeList' = [closeList EXCEPT ![c] = @ \ {z}]
        /\ IF z \in Handler
           THEN handler' = [handler EXCEPT ![z].severed = TRUE] /\ UNCHANGED stream
           ELSE stream' = [stream EXCEPT ![z].severed = TRUE] /\ UNCHANGED handler
  BY DEF Sever
<1>1. z \in Handler \cup Stream
  BY DEF LifeInv, TypeOK
<1>2. closeList' \in [Conn -> SUBSET (Handler \cup Stream)]
  BY <1>0 DEF LifeInv, TypeOK
<1>3. /\ handler' \in [Handler -> HandlerType]
      /\ \A h \in Handler : /\ handler'[h].pc = handler[h].pc
                           /\ handler'[h].pub = handler[h].pub
                           /\ handler'[h].at = handler[h].at
  <2>1. CASE z \in Handler
    <3> DEFINE r == [handler[z] EXCEPT !.severed = TRUE]
    <3>0. handler[z] \in HandlerType
      BY <2>1, RecordTypes
    <3>1. /\ r \in HandlerType /\ r.pc = handler[z].pc /\ r.pub = handler[z].pub
          /\ r.at = handler[z].at
      BY <3>0 DEF HandlerType
    <3>2. handler' = [handler EXCEPT ![z] = r]
      BY <1>0, <2>1
    <3> HIDE DEF r
    <3> QED
      BY <2>1, <3>1, <3>2, RecordTypes
  <2>2. CASE z \notin Handler
    BY <1>0, <2>2, RecordTypes
  <2> QED
    BY <2>1, <2>2
<1>4. /\ stream' \in [Stream -> StreamType]
      /\ \A x \in Stream : /\ stream'[x].pub = stream[x].pub
                          /\ stream'[x].caller = stream[x].caller
                          /\ stream'[x].worker = stream[x].worker
  <2>1. CASE z \in Handler
    BY <1>0, <2>1, RecordTypes
  <2>2. CASE z \in Stream /\ z \notin Handler
    <3> DEFINE r == [stream[z] EXCEPT !.severed = TRUE]
    <3>0. stream[z] \in StreamType
      BY <2>2, RecordTypes
    <3>1. /\ r \in StreamType /\ r.pub = stream[z].pub /\ r.caller = stream[z].caller
          /\ r.worker = stream[z].worker
      BY <3>0 DEF StreamType
    <3>2. stream' = [stream EXCEPT ![z] = r]
      BY <1>0, <2>2
    <3> HIDE DEF r
    <3> QED
      BY <2>2, <3>1, <3>2, RecordTypes
  <2> QED
    BY <1>1, <2>1, <2>2
<1>5. UNCHANGED <<serveVars, conn, alive, queued, drained, shareVars, active, opening>>
  BY DEF Sever
<1>6. Named'
  BY <1>3, <1>4, <1>5 DEF LifeInv, Named
<1>7. Lives'
  BY <1>0, <1>5 DEF LifeInv, Lives, TypeOK
<1>8. TypeOK'
  BY <1>2, <1>3, <1>4, <1>5
  DEF LifeInv, TypeOK, Places, Tracked, serveVars, shareVars, HandlerType, StreamType
<1> QED
  BY <1>6, <1>7, <1>8 DEF LifeInv

(* A step of a connection: from its handshake to its end.                  *)
LEMMA LifeConn == LifeInv /\ ConnNext => LifeInv'
<1> SUFFICES ASSUME LifeInv, NEW c \in Conn,
                    \/ Handshake(c) \/ Drop(c) \/ Queue(c) \/ Publish(c) \/ RequestsEnd(c)
                    \/ Teardown(c) \/ Unpublish(c) \/ Sever(c) \/ Ended(c)
             PROVE  LifeInv'
  BY DEF ConnNext
<1> USE DEF LifeInv, TypeOK, Lives, Named, Places, Tracked, serveVars, connVars, shareVars
<1>1. CASE Handshake(c)
  BY <1>1 DEF Handshake
<1>2. CASE Drop(c) \/ Queue(c)
  BY <1>2 DEF Drop, Queue
<1>3. CASE Publish(c)
  BY <1>3 DEF Publish
<1>4. CASE RequestsEnd(c) \/ Teardown(c)
  BY <1>4 DEF RequestsEnd, Teardown
<1>5. CASE Unpublish(c)
  BY <1>5 DEF Unpublish, Withdrawable
<1>6. CASE Sever(c)
  BY <1>6, LifeSever DEF LifeInv
<1>7. CASE Ended(c)
  BY <1>7 DEF Ended
<1> QED
  BY <1>1, <1>2, <1>3, <1>4, <1>5, <1>6, <1>7

(* The record of a channel, or of a source, after a step of it.            *)
LEMMA NewRecords ==
  ASSUME LifeInv
  PROVE  /\ \A h \in Handler : \A r : HandlerStep(h, r) => handler'[h] = r
         /\ \A x \in Stream : \A r : StreamStep(x, r) => stream'[x] = r
BY DEF LifeInv, TypeOK, HandlerStep, StreamStep

(* What a step of channel h must keep: at most it closes some transports.  *)
LEMMA HandlerKept ==
  ASSUME LifeInv, NEW h \in Handler, NEW r \in HandlerType, HandlerStep(h, r),
         r.pc \in {"opening", "check", "relay"} => r.pub \in Conn,
         r.pc # "free" =>
           r.at \in Conn /\ conn[r.at] \in {"open", "draining", "severing"},
         UNCHANGED <<serveVars, connVars, shareVars, opening, stream>>,
         alive' \subseteq alive, active' \in [Conn -> SUBSET (Handler \cup Stream)]
  PROVE  LifeInv'
<1>1. /\ handler' \in [Handler -> HandlerType] /\ handler'[h] = r
      /\ \A g \in Handler : g # h => handler'[g] = handler[g]
  BY DEF LifeInv, TypeOK, HandlerType, HandlerStep
<1>2. TypeOK'
  BY <1>1 DEF LifeInv, TypeOK, Places, Tracked, serveVars, connVars, shareVars, HandlerType
<1>3. Lives'
  BY DEF LifeInv, Lives, connVars
<1>4. Named'
  BY <1>1 DEF LifeInv, Named, connVars
<1> QED
  BY <1>2, <1>3, <1>4 DEF LifeInv

(* The same of source x.                                                   *)
LEMMA StreamKept ==
  ASSUME LifeInv, NEW x \in Stream, NEW r \in StreamType, StreamStep(x, r),
         r.caller # "none" \/ r.worker # "none" => r.pub \in Conn,
         UNCHANGED <<serveVars, connVars, shareVars, handler>>, alive' \subseteq alive,
         active' \in [Conn -> SUBSET (Handler \cup Stream)], opening' \subseteq Conn
  PROVE  LifeInv'
<1>1. /\ stream' \in [Stream -> StreamType] /\ stream'[x] = r
      /\ \A y \in Stream : y # x => stream'[y] = stream[y]
  BY DEF LifeInv, TypeOK, StreamType, StreamStep
<1>2. TypeOK'
  BY <1>1 DEF LifeInv, TypeOK, Places, Tracked, serveVars, connVars, shareVars, StreamType
<1>3. Lives'
  BY DEF LifeInv, Lives, connVars
<1>4. Named'
  BY <1>1 DEF LifeInv, Named, connVars
<1> QED
  BY <1>2, <1>3, <1>4 DEF LifeInv

(* A step of a consumer channel.                                           *)
LEMMA LifeRelay == LifeInv /\ RelayNext => LifeInv'
<1> SUFFICES ASSUME LifeInv, NEW h \in Handler,
                    \/ \E c \in Conn, k \in Kinds : Start(h, c, k)
                    \/ \E d \in Device : Lookup(h, d)
                    \/ NothingToRelay(h) \/ Opened(h) \/ OpenFails(h) \/ Recheck(h)
                    \/ RelayEnds(h) \/ Close(h) \/ Finish(h)
             PROVE  LifeInv'
  BY DEF RelayNext
<1> DEFINE at(pc) == [handler[h] EXCEPT !.pc = pc]
<1>1. handler[h] \in HandlerType /\ active \in [Conn -> SUBSET (Handler \cup Stream)]
  BY RecordTypes
<1>2. handler[h].pc # "free" =>
        handler[h].at \in Conn /\ conn[handler[h].at] \in {"open", "draining", "severing"}
  BY DEF LifeInv, Named
<1>3. handler[h].pc \in {"opening", "check", "relay"} => handler[h].pub \in Conn
  BY DEF LifeInv, Named
<1>4. ASSUME NEW c \in Conn, NEW k \in Kinds, Start(h, c, k) PROVE LifeInv'
  <2> DEFINE r == [NoHandler EXCEPT !.pc = "started", !.kind = k, !.at = c]
  <2>1. r \in HandlerType /\ r.pc = "started" /\ r.at = c
    BY DEF NoHandler, HandlerType
  <2>2. HandlerStep(h, r) /\ conn[c] = "open" /\ alive' = alive /\ active' = active
        /\ UNCHANGED <<serveVars, connVars, shareVars, opening, stream>>
    BY <1>4 DEF Start
  <2> HIDE DEF r
  <2> QED
    BY <1>1, <2>1, <2>2, HandlerKept
<1>5. ASSUME NEW d \in Device, Lookup(h, d) PROVE LifeInv'
  <2> DEFINE r == [handler[h] EXCEPT !.pc = "opening", !.pub = shares[d]]
  <2>1. shares[d] \in Conn
    BY <1>5, RecordTypes DEF Lookup
  <2>2. r \in HandlerType /\ r.pub = shares[d] /\ r.at = handler[h].at
    BY <1>1, <2>1 DEF HandlerType
  <2>3. active' \in [Conn -> SUBSET (Handler \cup Stream)]
    <3>1. active' = active \/ active' = Taken(h, shares[d])
      BY <1>5 DEF Lookup
    <3> QED
      BY <1>1, <2>1, <3>1 DEF Taken
  <2>4. HandlerStep(h, r) /\ handler[h].pc = "started" /\ alive' = alive
        /\ UNCHANGED <<serveVars, connVars, shareVars, opening, stream>>
    BY <1>5 DEF Lookup
  <2> HIDE DEF r
  <2> QED
    BY <1>2, <2>1, <2>2, <2>3, <2>4, HandlerKept
<1>6. ASSUME NEW pc \in {"check", "relay"}, NEW open \in BOOLEAN,
             handler[h].pc \in {"opening", "check"},
             HandlerStep(h, [handler[h] EXCEPT !.open = open, !.pc = pc]),
             alive' = alive, active' \in [Conn -> SUBSET (Handler \cup Stream)],
             UNCHANGED <<serveVars, connVars, shareVars, opening, stream>>
      PROVE  LifeInv'
  <2> DEFINE r == [handler[h] EXCEPT !.open = open, !.pc = pc]
  <2>1. r \in HandlerType /\ r.at = handler[h].at /\ r.pub = handler[h].pub
    BY <1>1 DEF HandlerType
  <2>2. HandlerStep(h, r)
    BY <1>6
  <2> HIDE DEF r
  <2> QED
    BY <1>2, <1>3, <1>6, <2>1, <2>2, HandlerKept
<1>7. CASE Opened(h)
  <2> DEFINE pc == IF handler[h].kind = "api" THEN "check" ELSE "relay"
  <2>1. HandlerStep(h, [handler[h] EXCEPT !.open = TRUE, !.pc = pc])
        /\ handler[h].pc = "opening" /\ alive' = alive /\ active' = active
        /\ UNCHANGED <<serveVars, connVars, shareVars, opening, stream>>
    BY <1>7 DEF Opened
  <2>2. pc \in {"check", "relay"}
    OBVIOUS
  <2> HIDE DEF pc
  <2> QED
    BY <1>1, <1>6, <2>1, <2>2
<1>8. ASSUME NEW pc \in {"closing", "leaving"}, NEW open \in BOOLEAN,
             handler[h].pc # "free", alive' \subseteq alive,
             HandlerStep(h, [handler[h] EXCEPT !.pc = pc, !.open = open]),
             active' \in [Conn -> SUBSET (Handler \cup Stream)],
             UNCHANGED <<serveVars, connVars, shareVars, opening, stream>>
      PROVE  LifeInv'
  <2> DEFINE r == [handler[h] EXCEPT !.pc = pc, !.open = open]
  <2>1. r \in HandlerType /\ r.at = handler[h].at /\ r.pc = pc
    BY <1>1 DEF HandlerType
  <2>2. HandlerStep(h, r)
    BY <1>8
  <2> HIDE DEF r
  <2> QED
    BY <1>2, <1>8, <2>1, <2>2, HandlerKept
<1>9. [handler[h] EXCEPT !.pc = "closing"]
        = [handler[h] EXCEPT !.pc = "closing", !.open = handler[h].open]
      /\ handler[h].open \in BOOLEAN
  BY <1>1 DEF HandlerType
<1>10. CASE NothingToRelay(h) \/ OpenFails(h) \/ RelayEnds(h)
  BY <1>1, <1>8, <1>9, <1>10 DEF NothingToRelay, OpenFails, RelayEnds, MayClose
<1>11. CASE Recheck(h)
  <2>1. CASE Current(handler[h].pub) /\ HandlerStep(h, [handler[h] EXCEPT !.pc = "relay"])
             /\ active' = Taken(h, handler[h].pub)
    <3>1. [handler[h] EXCEPT !.pc = "relay"]
            = [handler[h] EXCEPT !.open = handler[h].open, !.pc = "relay"]
      BY <1>1 DEF HandlerType
    <3>2. active' \in [Conn -> SUBSET (Handler \cup Stream)]
      BY <1>1, <2>1 DEF Taken
    <3> QED
      BY <1>6, <1>9, <1>11, <2>1, <3>1, <3>2 DEF Recheck
  <2>2. CASE HandlerStep(h, [handler[h] EXCEPT !.pc = "closing"]) /\ UNCHANGED active
    BY <1>1, <1>8, <1>9, <1>11, <2>2 DEF Recheck
  <2> QED
    BY <1>11, <2>1, <2>2 DEF Recheck
<1>12. CASE Close(h)
  <2>1. active' \in [Conn -> SUBSET (Handler \cup Stream)]
    BY <1>1, <1>12 DEF Close
  <2> QED
    BY <1>8, <1>12, <2>1 DEF Close, MayClose
<1>13. CASE Finish(h)
  BY <1>1, <1>13, NoHandlerType, HandlerKept DEF Finish, MayClose
<1> QED
  BY <1>4, <1>5, <1>7, <1>10, <1>11, <1>12, <1>13

(* A step of a viewer, or of a source that it opens.                       *)
LEMMA LifeView == LifeInv /\ ViewNext => LifeInv'
<1> SUFFICES ASSUME LifeInv, ViewNext PROVE LifeInv'
  OBVIOUS
<1>1. ASSUME NEW h \in Handler, View(h) PROVE LifeInv'
  <2> DEFINE r == [handler[h] EXCEPT !.pc = "viewing"]
  <2>1. r \in HandlerType /\ r.at = handler[h].at /\ r.pc = "viewing"
    BY RecordTypes DEF HandlerType
  <2>2. HandlerStep(h, r) /\ handler[h].pc = "started"
    BY <1>1 DEF View
  <2> HIDE DEF r
  <2> QED
    BY <1>1, <2>1, <2>2, HandlerKept, RecordTypes DEF View, LifeInv, Named
<1>2. ASSUME NEW h \in Handler, ViewerEnds(h) PROVE LifeInv'
  <2> DEFINE r == [handler[h] EXCEPT !.pc = "closing"]
             cut(x) == IF stream[x].viewer = h THEN [stream[x] EXCEPT !.cancelled = TRUE]
                       ELSE stream[x]
  <2>a. /\ r \in HandlerType /\ r.at = handler[h].at /\ r.pc = "closing"
        /\ handler[h].pc # "free"
    BY <1>2, RecordTypes DEF ViewerEnds, HandlerType
  <2>b. ASSUME NEW x \in Stream
        PROVE  /\ cut(x) \in StreamType /\ cut(x).pub = stream[x].pub
               /\ cut(x).caller = stream[x].caller /\ cut(x).worker = stream[x].worker
    <3>1. stream[x] \in StreamType
      BY RecordTypes
    <3>2. CASE stream[x].viewer = h
      BY <3>1, <3>2 DEF StreamType
    <3>3. CASE stream[x].viewer # h
      BY <3>1, <3>3
    <3> QED
      BY <3>2, <3>3
  <2>c. HandlerStep(h, r) /\ stream' = [x \in Stream |-> cut(x)]
        /\ UNCHANGED <<serveVars, alive, connVars, shareVars, active, opening>>
    BY <1>2 DEF ViewerEnds
  <2> HIDE DEF r, cut
  <2>1. handler' \in [Handler -> HandlerType] /\ stream' \in [Stream -> StreamType]
    BY <2>a, <2>b, <2>c, RecordTypes DEF HandlerStep
  <2>2. Named'
    BY <2>a, <2>b, <2>c, RecordTypes DEF HandlerStep, LifeInv, Named, connVars
  <2>3. TypeOK' /\ Lives'
    BY <2>1, <2>c
    DEF LifeInv, TypeOK, Lives, Places, Tracked, serveVars, connVars, shareVars,
        HandlerType, StreamType
  <2> QED
    BY <2>2, <2>3 DEF LifeInv
<1>3. ASSUME NEW x \in Stream, NEW h \in Handler, NEW d \in Device, Source(x, h, d)
      PROVE  LifeInv'
  <2> DEFINE r == [NoStream EXCEPT !.caller = "called", !.viewer = h, !.pub = shares[d]]
  <2>1. shares[d] \in Conn
    BY <1>3, RecordTypes DEF Source
  <2>2. r \in StreamType /\ r.pub \in Conn
    BY <2>1 DEF NoStream, StreamType
  <2>3. StreamStep(x, r)
    BY <1>3 DEF Source
  <2> HIDE DEF r
  <2> QED
    BY <1>3, <2>2, <2>3, StreamKept, RecordTypes DEF Source
<1>4. ASSUME NEW x \in Stream,
             \/ Claim(x) \/ Ask(x) \/ SourceOpened(x) \/ SourceRefused(x) \/ Deliver(x)
             \/ GiveUp(x) \/ Abandon(x) \/ WorkerLeaves(x) \/ SourceRecheck(x)
             \/ StreamEnds(x)
      PROVE  LifeInv'
  <2>1. /\ stream[x] \in StreamType /\ opening \subseteq Conn
        /\ active \in [Conn -> SUBSET (Handler \cup Stream)]
    BY RecordTypes
  <2>2. stream[x].caller # "none" \/ stream[x].worker # "none" => stream[x].pub \in Conn
    BY DEF LifeInv, Named
  <2>3. alive' \subseteq alive
    BY <1>4
    DEF Claim, Ask, SourceOpened, SourceRefused, Deliver, GiveUp, Abandon, WorkerLeaves,
        SourceRecheck, StreamEnds, MayClose
  <2>4. opening' \subseteq Conn
    BY <1>4, <2>1, <2>2
    DEF Claim, Ask, SourceOpened, SourceRefused, Deliver, GiveUp, Abandon, WorkerLeaves,
        SourceRecheck, StreamEnds
  <2>5. active' \in [Conn -> SUBSET (Handler \cup Stream)]
    BY <1>4, <2>1, <2>2
    DEF Claim, Ask, SourceOpened, SourceRefused, Deliver, GiveUp, Abandon, WorkerLeaves,
        SourceRecheck, StreamEnds, Taken
  <2>6. UNCHANGED <<serveVars, connVars, shareVars, handler>>
    BY <1>4
    DEF Claim, Ask, SourceOpened, SourceRefused, Deliver, GiveUp, Abandon, WorkerLeaves,
        SourceRecheck, StreamEnds
  <2>7. stream[x].caller # "none" \/ stream[x].worker # "none"
    BY <1>4
    DEF Claim, Ask, SourceOpened, SourceRefused, Deliver, GiveUp, Abandon, WorkerLeaves,
        SourceRecheck, StreamEnds
  <2>8. \E r \in StreamType :
          StreamStep(x, r) /\ (r.pub = stream[x].pub \/ r = NoStream)
    <3> DEFINE Good(r) == r \in StreamType /\ (r.pub = stream[x].pub \/ r = NoStream)
    <3> SUFFICES \E r : Good(r) /\ StreamStep(x, r)
      OBVIOUS
    <3>1. CASE Claim(x)
      <4> DEFINE r == IF MayOpen(stream[x].pub) THEN [stream[x] EXCEPT !.caller = "claimed"] ELSE NoStream
      <4>1. Good(r)
        BY <2>1, NoStreamType DEF StreamType, Released
      <4>2. StreamStep(x, r)
        BY <3>1 DEF Claim
      <4> QED
        BY <4>1, <4>2
    <3>2. CASE Ask(x)
      <4> DEFINE r == [stream[x] EXCEPT !.caller = "waiting", !.worker = "asking"]
      <4>1. Good(r)
        BY <2>1, NoStreamType DEF StreamType, Released
      <4>2. StreamStep(x, r)
        BY <3>2 DEF Ask
      <4> QED
        BY <4>1, <4>2
    <3>3. CASE SourceOpened(x)
      <4> DEFINE r == [stream[x] EXCEPT !.worker = "opened", !.open = TRUE]
      <4>1. Good(r)
        BY <2>1, NoStreamType DEF StreamType, Released
      <4>2. StreamStep(x, r)
        BY <3>3 DEF SourceOpened
      <4> QED
        BY <4>1, <4>2
    <3>4. CASE SourceRefused(x)
      <4> DEFINE r == [stream[x] EXCEPT !.worker = "refused"]
      <4>1. Good(r)
        BY <2>1, NoStreamType DEF StreamType, Released
      <4>2. StreamStep(x, r)
        BY <3>4 DEF SourceRefused
      <4> QED
        BY <4>1, <4>2
    <3>5. CASE Deliver(x)
      <4> DEFINE r == [stream[x] EXCEPT !.worker = "leaving", !.caller = IF stream[x].open THEN "check" ELSE "none"]
      <4>1. Good(r)
        BY <2>1, NoStreamType DEF StreamType, Released
      <4>2. StreamStep(x, r)
        BY <3>5 DEF Deliver
      <4> QED
        BY <4>1, <4>2
    <3>6. CASE GiveUp(x)
      <4> DEFINE r == [stream[x] EXCEPT !.caller = "none"]
      <4>1. Good(r)
        BY <2>1, NoStreamType DEF StreamType, Released
      <4>2. StreamStep(x, r)
        BY <3>6 DEF GiveUp
      <4> QED
        BY <4>1, <4>2
    <3>7. CASE Abandon(x)
      <4> DEFINE r == [stream[x] EXCEPT !.worker = "leaving", !.open = FALSE]
      <4>1. Good(r)
        BY <2>1, NoStreamType DEF StreamType, Released
      <4>2. StreamStep(x, r)
        BY <3>7 DEF Abandon
      <4> QED
        BY <4>1, <4>2
    <3>8. CASE WorkerLeaves(x)
      <4> DEFINE r == IF stream[x].caller = "none" THEN NoStream ELSE [stream[x] EXCEPT !.worker = "none"]
      <4>1. Good(r)
        BY <2>1, NoStreamType DEF StreamType, Released
      <4>2. StreamStep(x, r)
        BY <3>8 DEF WorkerLeaves
      <4> QED
        BY <4>1, <4>2
    <3>9. CASE SourceRecheck(x)
      <4> DEFINE r == IF Current(stream[x].pub) THEN [stream[x] EXCEPT !.caller = "streaming"] ELSE Released(x)
      <4>1. Good(r)
        BY <2>1, NoStreamType DEF StreamType, Released
      <4>2. StreamStep(x, r)
        BY <3>9 DEF SourceRecheck
      <4> QED
        BY <4>1, <4>2
    <3>10. CASE StreamEnds(x)
      <4> DEFINE r == Released(x)
      <4>1. Good(r)
        BY <2>1, NoStreamType DEF StreamType, Released
      <4>2. StreamStep(x, r)
        BY <3>10 DEF StreamEnds
      <4> QED
        BY <4>1, <4>2
    <3> QED
      BY <1>4, <3>1, <3>2, <3>3, <3>4, <3>5, <3>6, <3>7, <3>8, <3>9, <3>10
  <2> QED
    BY <2>2, <2>3, <2>4, <2>5, <2>6, <2>7, <2>8, StreamKept, NoStreamType
<1> QED
  BY <1>1, <1>2, <1>3, <1>4 DEF ViewNext

LEMMA LifeStep == LifeInv /\ [Next]_vars => LifeInv'
<1>1. LifeInv /\ UNCHANGED vars => LifeInv'
  BY DEF LifeInv, TypeOK, Lives, Named, Places, Tracked, vars
<1> QED
  BY <1>1, LifeServe, LifeConn, LifeRelay, LifeView DEF Next

(***************************************************************************)
(* Type correctness: every variable of the server keeps its shape; only a  *)
(* connection that holds a place in Serve has a transport, and only one    *)
(* that is registered has requests.                                        *)
(***************************************************************************)
THEOREM ServerTypeCorrect == Spec => []TypeOK
<1>1. LifeInv => TypeOK
  BY DEF LifeInv
<1> QED
  BY <1>1, LifeInit, LifeStep, PTL DEF Spec

-----------------------------------------------------------------------------
(***************************************************************************)
(* Bindings.                                                               *)
(***************************************************************************)
(* The two tables agree, a device publishes through one of its own         *)
(* connections, and that connection has not been withdrawn.                *)
Bindings ==
  /\ owners = shares
  /\ \A d \in Device : shares[d] # NoConn =>
       DeviceOf[shares[d]] = d /\ conn[shares[d]] \in {"open", "draining"}

BindInv == LifeInv /\ Bindings

(* Channels and sources change neither connections nor publications.       *)
LEMMA ChannelsKeepBindings ==
  RelayNext \/ ViewNext => UNCHANGED <<serveVars, connVars, shareVars>>
<1> USE DEF serveVars, connVars, shareVars
<1>1. RelayNext => UNCHANGED <<serveVars, connVars, shareVars>>
  BY DEF RelayNext, Start, Lookup, NothingToRelay, Opened, OpenFails, Recheck, RelayEnds,
         Close, Finish
<1>2. ViewNext => UNCHANGED <<serveVars, connVars, shareVars>>
  BY DEF ViewNext, View, ViewerEnds, Source, Claim, Ask, SourceOpened, SourceRefused,
         Deliver, GiveUp, Abandon, WorkerLeaves, SourceRecheck, StreamEnds
<1> QED
  BY <1>1, <1>2

LEMMA BindStep == BindInv /\ [Next]_vars => Bindings'
<1> SUFFICES ASSUME BindInv, [Next]_vars PROVE Bindings'
  OBVIOUS
<1> USE DEF BindInv, Bindings, LifeInv, TypeOK, serveVars, connVars, shareVars
<1>1. CASE ServeNext
  BY <1>1
  DEF ServeNext, Accept, Reject, Register, Cancel, ListenerFails, Sweep, LoopExits, Return
<1>2. ASSUME NEW c \in Conn, Handshake(c) \/ Drop(c) \/ Queue(c) \/ RequestsEnd(c)
                             \/ Teardown(c) \/ Sever(c) \/ Ended(c)
      PROVE  Bindings'
  BY <1>2 DEF Handshake, Drop, Queue, RequestsEnd, Teardown, Sever, Ended
<1>3. ASSUME NEW c \in Conn, Publish(c) PROVE Bindings'
  <2>1. conn[c] \in {"open", "draining"}
    BY <1>3 DEF Publish, Lives, Tracked
  <2> QED
    BY <1>3, <2>1 DEF Publish, MayPublish
<1>4. ASSUME NEW c \in Conn, Unpublish(c) PROVE Bindings'
  BY <1>4 DEF Unpublish
<1>5. CASE RelayNext \/ ViewNext
  BY <1>5, ChannelsKeepBindings
<1>6. CASE UNCHANGED vars
  BY <1>6 DEF vars
<1> QED
  BY <1>1, <1>2, <1>3, <1>4, <1>5, <1>6 DEF Next, ConnNext

LEMMA BindInvariant == Spec => []BindInv
<1>1. Init => BindInv
  BY LifeInit DEF Init, BindInv, Bindings
<1>2. BindInv /\ [Next]_vars => BindInv'
  BY LifeStep, BindStep DEF BindInv
<1> QED
  BY <1>1, <1>2, PTL DEF Spec

(***************************************************************************)
(* A device that reconnects publishes only after the withdrawal of its     *)
(* former publication: the share of a device never passes from one         *)
(* connection to another, for any number of either.                        *)
(***************************************************************************)
THEOREM AlwaysWithdrawnFirst == Spec => WithdrawnBeforeReplaced
<1>1. ASSUME BindInv, Next, NEW d \in Device, shares[d] # NoConn, shares'[d] # shares[d]
      PROVE  shares'[d] = NoConn
  <2> USE DEF BindInv, Bindings, LifeInv, TypeOK, serveVars, connVars, shareVars
  <2>1. CASE ServeNext
    BY <1>1, <2>1
    DEF ServeNext, Accept, Reject, Register, Cancel, ListenerFails, Sweep, LoopExits, Return
  <2>2. ASSUME NEW c \in Conn, Handshake(c) \/ Drop(c) \/ Queue(c) \/ RequestsEnd(c)
                               \/ Teardown(c) \/ Sever(c) \/ Ended(c)
        PROVE  shares'[d] = NoConn
    BY <1>1, <2>2 DEF Handshake, Drop, Queue, RequestsEnd, Teardown, Sever, Ended
  <2>3. ASSUME NEW c \in Conn, Publish(c) PROVE shares'[d] = NoConn
    BY <1>1, <2>3 DEF Publish, MayPublish
  <2>4. ASSUME NEW c \in Conn, Unpublish(c) PROVE shares'[d] = NoConn
    BY <1>1, <2>4 DEF Unpublish
  <2>5. CASE RelayNext \/ ViewNext
    BY <1>1, <2>5, ChannelsKeepBindings
  <2> QED
    BY <1>1, <2>1, <2>2, <2>3, <2>4, <2>5 DEF Next, ConnNext
<1>2. BindInv /\ [Next]_vars =>
        [\A d \in Device :
           shares[d] # NoConn /\ shares'[d] # shares[d] => shares'[d] = NoConn]_vars
  BY <1>1
<1> QED
  BY <1>2, BindInvariant, PTL DEF Spec, WithdrawnBeforeReplaced

-----------------------------------------------------------------------------
(***************************************************************************)
(* Relays.                                                                 *)
(***************************************************************************)
(* What is registered with a publication before it carries data (all but   *)
(* api) follows it from then on.                                           *)
Relays ==
  /\ \A h \in Handler :
       handler[h].pc = "relay" \/ (handler[h].pc = "opening" /\ handler[h].kind # "api") =>
         Follows(h, handler[h])
  /\ \A x \in Stream : stream[x].caller = "streaming" => Follows(x, stream[x])

RelayInv == BindInv /\ Relays

LEMMA RelayServe == RelayInv /\ (ServeNext \/ UNCHANGED vars) => Relays'
<1>1. ServeNext \/ UNCHANGED vars =>
        UNCHANGED <<shares, active, closeList, handler, stream>>
  BY DEF ServeNext, Accept, Reject, Register, Cancel, ListenerFails, Sweep, LoopExits,
         Return, serveVars, connVars, shareVars, vars
<1> QED
  BY <1>1 DEF RelayInv, Relays, Follows, Current

LEMMA RelayConn == RelayInv /\ ConnNext => Relays'
<1> SUFFICES ASSUME RelayInv, NEW c \in Conn,
                    \/ Handshake(c) \/ Drop(c) \/ Queue(c) \/ Publish(c) \/ RequestsEnd(c)
                    \/ Teardown(c) \/ Unpublish(c) \/ Sever(c) \/ Ended(c)
             PROVE  Relays'
  BY DEF ConnNext
<1> USE DEF RelayInv, Relays, Follows, Current, serveVars, connVars, shareVars
<1>0. BindInv /\ Named /\ TypeOK
  BY DEF BindInv, LifeInv
<1>1. CASE Handshake(c) \/ Drop(c) \/ Queue(c) \/ RequestsEnd(c) \/ Teardown(c) \/ Ended(c)
  BY <1>1 DEF Handshake, Drop, Queue, RequestsEnd, Teardown, Ended
<1>2. CASE Publish(c)
  BY <1>0, <1>2 DEF Publish, MayPublish, BindInv, Bindings, TypeOK
<1>3. CASE Unpublish(c)
  <2>1. ASSUME NEW z, NEW b \in Conn,
               (shares[DeviceOf[b]] = b /\ z \in active[b]) \/ z \in closeList[b]
        PROVE  (shares'[DeviceOf[b]] = b /\ z \in active'[b]) \/ z \in closeList'[b]
    <3>1. CASE b = c
      BY <1>0, <1>3, <2>1, <3>1
      DEF Unpublish, Withdrawable, TypeOK, BindInv, LifeInv, Lives
    <3>2. CASE b # c
      BY <1>0, <1>3, <2>1, <3>2 DEF Unpublish, TypeOK
    <3> QED
      BY <3>1, <3>2
  <2>2. UNCHANGED <<handler, stream>>
    BY <1>3 DEF Unpublish
  <2> QED
    BY <1>0, <2>1, <2>2 DEF Named
<1>4. CASE Sever(c)
  <2>0. PICK z \in closeList[c] :
          /\ closeList' = [closeList EXCEPT ![c] = @ \ {z}]
          /\ IF z \in Handler
             THEN handler' = [handler EXCEPT ![z].severed = TRUE] /\ UNCHANGED stream
             ELSE stream' = [stream EXCEPT ![z].severed = TRUE] /\ UNCHANGED handler
    BY <1>4 DEF Sever
  <2>1. z \in Handler \/ z \in Stream
    BY <1>0 DEF TypeOK
  <2>2. \A h \in Handler : /\ handler'[h].pc = handler[h].pc
                           /\ handler'[h].kind = handler[h].kind
                           /\ handler'[h].pub = handler[h].pub
                           /\ handler[h].severed \/ h = z => handler'[h].severed
    <3>1. CASE z \in Handler
      BY <1>0, <2>0, <3>1 DEF TypeOK
    <3>2. CASE z \notin Handler
      BY <1>0, <2>0, <3>2 DEF TypeOK
    <3> QED
      BY <3>1, <3>2
  <2>3. \A x \in Stream : /\ stream'[x].caller = stream[x].caller
                          /\ stream'[x].pub = stream[x].pub
                          /\ stream[x].severed \/ x = z => stream'[x].severed
    <3>1. CASE z \in Handler
      BY <1>0, <2>0, <3>1 DEF TypeOK
    <3>2. CASE z \notin Handler
      BY <1>0, <2>0, <2>1, <3>2 DEF TypeOK
    <3> QED
      BY <3>1, <3>2
  <2>4. \A y, b : y # z /\ b \in Conn /\ y \in closeList[b] => y \in closeList'[b]
    BY <1>0, <2>0 DEF TypeOK
  <2>5. UNCHANGED <<shares, active>>
    BY <1>4 DEF Sever
  <2> QED
    BY <1>0, <2>2, <2>3, <2>4, <2>5 DEF Named
<1> QED
  BY <1>1, <1>2, <1>3, <1>4

(* A channel that starts to relay is registered with its publication, which *)
(* is still the current one; leaving it, the channel takes only itself.     *)
LEMMA RelayRelay == RelayInv /\ RelayNext => Relays'
<1> SUFFICES ASSUME RelayInv, NEW h \in Handler,
                    \/ \E c \in Conn, k \in Kinds : Start(h, c, k)
                    \/ \E d \in Device : Lookup(h, d)
                    \/ NothingToRelay(h) \/ Opened(h) \/ OpenFails(h) \/ Recheck(h)
                    \/ RelayEnds(h) \/ Close(h) \/ Finish(h)
             PROVE  Relays'
  BY DEF RelayNext
<1> USE DEF HandlerStep, serveVars, connVars, shareVars
<1>0. BindInv /\ Named /\ TypeOK /\ handler[h] \in HandlerType
  BY RecordTypes DEF RelayInv, BindInv, LifeInv
<1>1. UNCHANGED <<shares, closeList, stream>>
  BY DEF Start, Lookup, NothingToRelay, Opened, OpenFails, Recheck, RelayEnds, Close, Finish
<1>2. \A g \in Handler : g # h => handler'[g] = handler[g]
  BY <1>0
  DEF TypeOK, Start, Lookup, NothingToRelay, Opened, OpenFails, Recheck, RelayEnds, Close,
      Finish
<1>3. \A b \in Conn : \A z : z # h /\ z \in active[b] => z \in active'[b]
  <2>1. \/ active' = active
        \/ \E b \in Conn : active' = Taken(h, b)
        \/ active' = [b \in Conn |-> active[b] \ {h}]
    <3>1. ASSUME NEW d \in Device, Lookup(h, d)
          PROVE  active' = active \/ \E b \in Conn : active' = Taken(h, b)
      <4>1. shares[d] \in Conn
        BY <1>0, <3>1 DEF Lookup, TypeOK
      <4> QED
        BY <3>1, <4>1 DEF Lookup
    <3>2. CASE Recheck(h)
      BY <1>0, <3>2 DEF Recheck, Named
    <3> QED
      BY <3>1, <3>2 DEF Start, NothingToRelay, Opened, OpenFails, RelayEnds, Close, Finish
  <2> QED
    BY <1>0, <2>1 DEF Taken, TypeOK
<1>4. handler'[h].pc = "relay" \/ (handler'[h].pc = "opening" /\ handler'[h].kind # "api") =>
        Follows(h, handler[h])'
  <2>1. CASE (\E c \in Conn, k \in Kinds : Start(h, c, k)) \/ Finish(h)
    <3>1. ASSUME NEW c \in Conn, NEW k \in Kinds, Start(h, c, k)
          PROVE  handler'[h].pc = "started"
      <4>1. handler'[h] = [NoHandler EXCEPT !.pc = "started", !.kind = k, !.at = c]
        BY <1>0, <3>1, NewRecords DEF Start, BindInv
      <4> QED
        BY <4>1 DEF NoHandler
    <3>2. CASE Finish(h)
      <4>1. handler'[h] = NoHandler
        BY <1>0, <3>2, NewRecords DEF Finish, BindInv
      <4> QED
        BY <4>1, NoHandlerType
    <3> QED
      BY <2>1, <3>1, <3>2
  <2>2. ASSUME NEW d \in Device, Lookup(h, d), handler[h].kind # "api"
        PROVE  Follows(h, handler[h])'
    <3>0. /\ shares[d] # NoConn /\ active' = Taken(h, shares[d])
          /\ handler'[h] = [handler[h] EXCEPT !.pc = "opening", !.pub = shares[d]]
      BY <1>0, <2>2, NewRecords DEF Lookup, BindInv
    <3>1. shares[d] \in Conn /\ DeviceOf[shares[d]] = d
      BY <1>0, <3>0 DEF TypeOK, BindInv, Bindings
    <3>2. handler'[h].pub = shares[d]
      BY <1>0, <3>0 DEF HandlerType
    <3>3. h \in active'[shares[d]]
      BY <1>0, <3>0, <3>1 DEF Taken, TypeOK
    <3> QED
      BY <1>1, <3>1, <3>2, <3>3 DEF Follows, Current
  <2>3. ASSUME NEW d \in Device, Lookup(h, d), handler[h].kind = "api"
        PROVE  handler'[h].pc = "opening" /\ handler'[h].kind = "api"
    BY <1>0, <2>3 DEF Lookup, HandlerType, TypeOK
  <2>4. CASE Opened(h)
    <3>1. /\ handler'[h].kind = handler[h].kind /\ handler'[h].pub = handler[h].pub
          /\ handler'[h].severed = handler[h].severed
          /\ handler[h].kind = "api" => handler'[h].pc = "check"
      BY <1>0, <2>4 DEF Opened, HandlerType, TypeOK
    <3>2. CASE handler[h].kind # "api"
      <4>1. Follows(h, handler[h]) /\ handler[h].pub \in Conn
        BY <1>0, <2>4, <3>2 DEF Opened, RelayInv, Relays, Named
      <4> QED
        BY <1>1, <2>4, <3>1, <4>1 DEF Opened, Follows, Current
    <3> QED
      BY <3>1, <3>2
  <2>5. CASE Recheck(h)
    <3>1. CASE /\ Current(handler[h].pub) /\ active' = Taken(h, handler[h].pub)
               /\ handler' = [handler EXCEPT ![h] = [handler[h] EXCEPT !.pc = "relay"]]
      <4>1. handler'[h].pub = handler[h].pub /\ handler[h].pub \in Conn
        BY <1>0, <2>5, <3>1 DEF Recheck, HandlerType, TypeOK, Named
      <4>2. h \in active'[handler[h].pub]
        BY <1>0, <3>1, <4>1 DEF Taken, TypeOK
      <4> QED
        BY <1>1, <3>1, <4>1, <4>2 DEF Follows, Current
    <3>2. CASE handler' = [handler EXCEPT ![h] = [handler[h] EXCEPT !.pc = "closing"]]
      BY <1>0, <3>2 DEF HandlerType, TypeOK
    <3> QED
      BY <2>5, <3>1, <3>2 DEF Recheck
  <2>6. CASE NothingToRelay(h) \/ OpenFails(h) \/ RelayEnds(h) \/ Close(h)
    <3>1. \/ handler'[h] = [handler[h] EXCEPT !.pc = "closing"]
          \/ handler'[h] = [handler[h] EXCEPT !.pc = "leaving", !.open = FALSE]
      BY <1>0, <2>6, NewRecords DEF NothingToRelay, OpenFails, RelayEnds, Close, BindInv
    <3> QED
      BY <1>0, <3>1 DEF HandlerType
  <2> QED
    BY <2>1, <2>2, <2>3, <2>4, <2>5, <2>6
<1>5. ASSUME NEW g \in Handler, g # h,
             handler[g].pc = "relay" \/ (handler[g].pc = "opening" /\ handler[g].kind # "api")
      PROVE  Follows(g, handler[g])'
  <2>1. Follows(g, handler[g]) /\ handler[g].pub \in Conn
    BY <1>0, <1>5 DEF RelayInv, Relays, Named
  <2> QED
    BY <1>1, <1>2, <1>3, <1>5, <2>1 DEF Follows, Current
<1>6. ASSUME NEW x \in Stream, stream[x].caller = "streaming"
      PROVE  Follows(x, stream[x])'
  <2>1. Follows(x, stream[x]) /\ stream[x].pub \in Conn /\ x # h
    BY <1>0, <1>6 DEF RelayInv, Relays, Named
  <2> QED
    BY <1>1, <1>3, <2>1 DEF Follows, Current
<1> QED
  BY <1>1, <1>2, <1>4, <1>5, <1>6 DEF Relays

(* Likewise a source.                                                       *)
LEMMA RelayView == RelayInv /\ ViewNext => Relays'
<1> SUFFICES ASSUME RelayInv, ViewNext PROVE Relays'
  OBVIOUS
<1>0. BindInv /\ Named /\ TypeOK
  BY DEF RelayInv, BindInv, LifeInv
<1>1. UNCHANGED <<shares, closeList>>
  BY ChannelsKeepBindings DEF connVars, shareVars
<1>2. ASSUME NEW h \in Handler, View(h) \/ ViewerEnds(h) PROVE Relays'
  <2>1. /\ \A g \in Handler :
             /\ handler'[g].pc \in {"relay", "opening"} => handler'[g] = handler[g]
        /\ active' = active
    BY <1>0, <1>2, RecordTypes DEF View, ViewerEnds, HandlerStep, TypeOK
  <2>2. \A x \in Stream : /\ stream'[x].caller = stream[x].caller
                          /\ stream'[x].pub = stream[x].pub
                          /\ stream'[x].severed = stream[x].severed
    <3>1. CASE View(h)
      BY <3>1 DEF View
    <3>2. ASSUME ViewerEnds(h), NEW x \in Stream
          PROVE  /\ stream'[x].caller = stream[x].caller
                 /\ stream'[x].pub = stream[x].pub
                 /\ stream'[x].severed = stream[x].severed
      <4>1. stream[x] \in StreamType
        BY <1>0, RecordTypes DEF BindInv
      <4>2. \/ stream'[x] = [stream[x] EXCEPT !.cancelled = TRUE]
            \/ stream'[x] = stream[x]
        BY <3>2 DEF ViewerEnds
      <4> QED
        BY <4>1, <4>2 DEF StreamType
    <3> QED
      BY <1>2, <3>1, <3>2
  <2> QED
    BY <1>1, <2>1, <2>2 DEF RelayInv, Relays, Follows, Current
<1>3. ASSUME NEW x \in Stream, handler' = handler,
             \A y \in Stream : y # x => stream'[y] = stream[y],
             \A b \in Conn : \A z : z # x /\ z \in active[b] => z \in active'[b],
             stream'[x].caller = "streaming" => Follows(x, stream[x])'
      PROVE  Relays'
  <2>1. ASSUME NEW g \in Handler,
               handler[g].pc = "relay" \/ (handler[g].pc = "opening" /\ handler[g].kind # "api")
        PROVE  Follows(g, handler[g])'
    <3>1. Follows(g, handler[g]) /\ handler[g].pub \in Conn /\ g # x
      BY <1>0, <2>1 DEF RelayInv, Relays, Named
    <3> QED
      BY <1>1, <1>3, <3>1 DEF Follows, Current
  <2>2. ASSUME NEW y \in Stream, y # x, stream[y].caller = "streaming"
        PROVE  Follows(y, stream[y])'
    <3>1. Follows(y, stream[y]) /\ stream[y].pub \in Conn
      BY <1>0, <2>2 DEF RelayInv, Relays, Named
    <3> QED
      BY <1>1, <1>3, <2>2, <3>1 DEF Follows, Current
  <2> QED
    BY <1>3, <2>1, <2>2 DEF Relays
<1>4. ASSUME NEW x \in Stream, NEW h \in Handler, NEW d \in Device, Source(x, h, d)
      PROVE  Relays'
  BY <1>0, <1>3, <1>4 DEF Source, StreamStep, NoStream, TypeOK
<1>5. ASSUME NEW x \in Stream,
             Claim(x) \/ Ask(x) \/ Deliver(x) \/ GiveUp(x)
      PROVE  Relays'
  <2>1. stream[x] \in StreamType
    BY RecordTypes, <1>0 DEF BindInv
  <2>2. stream'[x].caller # "streaming"
    <3>1. CASE Claim(x)
      <4>1. \/ stream'[x] = NoStream
            \/ stream'[x] = [stream[x] EXCEPT !.caller = "claimed"]
        BY <1>0, <3>1, NewRecords DEF Claim, BindInv
      <4> QED
        BY <2>1, <4>1, NoStreamType DEF StreamType
    <3>2. CASE Ask(x)
      <4>1. stream'[x] = [stream[x] EXCEPT !.caller = "waiting", !.worker = "asking"]
        BY <1>0, <3>2, NewRecords DEF Ask, BindInv
      <4> QED
        BY <2>1, <4>1 DEF StreamType
    <3>3. CASE Deliver(x)
      <4>1. stream'[x] = [stream[x] EXCEPT
              !.worker = "leaving", !.caller = IF stream[x].open THEN "check" ELSE "none"]
        BY <1>0, <3>3, NewRecords DEF Deliver, BindInv
      <4> QED
        BY <2>1, <4>1 DEF StreamType
    <3>4. CASE GiveUp(x)
      <4>1. stream'[x] = [stream[x] EXCEPT !.caller = "none"]
        BY <1>0, <3>4, NewRecords DEF GiveUp, BindInv
      <4> QED
        BY <2>1, <4>1 DEF StreamType
    <3> QED
      BY <1>5, <3>1, <3>2, <3>3, <3>4
  <2> QED
    BY <1>0, <1>3, <1>5, <2>2
    DEF Claim, Ask, Deliver, GiveUp, StreamStep, TypeOK
<1>6. ASSUME NEW x \in Stream,
             SourceOpened(x) \/ SourceRefused(x) \/ Abandon(x) \/ WorkerLeaves(x)
      PROVE  Relays'
  <2>1. stream[x] \in StreamType
    BY RecordTypes, <1>0 DEF BindInv
  <2>2. /\ \A y \in Stream : y # x => stream'[y] = stream[y]
        /\ handler' = handler /\ active' = active
    BY <1>0, <1>6 DEF SourceOpened, SourceRefused, Abandon, WorkerLeaves, StreamStep, TypeOK
  <2>3. stream'[x].caller = "streaming" =>
          /\ stream[x].caller = "streaming" /\ stream'[x].pub = stream[x].pub
          /\ stream'[x].severed = stream[x].severed
    <3>1. \/ stream'[x] = [stream[x] EXCEPT !.worker = "opened", !.open = TRUE]
          \/ stream'[x] = [stream[x] EXCEPT !.worker = "refused"]
          \/ stream'[x] = [stream[x] EXCEPT !.worker = "leaving", !.open = FALSE]
          \/ stream'[x] = [stream[x] EXCEPT !.worker = "none"]
          \/ stream'[x] = NoStream
      <4>1. CASE SourceOpened(x) \/ SourceRefused(x)
        BY <1>0, <4>1, NewRecords DEF SourceOpened, SourceRefused, BindInv
      <4>2. CASE Abandon(x)
        BY <1>0, <4>2, NewRecords DEF Abandon, BindInv
      <4>3. CASE WorkerLeaves(x)
        BY <1>0, <4>3, NewRecords DEF WorkerLeaves, BindInv
      <4> QED
        BY <1>6, <4>1, <4>2, <4>3
    <3>2. /\ [stream[x] EXCEPT !.worker = "opened", !.open = TRUE].caller = stream[x].caller
          /\ [stream[x] EXCEPT !.worker = "opened", !.open = TRUE].pub = stream[x].pub
          /\ [stream[x] EXCEPT !.worker = "opened", !.open = TRUE].severed = stream[x].severed
      BY <2>1 DEF StreamType
    <3>3. /\ [stream[x] EXCEPT !.worker = "leaving", !.open = FALSE].caller = stream[x].caller
          /\ [stream[x] EXCEPT !.worker = "leaving", !.open = FALSE].pub = stream[x].pub
          /\ [stream[x] EXCEPT !.worker = "leaving", !.open = FALSE].severed = stream[x].severed
      BY <2>1 DEF StreamType
    <3>4. ASSUME NEW w
          PROVE  /\ [stream[x] EXCEPT !.worker = w].caller = stream[x].caller
                 /\ [stream[x] EXCEPT !.worker = w].pub = stream[x].pub
                 /\ [stream[x] EXCEPT !.worker = w].severed = stream[x].severed
      BY <2>1 DEF StreamType
    <3> DEFINE Kept(y) == /\ y.caller = stream[x].caller /\ y.pub = stream[x].pub
                          /\ y.severed = stream[x].severed
    <3>5. stream'[x] = NoStream \/ Kept(stream'[x])
      <4>1. Kept([stream[x] EXCEPT !.worker = "opened", !.open = TRUE])
        BY ONLY <3>2
      <4>2. Kept([stream[x] EXCEPT !.worker = "leaving", !.open = FALSE])
        BY ONLY <3>3
      <4>3. \A w : Kept([stream[x] EXCEPT !.worker = w])
        BY ONLY <3>4
      <4> HIDE DEF Kept
      <4> QED
        BY ONLY <3>1, <4>1, <4>2, <4>3
    <3> QED
      BY ONLY <3>5, NoStreamType
  <2>4. stream'[x].caller = "streaming" => Follows(x, stream[x])'
    BY <1>1, <2>2, <2>3 DEF RelayInv, Relays, Follows, Current
  <2> QED
    BY <1>3, <2>2, <2>4
<1>7. ASSUME NEW x \in Stream, SourceRecheck(x) PROVE Relays'
  <2>0. stream[x] \in StreamType /\ stream[x].pub \in Conn
    BY <1>0, <1>7, RecordTypes DEF BindInv, SourceRecheck, Named
  <2>1. CASE Current(stream[x].pub)
    <3>1. /\ stream' = [stream EXCEPT ![x] = [stream[x] EXCEPT !.caller = "streaming"]]
          /\ active' = Taken(x, stream[x].pub) /\ handler' = handler
      BY <1>7, <2>1 DEF SourceRecheck, StreamStep
    <3>2. stream'[x].pub = stream[x].pub /\ x \in active'[stream[x].pub]
      BY <1>0, <2>0, <3>1 DEF StreamType, TypeOK, Taken
    <3>3. Follows(x, stream[x])'
      BY <1>1, <2>1, <3>2 DEF Follows, Current
    <3> QED
      BY <1>0, <1>3, <2>0, <3>1, <3>3 DEF TypeOK, Taken
  <2>2. CASE ~Current(stream[x].pub)
    <3>1. stream' = [stream EXCEPT ![x] = Released(x)] /\ UNCHANGED <<active, handler>>
      BY <1>7, <2>2 DEF SourceRecheck, StreamStep
    <3>2. stream'[x].caller # "streaming"
      BY <1>0, <2>0, <3>1, NoStreamType DEF StreamType, TypeOK, Released
    <3> QED
      BY <1>0, <1>3, <3>1, <3>2 DEF TypeOK
  <2> QED
    BY <2>1, <2>2
<1>8. ASSUME NEW x \in Stream, StreamEnds(x) PROVE Relays'
  <2>1. /\ stream' = [stream EXCEPT ![x] = Released(x)] /\ UNCHANGED handler
        /\ active' = [b \in Conn |-> active[b] \ {x}] /\ stream[x] \in StreamType
    BY <1>0, <1>8, RecordTypes DEF StreamEnds, StreamStep, BindInv
  <2>2. stream'[x].caller # "streaming"
    BY <1>0, <2>1, NoStreamType DEF StreamType, TypeOK, Released
  <2> QED
    BY <1>0, <1>3, <2>1, <2>2 DEF TypeOK
<1> QED
  BY <1>2, <1>4, <1>5, <1>6, <1>7, <1>8 DEF ViewNext

LEMMA RelayInvariant == Spec => []RelayInv
<1>1. Init => RelayInv
  BY LifeInit, NoHandlerType, NoStreamType
  DEF Init, RelayInv, BindInv, Bindings, Relays, NoHandler, NoStream
<1>2. RelayInv /\ [Next]_vars => RelayInv'
  BY LifeStep, BindStep, RelayServe, RelayConn, RelayRelay, RelayView
  DEF RelayInv, BindInv, Next
<1> QED
  BY <1>1, <1>2, PTL DEF Spec

(***************************************************************************)
(* Publications and what is relayed to them live and die with the          *)
(* connection that publishes: no queued request leaves a publication       *)
(* behind a withdrawn connection, and no relay that carries data is        *)
(* unknown to both its publication and the withdrawal of it.               *)
(***************************************************************************)
THEOREM PublicationsAlwaysReal == Spec => []PublicationsAreReal
<1>1. RelayInv => PublicationsAreReal
  <2>1. BindInv => NoGhostPublication
    BY DEF BindInv, Bindings, NoGhostPublication
  <2>2. Relays => RelaysFollow
    BY DEF Relays, RelaysFollow
  <2> QED
    BY <2>1, <2>2 DEF RelayInv, PublicationsAreReal
<1> QED
  BY <1>1, RelayInvariant, PTL

-----------------------------------------------------------------------------
(***************************************************************************)
(* Opens.                                                                  *)
(***************************************************************************)
(* A source that has, or whose worker has, the publication's only mark.    *)
Asks(s) == s.caller = "claimed" \/ s.worker # "none"

(* A source is claimed before its worker exists, and a channel belongs to  *)
(* the worker until it has handed it over.                                 *)
Tidy(s) ==
  /\ s.caller \in {"called", "claimed"} => s.worker = "none"
  /\ s.open => s.worker = "opened" \/ s.caller \in {"check", "streaming"}

(* The mark of a publication is up exactly as long as one source asks.     *)
Opens ==
  /\ \A x \in Stream : Tidy(stream[x])
  /\ \A x \in Stream : Asks(stream[x]) => stream[x].pub \in opening
  /\ \A b \in opening : \E x \in Stream : Asks(stream[x]) /\ stream[x].pub = b
  /\ \A x, y \in Stream :
       Asks(stream[x]) /\ Asks(stream[y]) /\ stream[x].pub = stream[y].pub => x = y

OpenInv == LifeInv /\ Opens

(* Nothing else touches sources, except unpublish, which marks one.        *)
LEMMA OpensElsewhere == OpenInv /\ (ServeNext \/ ConnNext \/ RelayNext \/ UNCHANGED vars) => Opens'
<1> SUFFICES ASSUME OpenInv, ServeNext \/ ConnNext \/ RelayNext \/ UNCHANGED vars PROVE Opens'
  OBVIOUS
<1> DEFINE Same == /\ opening' = opening
                   /\ \A x \in Stream : /\ stream'[x].caller = stream[x].caller
                                        /\ stream'[x].worker = stream[x].worker
                                        /\ stream'[x].pub = stream[x].pub
                                        /\ stream'[x].open = stream[x].open
<1>1. ServeNext \/ RelayNext \/ UNCHANGED vars => UNCHANGED <<opening, stream>>
  BY DEF ServeNext, Accept, Reject, Register, Cancel, ListenerFails, Sweep, LoopExits,
         Return, RelayNext, Start, Lookup, NothingToRelay, Opened, OpenFails, Recheck,
         RelayEnds, Close, Finish, vars
<1>2. ASSUME NEW c \in Conn,
             \/ Handshake(c) \/ Drop(c) \/ Queue(c) \/ Publish(c) \/ RequestsEnd(c)
             \/ Teardown(c) \/ Unpublish(c) \/ Ended(c)
      PROVE  UNCHANGED <<opening, stream>>
  BY <1>2 DEF Handshake, Drop, Queue, Publish, RequestsEnd, Teardown, Unpublish, Ended
<1>3. ASSUME NEW c \in Conn, Sever(c) PROVE Same
  <2>1. PICK z \in closeList[c] :
          IF z \in Handler THEN UNCHANGED stream
          ELSE stream' = [stream EXCEPT ![z].severed = TRUE]
    BY <1>3 DEF Sever
  <2>2. stream \in [Stream -> StreamType] /\ opening' = opening
    BY <1>3, RecordTypes DEF OpenInv, Sever
  <2> QED
    BY <2>1, <2>2 DEF StreamType
<1>4. Same
  BY <1>1, <1>2, <1>3 DEF ConnNext
<1> QED
  BY <1>4 DEF OpenInv, Opens, Tidy, Asks

(* Source x asks after a step if it did before, for the same publication.  *)
LEMMA OpensKept ==
  ASSUME OpenInv, NEW x \in Stream, NEW r, StreamStep(x, r), opening' = opening, Tidy(r),
         Asks(r) <=> Asks(stream[x]), Asks(r) => r.pub = stream[x].pub
  PROVE  Opens'
<1>1. stream'[x] = r /\ \A y \in Stream : y # x => stream'[y] = stream[y]
  BY NewRecords DEF OpenInv, LifeInv, TypeOK, StreamStep
<1>2. \A y \in Stream : /\ Tidy(stream'[y]) /\ (Asks(stream'[y]) <=> Asks(stream[y]))
                        /\ Asks(stream'[y]) => stream'[y].pub = stream[y].pub
  BY <1>1 DEF OpenInv, Opens
<1> HIDE DEF Tidy, Asks
<1> QED
  BY <1>2 DEF OpenInv, Opens

LEMMA OpensView == OpenInv /\ ViewNext => Opens'
<1> SUFFICES ASSUME OpenInv, ViewNext PROVE Opens'
  OBVIOUS
<1>0. LifeInv /\ Opens /\ \A x \in Stream : stream[x] \in StreamType /\ Tidy(stream[x])
  BY RecordTypes DEF OpenInv, Opens
<1>1. ASSUME NEW h \in Handler, View(h) \/ ViewerEnds(h) PROVE Opens'
  <2>1. ASSUME NEW x \in Stream
        PROVE  /\ stream'[x].caller = stream[x].caller
               /\ stream'[x].worker = stream[x].worker
               /\ stream'[x].pub = stream[x].pub
               /\ stream'[x].open = stream[x].open
    <3>1. \/ stream'[x] = [stream[x] EXCEPT !.cancelled = TRUE]
          \/ stream'[x] = stream[x]
      BY <1>1 DEF View, ViewerEnds
    <3> QED
      BY <1>0, <3>1 DEF StreamType
  <2>2. opening' = opening
    BY <1>1 DEF View, ViewerEnds
  <2> QED
    BY <1>0, <2>1, <2>2 DEF Opens, Tidy, Asks
<1>2. ASSUME NEW x \in Stream, NEW h \in Handler, NEW d \in Device, Source(x, h, d)
      PROVE  Opens'
  <2> DEFINE r == [NoStream EXCEPT !.caller = "called", !.viewer = h, !.pub = shares[d]]
  <2>1. StreamStep(x, r) /\ opening' = opening /\ stream[x] = NoStream
    BY <1>2 DEF Source
  <2>2. Tidy(r) /\ ~Asks(r) /\ ~Asks(NoStream)
    BY DEF NoStream, Tidy, Asks
  <2> HIDE DEF r
  <2> QED
    BY <2>1, <2>2, OpensKept
<1>3. ASSUME NEW x \in Stream, Claim(x) PROVE Opens'
  <2>0. stream[x].caller = "called" /\ stream[x] \in StreamType /\ ~Asks(stream[x])
    BY <1>0, <1>3 DEF Claim, Tidy, Asks
  <2>1. CASE MayOpen(stream[x].pub)
    <3> DEFINE r == [stream[x] EXCEPT !.caller = "claimed"]
    <3>1. /\ StreamStep(x, r) /\ opening' = opening \cup {stream[x].pub}
          /\ stream[x].pub \notin opening
      BY <1>3, <2>1 DEF Claim, MayOpen
    <3>2. Tidy(r) /\ Asks(r) /\ r.pub = stream[x].pub
      BY <1>0, <2>0 DEF StreamType, Tidy, Asks
    <3> HIDE DEF r
    <3>3. stream'[x] = r /\ \A y \in Stream : y # x => stream'[y] = stream[y]
      BY <1>0, <3>1, NewRecords DEF LifeInv, TypeOK, StreamStep
    <3>4. \A y \in Stream : y # x /\ Asks(stream[y]) => stream[y].pub # stream[x].pub
      BY <1>0, <3>1 DEF Opens
    <3>5. \A b \in opening' : \E y \in Stream : Asks(stream'[y]) /\ stream'[y].pub = b
      BY <1>0, <2>0, <3>1, <3>2, <3>3 DEF Opens
    <3> QED
      BY <1>0, <3>1, <3>2, <3>3, <3>4, <3>5 DEF Opens
  <2>2. CASE ~MayOpen(stream[x].pub)
    <3>1. StreamStep(x, NoStream) /\ opening' = opening
      BY <1>3, <2>2 DEF Claim
    <3>2. Tidy(NoStream) /\ ~Asks(NoStream)
      BY DEF NoStream, Tidy, Asks
    <3> QED
      BY <2>0, <3>1, <3>2, OpensKept
  <2> QED
    BY <2>1, <2>2
<1>4. ASSUME NEW x \in Stream, Ask(x) PROVE Opens'
  <2> DEFINE r == [stream[x] EXCEPT !.caller = "waiting", !.worker = "asking"]
  <2>1. StreamStep(x, r) /\ opening' = opening /\ Asks(stream[x]) /\ ~stream[x].open
    BY <1>0, <1>4 DEF Ask, Asks, Tidy
  <2>2. Tidy(r) /\ Asks(r) /\ r.pub = stream[x].pub
    BY <1>0, <2>1 DEF StreamType, Tidy, Asks
  <2> HIDE DEF r
  <2> QED
    BY <2>1, <2>2, OpensKept
<1>5. ASSUME NEW x \in Stream, SourceOpened(x) PROVE Opens'
  <2> DEFINE r == [stream[x] EXCEPT !.worker = "opened", !.open = TRUE]
  <2>1. StreamStep(x, r) /\ opening' = opening /\ stream[x].worker = "asking"
    BY <1>5 DEF SourceOpened
  <2>2. Tidy(r) /\ Asks(r) /\ Asks(stream[x]) /\ r.pub = stream[x].pub
    BY <1>0, <2>1 DEF StreamType, Tidy, Asks
  <2> HIDE DEF r
  <2> QED
    BY <2>1, <2>2, OpensKept
<1>6. ASSUME NEW x \in Stream, SourceRefused(x) PROVE Opens'
  <2> DEFINE r == [stream[x] EXCEPT !.worker = "refused"]
  <2>1. StreamStep(x, r) /\ opening' = opening /\ stream[x].worker = "asking"
    BY <1>6 DEF SourceRefused
  <2>2. Tidy(r) /\ Asks(r) /\ Asks(stream[x]) /\ r.pub = stream[x].pub
    BY <1>0, <2>1 DEF StreamType, Tidy, Asks
  <2> HIDE DEF r
  <2> QED
    BY <2>1, <2>2, OpensKept
<1>7. ASSUME NEW x \in Stream, Deliver(x) PROVE Opens'
  <2> DEFINE r == [stream[x] EXCEPT
        !.worker = "leaving", !.caller = IF stream[x].open THEN "check" ELSE "none"]
  <2>1. /\ StreamStep(x, r) /\ opening' = opening
        /\ stream[x].worker \in {"opened", "refused"}
    BY <1>7 DEF Deliver
  <2>2. Tidy(r) /\ Asks(r) /\ Asks(stream[x]) /\ r.pub = stream[x].pub
    BY <1>0, <2>1 DEF StreamType, Tidy, Asks
  <2> HIDE DEF r
  <2> QED
    BY <2>1, <2>2, OpensKept
<1>8. ASSUME NEW x \in Stream, GiveUp(x) PROVE Opens'
  <2> DEFINE r == [stream[x] EXCEPT !.caller = "none"]
  <2>1. StreamStep(x, r) /\ opening' = opening /\ stream[x].caller = "waiting"
    BY <1>8 DEF GiveUp
  <2>2. Tidy(r) /\ (Asks(r) <=> Asks(stream[x])) /\ r.pub = stream[x].pub
    BY <1>0, <2>1 DEF StreamType, Tidy, Asks
  <2> HIDE DEF r
  <2> QED
    BY <2>1, <2>2, OpensKept
<1>9. ASSUME NEW x \in Stream, Abandon(x) PROVE Opens'
  <2> DEFINE r == [stream[x] EXCEPT !.worker = "leaving", !.open = FALSE]
  <2>1. /\ StreamStep(x, r) /\ opening' = opening
        /\ stream[x].worker \in {"opened", "refused"}
    BY <1>9 DEF Abandon
  <2>2. Tidy(r) /\ Asks(r) /\ Asks(stream[x]) /\ r.pub = stream[x].pub
    BY <1>0, <2>1 DEF StreamType, Tidy, Asks
  <2> HIDE DEF r
  <2> QED
    BY <2>1, <2>2, OpensKept
<1>10. ASSUME NEW x \in Stream, WorkerLeaves(x) PROVE Opens'
  <2>1. /\ stream[x].worker = "leaving" /\ opening' = opening \ {stream[x].pub}
        /\ \/ stream'[x] = NoStream
           \/ stream'[x] = [stream[x] EXCEPT !.worker = "none"]
        /\ \A y \in Stream : y # x => stream'[y] = stream[y]
    BY <1>0, <1>10, NewRecords DEF WorkerLeaves, StreamStep, LifeInv, TypeOK
  <2>2. Asks(stream[x]) /\ Tidy(stream'[x]) /\ ~Asks(stream'[x])
    BY <1>0, <2>1, NoStreamType DEF StreamType, Tidy, Asks
  <2>3. \A y \in Stream : y # x /\ Asks(stream[y]) => stream[y].pub # stream[x].pub
    BY <1>0, <2>2 DEF Opens
  <2>4. \A b \in opening' : \E y \in Stream : Asks(stream'[y]) /\ stream'[y].pub = b
    <3> SUFFICES ASSUME NEW b \in opening, b # stream[x].pub
                 PROVE  \E y \in Stream : Asks(stream'[y]) /\ stream'[y].pub = b
      BY <2>1
    <3>1. PICK y \in Stream : Asks(stream[y]) /\ stream[y].pub = b
      BY <1>0 DEF Opens
    <3> QED
      BY <2>1, <3>1
  <2> QED
    BY <1>0, <2>1, <2>2, <2>3, <2>4 DEF Opens
<1>11. ASSUME NEW x \in Stream, StreamStep(x, Released(x)), opening' = opening,
              stream[x].caller \in {"check", "streaming"}
       PROVE  Opens'
  <2>1. /\ Tidy(Released(x)) /\ (Asks(Released(x)) <=> Asks(stream[x]))
        /\ Asks(Released(x)) => Released(x).pub = stream[x].pub
    BY <1>0, <1>11, NoStreamType DEF Released, StreamType, Tidy, Asks
  <2> QED
    BY <1>11, <2>1, OpensKept
<1>12. ASSUME NEW x \in Stream, SourceRecheck(x) PROVE Opens'
  <2> DEFINE r == [stream[x] EXCEPT !.caller = "streaming"]
  <2>1. stream[x].caller = "check" /\ opening' = opening
    BY <1>12 DEF SourceRecheck
  <2>2. Tidy(r) /\ (Asks(r) <=> Asks(stream[x])) /\ r.pub = stream[x].pub
    BY <1>0, <2>1 DEF StreamType, Tidy, Asks
  <2>3. StreamStep(x, r) \/ StreamStep(x, Released(x))
    BY <1>12 DEF SourceRecheck
  <2> HIDE DEF r
  <2> QED
    BY <1>11, <2>1, <2>2, <2>3, OpensKept
<1>13. ASSUME NEW x \in Stream, StreamEnds(x) PROVE Opens'
  BY <1>11, <1>13 DEF StreamEnds
<1> QED
  BY <1>1, <1>2, <1>3, <1>4, <1>5, <1>6, <1>7, <1>8, <1>9, <1>10, <1>12, <1>13 DEF ViewNext

LEMMA OpenInvariant == Spec => []OpenInv
<1>1. Init => Opens
  BY NoStreamType DEF Init, Opens, Tidy, Asks
<1>2. OpenInv /\ [Next]_vars => Opens'
  BY OpensElsewhere, OpensView DEF Next
<1>3. Init => OpenInv
  BY <1>1, LifeInit DEF OpenInv
<1>4. OpenInv /\ [Next]_vars => OpenInv'
  BY <1>2, LifeStep DEF OpenInv
<1> QED
  BY <1>3, <1>4, PTL DEF Spec

(***************************************************************************)
(* One native open per publication, whichever and however many viewers     *)
(* ask, give up and ask again; and every channel that opens, in time or    *)
(* late, has a goroutine that will close it.                               *)
(***************************************************************************)
THEOREM ChannelsAlwaysOwned == Spec => []ChannelsAreOwned
<1>1. ASSUME Opens, NEW b \in Conn
      PROVE  LET pending == {x \in Stream : /\ stream[x].pub = b
                                            /\ \/ stream[x].caller = "claimed"
                                               \/ stream[x].worker # "none"}
             IN  Cardinality(pending) = IF b \in opening THEN 1 ELSE 0
  <2> DEFINE pending == {x \in Stream : /\ stream[x].pub = b
                                        /\ \/ stream[x].caller = "claimed"
                                           \/ stream[x].worker # "none"}
  <2>1. \A x \in Stream : x \in pending <=> stream[x].pub = b /\ Asks(stream[x])
    BY DEF Asks
  <2>2. CASE b \in opening
    <3>1. PICK x \in Stream : Asks(stream[x]) /\ stream[x].pub = b
      BY <1>1, <2>2 DEF Opens
    <3>2. pending = {x}
      BY <1>1, <2>1, <3>1 DEF Opens
    <3> QED
      BY <2>2, <3>2, FS_Singleton
  <2>3. CASE b \notin opening
    <3>1. pending = {}
      BY <1>1, <2>1, <2>3 DEF Opens
    <3> QED
      BY <2>3, <3>1, FS_EmptySet
  <2> QED
    BY <2>2, <2>3
<1>2. Opens => OneOpening
  BY <1>1 DEF OneOpening
<1>3. Opens => NoOrphanChannel
  BY DEF Opens, Tidy, NoOrphanChannel
<1>4. OpenInv => ChannelsAreOwned
  BY <1>2, <1>3 DEF OpenInv, ChannelsAreOwned
<1> QED
  BY <1>4, OpenInvariant, PTL

-----------------------------------------------------------------------------
(***************************************************************************)
(* Shutdown.                                                               *)
(***************************************************************************)
(* Serve returns after the last connection has given up its place, and     *)
(* nothing can open a channel without a transport.                         *)
Gone == loop = "returned" => Places = {} /\ \A x \in Stream : stream[x].worker # "opened"

ShutInv == BindInv /\ SweptIsDead /\ Gone

LEMMA ShutStep == ShutInv /\ [Next]_vars => SweptIsDead' /\ Gone'
<1> SUFFICES ASSUME ShutInv, [Next]_vars PROVE SweptIsDead' /\ Gone'
  OBVIOUS
<1>0. LifeInv /\ TypeOK /\ Lives /\ SweptIsDead /\ Gone
  BY DEF ShutInv, BindInv, LifeInv
<1>1. CASE ServeNext
  <2> USE DEF SweptIsDead, Gone, TypeOK, Places, Tracked, Counted, serveVars, connVars
  <2>1. ASSUME NEW c \in Conn, Accept(c) PROVE SweptIsDead' /\ Gone'
    BY <1>0, <2>1 DEF Accept
  <2>2. ASSUME NEW c \in Conn, Reject(c) PROVE SweptIsDead' /\ Gone'
    BY <1>0, <2>2 DEF Reject
  <2>3. ASSUME NEW c \in Conn, Register(c) PROVE SweptIsDead' /\ Gone'
    BY <1>0, <2>3 DEF Register
  <2>4. CASE Cancel \/ ListenerFails \/ Sweep \/ LoopExits
    BY <1>0, <2>4 DEF Cancel, ListenerFails, Sweep, LoopExits
  <2>5. CASE Return
    BY <1>0, <2>5 DEF Return
  <2> QED
    BY <1>1, <2>1, <2>2, <2>3, <2>4, <2>5 DEF ServeNext
<1>2. ASSUME NEW c \in Conn,
             \/ Handshake(c) \/ Drop(c) \/ Queue(c) \/ Publish(c) \/ RequestsEnd(c)
             \/ Teardown(c) \/ Unpublish(c) \/ Sever(c) \/ Ended(c)
      PROVE  SweptIsDead' /\ Gone'
  <2>1. UNCHANGED <<ctx, loop>> /\ alive' \subseteq alive
    BY <1>2
    DEF Handshake, Drop, Queue, Publish, RequestsEnd, Teardown, Unpublish, Sever, Ended,
        serveVars
  <2>2. c \in Tracked
    BY <1>0, <1>2
    DEF Handshake, Drop, Queue, Publish, RequestsEnd, Teardown, Unpublish, Withdrawable,
        Sever, Ended, TypeOK, Lives, Tracked
  <2>3. \A b \in Conn : b # c => conn'[b] = conn[b]
    BY <1>0, <1>2
    DEF Handshake, Drop, Queue, Publish, RequestsEnd, Teardown, Unpublish, Sever, Ended,
        TypeOK, connVars
  <2>4. loop # "returned"
    BY <1>0, <2>2 DEF Gone, Places
  <2> QED
    BY <1>0, <2>1, <2>2, <2>3, <2>4 DEF SweptIsDead, Gone, Tracked
<1>3. CASE RelayNext \/ ViewNext
  <2>1. UNCHANGED <<ctx, loop, conn>>
    BY <1>3, ChannelsKeepBindings DEF serveVars, connVars
  <2>2. alive' \subseteq alive
    BY <1>3
    DEF RelayNext, Start, Lookup, NothingToRelay, Opened, OpenFails, Recheck, RelayEnds,
        Close, Finish, ViewNext, View, ViewerEnds, Source, Claim, Ask, SourceOpened,
        SourceRefused, Deliver, GiveUp, Abandon, WorkerLeaves, SourceRecheck, StreamEnds,
        MayClose
  <2>3. ASSUME NEW x \in Stream, stream'[x].worker = "opened"
        PROVE  stream[x].worker = "opened" \/ stream[x].pub \in alive
    <3>0. stream[x] \in StreamType
      BY <1>0, RecordTypes
    <3>1. CASE RelayNext
      BY <2>3, <3>1
      DEF RelayNext, Start, Lookup, NothingToRelay, Opened, OpenFails, Recheck, RelayEnds,
          Close, Finish
    <3>2. ASSUME NEW h \in Handler, View(h) \/ ViewerEnds(h)
          PROVE  stream[x].worker = "opened"
      <4>1. \/ stream'[x] = [stream[x] EXCEPT !.cancelled = TRUE]
            \/ stream'[x] = stream[x]
        BY <3>2 DEF View, ViewerEnds
      <4> QED
        BY <2>3, <3>0, <4>1 DEF StreamType
    <3>3. ASSUME NEW y \in Stream, NEW r, StreamStep(y, r),
                 y = x /\ r.worker = "opened" =>
                   stream[x].worker = "opened" \/ stream[x].pub \in alive
          PROVE  stream[x].worker = "opened" \/ stream[x].pub \in alive
      BY <1>0, <2>3, <3>3 DEF StreamStep, TypeOK
    <3>4. ASSUME NEW y \in Stream, NEW h \in Handler, NEW d \in Device, Source(y, h, d)
          PROVE  stream[x].worker = "opened" \/ stream[x].pub \in alive
      <4> DEFINE r == [NoStream EXCEPT !.caller = "called", !.viewer = h, !.pub = shares[d]]
      <4>1. StreamStep(y, r) /\ r.worker = "none"
        BY <3>4 DEF Source, NoStream
      <4> HIDE DEF r
      <4> QED
        BY <3>3, <4>1
    <3>5. ASSUME NEW y \in Stream, stream[y] \in StreamType,
                 Claim(y) \/ Ask(y) \/ SourceRefused(y) \/ Deliver(y) \/ GiveUp(y) \/ Abandon(y)
                 \/ WorkerLeaves(y) \/ SourceRecheck(y) \/ StreamEnds(y)
          PROVE  stream[x].worker = "opened" \/ stream[x].pub \in alive
      <4>1. PICK r : /\ StreamStep(y, r)
                     /\ r.worker = "opened" => stream[y].worker = "opened"
        <5>1. CASE Claim(y)
          BY <3>5, <5>1, NoStreamType DEF Claim, StreamType
        <5>2. CASE Ask(y)
          <6> DEFINE r == [stream[y] EXCEPT !.caller = "waiting", !.worker = "asking"]
          <6>1. StreamStep(y, r) /\ r.worker # "opened"
            BY <3>5, <5>2 DEF Ask, StreamType
          <6> QED
            BY <6>1
        <5>3. CASE SourceRefused(y)
          <6> DEFINE r == [stream[y] EXCEPT !.worker = "refused"]
          <6>1. StreamStep(y, r) /\ r.worker # "opened"
            BY <3>5, <5>3 DEF SourceRefused, StreamType
          <6> QED
            BY <6>1
        <5>4. CASE Deliver(y)
          <6> DEFINE r == [stream[y] EXCEPT
                !.worker = "leaving", !.caller = IF stream[y].open THEN "check" ELSE "none"]
          <6>1. StreamStep(y, r) /\ r.worker # "opened"
            BY <3>5, <5>4 DEF Deliver, StreamType
          <6> HIDE DEF r
          <6> QED
            BY <6>1
        <5>5. CASE GiveUp(y)
          <6> DEFINE r == [stream[y] EXCEPT !.caller = "none"]
          <6>1. StreamStep(y, r) /\ r.worker = stream[y].worker
            BY <3>5, <5>5 DEF GiveUp, StreamType
          <6> HIDE DEF r
          <6> QED
            BY <6>1
        <5>6. CASE Abandon(y)
          <6> DEFINE r == [stream[y] EXCEPT !.worker = "leaving", !.open = FALSE]
          <6>1. StreamStep(y, r) /\ r.worker # "opened"
            BY <3>5, <5>6 DEF Abandon, StreamType
          <6> HIDE DEF r
          <6> QED
            BY <6>1
        <5>7. CASE WorkerLeaves(y)
          BY <3>5, <5>7, NoStreamType DEF WorkerLeaves, StreamType
        <5>8. Released(y).worker = "opened" => stream[y].worker = "opened"
          BY <3>5, NoStreamType DEF Released, StreamType
        <5>9. CASE SourceRecheck(y)
          BY <3>5, <5>8, <5>9 DEF SourceRecheck, StreamType
        <5>10. CASE StreamEnds(y)
          BY <5>8, <5>10 DEF StreamEnds
        <5> QED
          BY <3>5, <5>1, <5>2, <5>3, <5>4, <5>5, <5>6, <5>7, <5>9, <5>10
      <4> QED
        BY <3>3, <4>1
    <3>6. ASSUME NEW y \in Stream, SourceOpened(y)
          PROVE  stream[x].worker = "opened" \/ stream[x].pub \in alive
      <4>1. StreamStep(y, [stream[y] EXCEPT !.worker = "opened", !.open = TRUE])
            /\ stream[y].pub \in alive
        BY <3>6 DEF SourceOpened
      <4> QED
        BY <3>3, <4>1
    <3>7. \A y \in Stream : stream[y] \in StreamType
      BY <1>0, RecordTypes
    <3> QED
      BY <1>3, <3>1, <3>2, <3>4, <3>5, <3>6, <3>7 DEF ViewNext
  <2>4. loop = "returned" => alive = {}
    BY <1>0 DEF Gone, TypeOK
  <2> QED
    BY <1>0, <2>1, <2>2, <2>3, <2>4 DEF SweptIsDead, Gone, Places, Tracked
<1>4. CASE UNCHANGED vars
  BY <1>0, <1>4 DEF vars, SweptIsDead, Gone, Places, Tracked
<1> QED
  BY <1>1, <1>2, <1>3, <1>4 DEF Next, ConnNext

(***************************************************************************)
(* Shutdown leaves nothing behind: no connection that was accepted while   *)
(* the canceller ran stays alive, and when Serve has returned there is no  *)
(* transport, publication, relay or worker with a channel.                 *)
(***************************************************************************)
THEOREM ShutdownAlwaysClean == Spec => []ShutdownIsClean
<1>1. Init => ShutInv
  BY LifeInit, NoStreamType DEF Init, ShutInv, BindInv, Bindings, SweptIsDead, Gone
<1>2. ShutInv /\ [Next]_vars => ShutInv'
  BY LifeStep, BindStep, ShutStep DEF ShutInv, BindInv
<1>3. ASSUME ShutInv, loop = "returned"
      PROVE  /\ alive = {} /\ \A d \in Device : shares[d] = NoConn
             /\ \A h \in Handler : handler[h].pc = "free"
             /\ \A x \in Stream : stream[x].worker # "opened"
  <2>1. Places = {} /\ \A x \in Stream : stream[x].worker # "opened"
    BY <1>3 DEF ShutInv, Gone
  <2>2. TypeOK /\ Bindings /\ Named
    BY <1>3 DEF ShutInv, BindInv, LifeInv
  <2>3. \A d \in Device : shares[d] = NoConn
    BY <2>1, <2>2 DEF TypeOK, Bindings, Places, Tracked
  <2>4. \A h \in Handler : handler[h].pc = "free"
    BY <2>1, <2>2 DEF Named, Places, Tracked
  <2> QED
    BY <2>1, <2>2, <2>3, <2>4 DEF TypeOK
<1>4. ShutInv => ShutdownIsClean
  BY <1>3 DEF ShutInv, ShutdownIsClean, ReturnsClean
<1> QED
  BY <1>1, <1>2, <1>4, PTL DEF Spec

=============================================================================
