------------------------------- MODULE Server --------------------------------
(***************************************************************************)
(* The SSH server of Hive (hive/internal/server): accepting and tearing    *)
(* down connections, publishing and withdrawing shares, relaying consumer  *)
(* channels to publishers, and opening publisher channels for the viewers  *)
(* of the aggregated gateway (whose own protocol is module Gateway).       *)
(*                                                                         *)
(* Every goroutine is a process here: the accept loop, the canceller, and  *)
(* per connection its main goroutine and its request loop; one per         *)
(* consumer channel (Handler); and per gateway source its caller and the   *)
(* worker that opens the channel (Stream).  What runs under s.mu is one    *)
(* step.                                                                   *)
(*                                                                         *)
(* A publication is identified with its connection, which publishes once:  *)
(* the connection is the binding, and its generation.  A publication has   *)
(* one share; the shares of one publication come and go together.          *)
(*                                                                         *)
(* A consumer channel is a terminal (client), a question that a publisher  *)
(* answers (query), a call of its API (api), or a view of all (viewer).    *)
(***************************************************************************)
EXTENDS Integers, FiniteSets

CONSTANTS
  Conn,           \* connections
  Device,         \* device keys
  DeviceOf,       \* the device of every connection
  Bees,           \* connections with user "bee": the others consume
  Handler,        \* s.channels: consumer channels served at a time
  Stream,         \* gateway sources being opened or open
  Kinds,          \* what consumer channels are for
  MaxConns,       \* s.sem
  MaxViewers,     \* s.gatewaySlots
  NoConn

ASSUME ServerAssumption ==
  /\ DeviceOf \in [Conn -> Device] /\ Bees \subseteq Conn /\ NoConn \notin Conn
  /\ Kinds \subseteq {"client", "query", "api", "viewer"}
  /\ MaxConns \in Nat /\ MaxViewers \in Nat /\ Handler \cap Stream = {}

VARIABLES
  ctx,            \* the context of Serve: "serving", "cancelled" or "swept"
  loop,           \* the accept loop: "accepting", "exited" or "returned"
  conn,           \* where the main goroutine of every connection is
  alive,          \* transports that are open
  queued,         \* connections whose request loop has a publish request
  drained,        \* connections whose request loop has ended
  shares,         \* s.shares: the publication of every device
  owners,         \* s.owners
  active,         \* binding.active: the relays a publication must take along
  opening,        \* binding.opening
  closeList,      \* unpublish: channels collected and not closed yet
  handler,        \* the consumer channels
  stream          \* the gateway sources

serveVars == <<ctx, loop>>
connVars == <<conn, queued, drained, closeList>>
shareVars == <<shares, owners>>
vars == <<ctx, loop, conn, alive, queued, drained, shares, owners, active,
          opening, closeList, handler, stream>>

NoHandler == [pc |-> "free", kind |-> "client", at |-> NoConn, pub |-> NoConn,
              open |-> FALSE, severed |-> FALSE]
NoStream == [caller |-> "none", worker |-> "none", viewer |-> NoConn, pub |-> NoConn,
             open |-> FALSE, severed |-> FALSE, cancelled |-> FALSE]

Current(b) == b # NoConn /\ shares[DeviceOf[b]] = b

(* finishChannel, or a timer of an operation: the peer does what it was    *)
(* asked to, or its transport is closed.                                   *)
MayClose(c) == alive' \in {alive, alive \ {c}}

(* Connections in s.conns, and those that hold a place in s.sem.           *)
Tracked == {c \in Conn : conn[c] \notin {"new", "accepted", "ended"}}
Places == Tracked \cup {c \in Conn : conn[c] = "accepted"}

Init ==
  /\ ctx = "serving" /\ loop = "accepting"
  /\ conn = [c \in Conn |-> "new"] /\ alive = {}
  /\ queued = {} /\ drained = {}
  /\ shares = [d \in Device |-> NoConn] /\ owners = shares
  /\ active = [c \in Conn |-> {}] /\ opening = {}
  /\ closeList = [c \in Conn |-> {}]
  /\ handler = [h \in Handler |-> NoHandler]
  /\ stream = [x \in Stream |-> NoStream]

-----------------------------------------------------------------------------
(***************************************************************************)
(* Serve.                                                                  *)
(***************************************************************************)
(* l.Accept, with a place in s.sem.                                        *)
Accept(c) ==
  /\ loop = "accepting" /\ ctx # "swept" /\ conn[c] = "new"
  /\ \A d \in Conn : conn[d] # "accepted"
  /\ Cardinality(Places) < MaxConns
  /\ conn' = [conn EXCEPT ![c] = "accepted"] /\ alive' = alive \cup {c}
  /\ UNCHANGED <<serveVars, queued, drained, closeList, shareVars, active, opening,
                 handler, stream>>

(* l.Accept, without.                                                      *)
Reject(c) ==
  /\ loop = "accepting" /\ ctx # "swept" /\ conn[c] = "new"
  /\ \A d \in Conn : conn[d] # "accepted"
  /\ Cardinality(Places) >= MaxConns
  /\ conn' = [conn EXCEPT ![c] = "ended"]
  /\ UNCHANGED <<serveVars, alive, queued, drained, closeList, shareVars, active,
                 opening, handler, stream>>

(* Faulty: the context is not checked under the lock.                      *)
RegisterAnyway(c) ==
  /\ conn[c] = "accepted"
  /\ conn' = [conn EXCEPT ![c] = "handshake"]
  /\ UNCHANGED <<serveVars, alive, queued, drained, closeList, shareVars, active,
                 opening, handler, stream>>

(* The connection enters s.conns, unless Serve has been cancelled.         *)
Register(c) ==
  /\ conn[c] = "accepted"
  /\ IF ctx = "serving"
     THEN conn' = [conn EXCEPT ![c] = "handshake"] /\ UNCHANGED <<loop, alive>>
     ELSE /\ conn' = [conn EXCEPT ![c] = "ended"]
          /\ alive' = alive \ {c} /\ loop' = "exited"
  /\ UNCHANGED <<ctx, queued, drained, closeList, shareVars, active, opening,
                 handler, stream>>

(* The context is cancelled by the caller.                                 *)
Cancel ==
  /\ ctx = "serving"
  /\ ctx' = "cancelled"
  /\ UNCHANGED <<loop, alive, connVars, shareVars, active, opening, handler, stream>>

(* l.Accept fails on its own: Serve leaves, and cancels.                   *)
ListenerFails ==
  /\ ctx = "serving" /\ loop = "accepting" /\ \A d \in Conn : conn[d] # "accepted"
  /\ ctx' = "cancelled" /\ loop' = "exited"
  /\ UNCHANGED <<alive, connVars, shareVars, active, opening, handler, stream>>

(* The canceller closes the listener and every connection of s.conns.      *)
Sweep ==
  /\ ctx = "cancelled"
  /\ ctx' = "swept" /\ alive' = alive \ Tracked
  /\ UNCHANGED <<loop, connVars, shareVars, active, opening, handler, stream>>

(* l.Accept fails because the listener is closed.                          *)
LoopExits ==
  /\ ctx = "swept" /\ loop = "accepting" /\ \A d \in Conn : conn[d] # "accepted"
  /\ loop' = "exited"
  /\ UNCHANGED <<ctx, alive, connVars, shareVars, active, opening, handler, stream>>

(* Workers that s.wg counts.                                               *)
Counted == {x \in Stream : stream[x].worker # "none"}

(* Faulty: only connections are waited for.                                *)
ReturnEarly ==
  /\ loop = "exited" /\ Places = {}
  /\ loop' = "returned"
  /\ UNCHANGED <<ctx, alive, connVars, shareVars, active, opening, handler, stream>>

(* s.wg.Wait.                                                              *)
Return ==
  /\ loop = "exited" /\ Places = {} /\ Counted = {}
  /\ loop' = "returned"
  /\ UNCHANGED <<ctx, alive, connVars, shareVars, active, opening, handler, stream>>

-----------------------------------------------------------------------------
(***************************************************************************)
(* A connection: its handshake, its request loop and its teardown.         *)
(***************************************************************************)
(* The handshake succeeds, or its 10 seconds pass.                         *)
Handshake(c) ==
  /\ conn[c] = "handshake"
  /\ \/ c \in alive /\ conn' = [conn EXCEPT ![c] = "open"] /\ UNCHANGED alive
     \/ conn' = [conn EXCEPT ![c] = "ended"] /\ alive' = alive \ {c}
  /\ UNCHANGED <<serveVars, queued, drained, closeList, shareVars, active, opening,
                 handler, stream>>

(* The transport ends: the peer leaves, or heartbeat or a write deadline   *)
(* closes it.                                                              *)
Drop(c) ==
  /\ conn[c] = "open" /\ c \in alive
  /\ alive' = alive \ {c}
  /\ UNCHANGED <<serveVars, connVars, shareVars, active, opening, handler, stream>>

(* The peer sends a publish request.                                       *)
Queue(c) ==
  /\ conn[c] = "open" /\ c \in Bees \cap alive /\ c \notin queued
  /\ queued' = queued \cup {c}
  /\ UNCHANGED <<serveVars, conn, alive, drained, closeList, shareVars, active, opening,
                 handler, stream>>

(* Faulty: a device that publishes already is not refused.                 *)
MayPublishAgain(c) == TRUE

(* No connection of the device publishes.                                  *)
MayPublish(c) == owners[DeviceOf[c]] = NoConn

(* requests and publish; the registry of names may refuse as well.         *)
Publish(c) ==
  /\ c \in queued
  /\ queued' = queued \ {c}
  /\ \/ /\ MayPublish(c)
        /\ shares' = [shares EXCEPT ![DeviceOf[c]] = c]
        /\ owners' = [owners EXCEPT ![DeviceOf[c]] = c]
     \/ UNCHANGED shareVars
  /\ UNCHANGED <<serveVars, conn, alive, drained, closeList, active, opening, handler,
                 stream>>

(* The transport is gone and the queue of requests is empty.               *)
RequestsEnd(c) ==
  /\ conn[c] \in {"open", "draining"} /\ c \notin alive \cup queued \cup drained
  /\ drained' = drained \cup {c}
  /\ UNCHANGED <<serveVars, conn, alive, queued, closeList, shareVars, active, opening,
                 handler, stream>>

(* The channel loop of Serve ends, and conn.Close is called.               *)
Teardown(c) ==
  /\ conn[c] = "open" /\ c \notin alive
  /\ conn' = [conn EXCEPT ![c] = "draining"]
  /\ UNCHANGED <<serveVars, alive, queued, drained, closeList, shareVars, active, opening,
                 handler, stream>>

(* <-requestsDone.                                                         *)
Withdrawable(c) == conn[c] = "draining" /\ c \in drained

(* unpublish, under the lock.                                              *)
Unpublish(c) ==
  /\ Withdrawable(c)
  /\ conn' = [conn EXCEPT ![c] = "severing"]
  /\ shares' = [d \in Device |-> IF shares[d] = c THEN NoConn ELSE shares[d]]
  /\ owners' = [d \in Device |-> IF owners[d] = c THEN NoConn ELSE owners[d]]
  /\ closeList' = [closeList EXCEPT
                     ![c] = IF \E d \in Device : shares[d] = c THEN active[c] ELSE {}]
  /\ UNCHANGED <<serveVars, alive, queued, drained, active, opening, handler, stream>>

(* unpublish, after it: one channel of the list is closed.                 *)
Sever(c) ==
  /\ conn[c] = "severing"
  /\ \E z \in closeList[c] :
       /\ closeList' = [closeList EXCEPT ![c] = @ \ {z}]
       /\ IF z \in Handler
          THEN handler' = [handler EXCEPT ![z].severed = TRUE] /\ UNCHANGED stream
          ELSE stream' = [stream EXCEPT ![z].severed = TRUE] /\ UNCHANGED handler
  /\ UNCHANGED <<serveVars, conn, alive, queued, drained, shareVars, active, opening>>

(* handlers.Wait, and the connection leaves s.conns and s.sem.             *)
Ended(c) ==
  /\ conn[c] = "severing" /\ closeList[c] = {}
  /\ \A h \in Handler : handler[h].at # c
  /\ conn' = [conn EXCEPT ![c] = "ended"]
  /\ UNCHANGED <<serveVars, alive, queued, drained, closeList, shareVars, active, opening,
                 handler, stream>>

-----------------------------------------------------------------------------
(***************************************************************************)
(* A consumer channel: session with execute, and api.                      *)
(***************************************************************************)
HandlerStep(h, r) == handler' = [handler EXCEPT ![h] = r]

(* A channel takes a slot.                                                 *)
Start(h, c, k) ==
  /\ handler[h].pc = "free" /\ conn[c] = "open" /\ c \notin Bees
  /\ HandlerStep(h, [NoHandler EXCEPT !.pc = "started", !.kind = k, !.at = c])
  /\ UNCHANGED <<serveVars, alive, connVars, shareVars, active, opening, stream>>

(* The publication takes the channel along when it is withdrawn.           *)
Taken(h, b) == [active EXCEPT ![b] = @ \cup {h}]

(* execute registers the consumer channel with the publication it finds,   *)
(* api does so after the publisher's channel is open.                      *)
Lookup(h, d) ==
  /\ handler[h].pc = "started" /\ handler[h].kind # "viewer"
  /\ shares[d] # NoConn /\ d # DeviceOf[handler[h].at]
  /\ HandlerStep(h, [handler[h] EXCEPT !.pc = "opening", !.pub = shares[d]])
  /\ IF handler[h].kind = "api" THEN UNCHANGED active ELSE active' = Taken(h, shares[d])
  /\ UNCHANGED <<serveVars, alive, connVars, shareVars, opening, stream>>

(* Nothing to relay: no such publication, another generation, a request    *)
(* that is answered at once, or its 10 seconds pass.                       *)
NothingToRelay(h) ==
  /\ handler[h].pc = "started"
  /\ HandlerStep(h, [handler[h] EXCEPT !.pc = "closing"])
  /\ MayClose(handler[h].at)
  /\ UNCHANGED <<serveVars, connVars, shareVars, active, opening, stream>>

(* b.conn.OpenChannel succeeds.                                            *)
Opened(h) ==
  /\ handler[h].pc = "opening" /\ handler[h].pub \in alive
  /\ HandlerStep(h, [handler[h] EXCEPT
       !.open = TRUE, !.pc = IF handler[h].kind = "api" THEN "check" ELSE "relay"])
  /\ UNCHANGED <<serveVars, alive, connVars, shareVars, active, opening, stream>>

(* Faulty: nobody closes the transport of a publisher that does not answer.*)
OpenRefused(h) ==
  /\ handler[h].pc = "opening" /\ handler[h].pub \notin alive
  /\ HandlerStep(h, [handler[h] EXCEPT !.pc = "closing"])
  /\ UNCHANGED <<serveVars, alive, connVars, shareVars, active, opening, stream>>

(* It fails: the publisher refuses, is gone, or loses its transport after  *)
(* 10 seconds.                                                             *)
OpenFails(h) ==
  /\ handler[h].pc = "opening"
  /\ HandlerStep(h, [handler[h] EXCEPT !.pc = "closing"])
  /\ MayClose(handler[h].pub)
  /\ UNCHANGED <<serveVars, connVars, shareVars, active, opening, stream>>

(* Faulty: the check after opening is left out.                            *)
RecheckOpen(h) ==
  /\ handler[h].pc = "check"
  /\ HandlerStep(h, [handler[h] EXCEPT !.pc = "relay"])
  /\ active' = Taken(h, handler[h].pub)
  /\ UNCHANGED <<serveVars, alive, connVars, shareVars, opening, stream>>

(* api checks again under the lock; accepting its own channel may fail.    *)
Recheck(h) ==
  /\ handler[h].pc = "check"
  /\ \/ /\ Current(handler[h].pub)
        /\ HandlerStep(h, [handler[h] EXCEPT !.pc = "relay"])
        /\ active' = Taken(h, handler[h].pub)
     \/ HandlerStep(h, [handler[h] EXCEPT !.pc = "closing"]) /\ UNCHANGED active
  /\ UNCHANGED <<serveVars, alive, connVars, shareVars, opening, stream>>

(* splice, relayAPI or the copy of an answer ends: both channels close,    *)
(* and the transport of a peer that does not acknowledge it is closed.     *)
RelayEnds(h) ==
  /\ handler[h].pc = "relay"
  /\ HandlerStep(h, [handler[h] EXCEPT !.pc = "closing"])
  /\ \/ MayClose(handler[h].at) \/ MayClose(handler[h].pub)
     \/ alive' = alive \ {handler[h].at, handler[h].pub}
  /\ UNCHANGED <<serveVars, connVars, shareVars, active, opening, stream>>

(* A relay that a gone peer, or a closed channel, ends by itself: the copy *)
(* of an answer (query) only reads from the publisher.                     *)
RelayBroken(h) ==
  \/ handler[h].pub \notin alive
  \/ handler[h].kind # "query" /\ (handler[h].severed \/ handler[h].at \notin alive)

(* finishChannel of the publisher's channel; and execute, or api before    *)
(* it, leaves the publication.                                             *)
Close(h) ==
  /\ handler[h].pc = "closing"
  /\ HandlerStep(h, [handler[h] EXCEPT !.pc = "leaving", !.open = FALSE])
  /\ active' = [b \in Conn |-> active[b] \ {h}]
  /\ IF handler[h].open THEN MayClose(handler[h].pub) ELSE UNCHANGED alive
  /\ UNCHANGED <<serveVars, connVars, shareVars, opening, stream>>

(* finishChannel of the consumer's channel, and the slot is free.          *)
Finish(h) ==
  /\ handler[h].pc = "leaving"
  /\ HandlerStep(h, NoHandler)
  /\ MayClose(handler[h].at)
  /\ UNCHANGED <<serveVars, connVars, shareVars, active, opening, stream>>

-----------------------------------------------------------------------------
(***************************************************************************)
(* A viewer of the aggregated gateway and the sources it opens.            *)
(***************************************************************************)
Viewers == {h \in Handler : handler[h].pc = "viewing"}

(* aggregate, with a viewer slot; without, it is NothingToRelay.           *)
View(h) ==
  /\ handler[h].pc = "started" /\ handler[h].kind = "viewer"
  /\ Cardinality(Viewers) < MaxViewers
  /\ HandlerStep(h, [handler[h] EXCEPT !.pc = "viewing"])
  /\ UNCHANGED <<serveVars, alive, connVars, shareVars, active, opening, stream>>

(* gateway.Serve returns: the context of its sources is cancelled.         *)
ViewerEnds(h) ==
  /\ handler[h].pc = "viewing"
  /\ HandlerStep(h, [handler[h] EXCEPT !.pc = "closing"])
  /\ stream' = [x \in Stream |->
       IF stream[x].viewer = h THEN [stream[x] EXCEPT !.cancelled = TRUE]
       ELSE stream[x]]
  /\ UNCHANGED <<serveVars, alive, connVars, shareVars, active, opening>>

StreamStep(x, r) == stream' = [stream EXCEPT ![x] = r]

(* The gateway takes a share from the catalog and calls Open.              *)
Source(x, h, d) ==
  /\ stream[x] = NoStream /\ h \in Viewers
  /\ shares[d] # NoConn /\ d # DeviceOf[handler[h].at]
  /\ StreamStep(x, [NoStream EXCEPT !.caller = "called", !.viewer = h, !.pub = shares[d]])
  /\ UNCHANGED <<serveVars, alive, connVars, shareVars, active, opening, handler>>

(* openGatewaySource may go on with the publication.                       *)
MayOpen(b) == Current(b) /\ b \notin opening

(* openGatewaySource, under the lock.                                      *)
Claim(x) ==
  /\ stream[x].caller = "called"
  /\ IF MayOpen(stream[x].pub)
     THEN /\ opening' = opening \cup {stream[x].pub}
          /\ StreamStep(x, [stream[x] EXCEPT !.caller = "claimed"])
     ELSE StreamStep(x, NoStream) /\ UNCHANGED opening
  /\ UNCHANGED <<serveVars, alive, connVars, shareVars, active, handler>>

(* s.wg.Add, and the worker asks the publisher.                            *)
Ask(x) ==
  /\ stream[x].caller = "claimed"
  /\ StreamStep(x, [stream[x] EXCEPT !.caller = "waiting", !.worker = "asking"])
  /\ UNCHANGED <<serveVars, alive, connVars, shareVars, active, opening, handler>>

(* b.conn.OpenChannel returns a channel.                                   *)
SourceOpened(x) ==
  /\ stream[x].worker = "asking" /\ stream[x].pub \in alive
  /\ StreamStep(x, [stream[x] EXCEPT !.worker = "opened", !.open = TRUE])
  /\ UNCHANGED <<serveVars, alive, connVars, shareVars, active, opening, handler>>

(* Or an error: the publisher refuses, or is gone.  There is no timer.     *)
SourceRefused(x) ==
  /\ stream[x].worker = "asking"
  /\ StreamStep(x, [stream[x] EXCEPT !.worker = "refused"])
  /\ UNCHANGED <<serveVars, alive, connVars, shareVars, active, opening, handler>>

(* The worker hands its result to the caller that still waits for it.      *)
Deliver(x) ==
  /\ stream[x].caller = "waiting" /\ stream[x].worker \in {"opened", "refused"}
  /\ StreamStep(x, [stream[x] EXCEPT
       !.worker = "leaving", !.caller = IF stream[x].open THEN "check" ELSE "none"])
  /\ UNCHANGED <<serveVars, alive, connVars, shareVars, active, opening, handler>>

(* The caller's 10 seconds pass, or its viewer has left.                   *)
GiveUp(x) ==
  /\ stream[x].caller = "waiting"
  /\ StreamStep(x, [stream[x] EXCEPT !.caller = "none"])
  /\ UNCHANGED <<serveVars, alive, connVars, shareVars, active, opening, handler>>

(* Faulty: a channel that opens late is left open.                         *)
Forgotten(x) ==
  /\ stream[x].caller # "waiting" /\ stream[x].worker \in {"opened", "refused"}
  /\ StreamStep(x, [stream[x] EXCEPT !.worker = "leaving"])
  /\ UNCHANGED <<serveVars, alive, connVars, shareVars, active, opening, handler>>

(* Nobody waits any more: the worker closes the channel itself.            *)
Abandon(x) ==
  /\ stream[x].caller # "waiting" /\ stream[x].worker \in {"opened", "refused"}
  /\ StreamStep(x, [stream[x] EXCEPT !.worker = "leaving", !.open = FALSE])
  /\ IF stream[x].open THEN MayClose(stream[x].pub) ELSE UNCHANGED alive
  /\ UNCHANGED <<serveVars, connVars, shareVars, active, opening, handler>>

(* b.opening = false, and s.wg.Done.                                       *)
WorkerLeaves(x) ==
  /\ stream[x].worker = "leaving"
  /\ opening' = opening \ {stream[x].pub}
  /\ StreamStep(x, IF stream[x].caller = "none" THEN NoStream
                   ELSE [stream[x] EXCEPT !.worker = "none"])
  /\ UNCHANGED <<serveVars, alive, connVars, shareVars, active, handler>>

(* The stream is finished; its record is free when the worker is gone.     *)
Released(x) ==
  IF stream[x].worker = "none" THEN NoStream
  ELSE [stream[x] EXCEPT !.caller = "none", !.open = FALSE]

(* openGatewaySource checks again under the lock, and registers.           *)
SourceRecheck(x) ==
  /\ stream[x].caller = "check"
  /\ IF Current(stream[x].pub)
     THEN /\ StreamStep(x, [stream[x] EXCEPT !.caller = "streaming"])
          /\ active' = Taken(x, stream[x].pub) /\ UNCHANGED alive
     ELSE StreamStep(x, Released(x)) /\ MayClose(stream[x].pub) /\ UNCHANGED active
  /\ UNCHANGED <<serveVars, connVars, shareVars, opening, handler>>

(* gatewayStream.Close.                                                    *)
StreamEnds(x) ==
  /\ stream[x].caller = "streaming"
  /\ StreamStep(x, Released(x))
  /\ active' = [b \in Conn |-> active[b] \ {x}]
  /\ MayClose(stream[x].pub)
  /\ UNCHANGED <<serveVars, connVars, shareVars, opening, handler>>

(* The gateway closes a stream that is cancelled or fails.                 *)
StreamBroken(x) ==
  stream[x].cancelled \/ stream[x].severed \/ stream[x].pub \notin alive

-----------------------------------------------------------------------------
ServeNext ==
  \/ \E c \in Conn : Accept(c) \/ Reject(c) \/ Register(c)
  \/ Cancel \/ ListenerFails \/ Sweep \/ LoopExits \/ Return

ConnNext ==
  \E c \in Conn :
    \/ Handshake(c) \/ Drop(c) \/ Queue(c) \/ Publish(c) \/ RequestsEnd(c)
    \/ Teardown(c) \/ Unpublish(c) \/ Sever(c) \/ Ended(c)

RelayNext ==
  \E h \in Handler :
    \/ \E c \in Conn, k \in Kinds : Start(h, c, k)
    \/ \E d \in Device : Lookup(h, d)
    \/ NothingToRelay(h) \/ Opened(h) \/ OpenFails(h) \/ Recheck(h) \/ RelayEnds(h)
    \/ Close(h) \/ Finish(h)

ViewNext ==
  \/ \E h \in Handler : View(h) \/ ViewerEnds(h)
  \/ \E x \in Stream, h \in Handler, d \in Device : Source(x, h, d)
  \/ \E x \in Stream :
       \/ Claim(x) \/ Ask(x) \/ SourceOpened(x) \/ SourceRefused(x) \/ Deliver(x)
       \/ GiveUp(x) \/ Abandon(x) \/ WorkerLeaves(x) \/ SourceRecheck(x) \/ StreamEnds(x)

Next == ServeNext \/ ConnNext \/ RelayNext \/ ViewNext

Spec == Init /\ [][Next]_vars

(***************************************************************************)
(* What the server does by itself happens; peers owe it nothing.  A        *)
(* channel to a publisher may stay unanswered, and only what breaks a      *)
(* relay or a timer ends it.                                               *)
(***************************************************************************)
Fairness ==
  /\ WF_vars(Sweep) /\ WF_vars(LoopExits) /\ WF_vars(Return)
  /\ \A c \in Conn :
       /\ WF_vars(Register(c)) /\ WF_vars(Handshake(c)) /\ WF_vars(Publish(c))
       /\ WF_vars(RequestsEnd(c)) /\ WF_vars(Teardown(c)) /\ WF_vars(Unpublish(c))
       /\ WF_vars(Sever(c)) /\ WF_vars(Ended(c))
  /\ \A h \in Handler :
       /\ WF_vars(NothingToRelay(h)) /\ WF_vars(OpenFails(h)) /\ WF_vars(Recheck(h))
       /\ WF_vars(RelayBroken(h) /\ RelayEnds(h)) /\ WF_vars(Close(h)) /\ WF_vars(Finish(h))
       /\ WF_vars(handler[h].at \notin alive /\ ViewerEnds(h))
  /\ \A x \in Stream :
       /\ WF_vars(Claim(x)) /\ WF_vars(Ask(x)) /\ WF_vars(Deliver(x)) /\ WF_vars(GiveUp(x))
       /\ WF_vars(stream[x].pub \notin alive /\ SourceRefused(x)) /\ WF_vars(Abandon(x))
       /\ WF_vars(WorkerLeaves(x)) /\ WF_vars(SourceRecheck(x))
       /\ WF_vars(StreamBroken(x) /\ StreamEnds(x))

FairSpec == Spec /\ Fairness

-----------------------------------------------------------------------------
(* The shape of the state; a place is never used twice.                    *)
TypeOK ==
  /\ ctx \in {"serving", "cancelled", "swept"}
  /\ loop \in {"accepting", "exited", "returned"}
  /\ conn \in [Conn -> {"new", "accepted", "handshake", "open", "draining", "severing", "ended"}]
  /\ alive \subseteq Places /\ queued \subseteq Tracked /\ drained \subseteq Conn
  /\ shares \in [Device -> Conn \cup {NoConn}] /\ owners \in [Device -> Conn \cup {NoConn}]
  /\ active \in [Conn -> SUBSET (Handler \cup Stream)]
  /\ closeList \in [Conn -> SUBSET (Handler \cup Stream)]
  /\ opening \subseteq Conn
  /\ handler \in [Handler ->
       [pc : {"free", "started", "opening", "check", "relay", "viewing", "closing", "leaving"},
        kind : {"client", "query", "api", "viewer"}, at : Conn \cup {NoConn}, pub : Conn \cup {NoConn},
        open : BOOLEAN, severed : BOOLEAN]]
  /\ stream \in [Stream ->
       [caller : {"none", "called", "claimed", "waiting", "check", "streaming"},
        worker : {"none", "asking", "opened", "refused", "leaving"},
        viewer : Handler \cup {NoConn}, pub : Conn \cup {NoConn},
        open : BOOLEAN, severed : BOOLEAN, cancelled : BOOLEAN]]

(***************************************************************************)
(* A connection that has been unpublished never publishes again: a request *)
(* it still had queued cannot leave a publication behind that nobody       *)
(* withdraws, and that would lock the device out until Hive restarts.      *)
(***************************************************************************)
NoGhostPublication ==
  \A d \in Device, c \in Conn :
    c \in {shares[d], owners[d]} => conn[c] \in {"open", "draining"}

(***************************************************************************)
(* A stable share ID never passes from one generation to the next: a       *)
(* publication is withdrawn, with its relays collected, before a           *)
(* reconnected device can publish.                                         *)
(***************************************************************************)
WithdrawnBeforeReplaced ==
  [][\A d \in Device : shares[d] # NoConn /\ shares'[d] # shares[d] => shares'[d] = NoConn]_vars

(***************************************************************************)
(* No relay outlives its publication: each one that carries data is known  *)
(* to the publication, or has been, or is about to be, closed by unpublish *)
(* (api: "Check again after opening the reverse channel; unpublish may     *)
(* have run").                                                             *)
(***************************************************************************)
Follows(z, r) ==
  \/ Current(r.pub) /\ z \in active[r.pub]
  \/ r.severed
  \/ z \in closeList[r.pub]
RelaysFollow ==
  /\ \A h \in Handler : handler[h].pc = "relay" => Follows(h, handler[h])
  /\ \A x \in Stream : stream[x].caller = "streaming" => Follows(x, stream[x])

(***************************************************************************)
(* Publications and what is relayed to them live and die with the          *)
(* connection that publishes.                                              *)
(***************************************************************************)
PublicationsAreReal == NoGhostPublication /\ RelaysFollow

(***************************************************************************)
(* "one pending native open per publication", whichever viewers ask, give  *)
(* up and ask again; and the mark is up for as long as it is pending.      *)
(***************************************************************************)
OneOpening ==
  \A b \in Conn :
    LET pending == {x \in Stream : /\ stream[x].pub = b
                                   /\ \/ stream[x].caller = "claimed"
                                      \/ stream[x].worker # "none"}
    IN  Cardinality(pending) = IF b \in opening THEN 1 ELSE 0

(***************************************************************************)
(* "Late successful opens are closed" (protocol/v1.md:245): every channel  *)
(* opened for a source has a goroutine that will close it, also when it    *)
(* opens after its caller gave up.                                         *)
(***************************************************************************)
NoOrphanChannel ==
  \A x \in Stream : stream[x].open => \/ stream[x].worker = "opened"
                                      \/ stream[x].caller \in {"check", "streaming"}

(***************************************************************************)
(* Native channels are opened one at a time and none is lost, whoever gives*)
(* up first.                                                               *)
(***************************************************************************)
ChannelsAreOwned == OneOpening /\ NoOrphanChannel

(***************************************************************************)
(* Once the canceller has run, no connection of s.conns is alive: one that *)
(* was accepted while it ran has been refused or closed.                   *)
(***************************************************************************)
SweptIsDead == ctx = "swept" => alive \cap Tracked = {}

(***************************************************************************)
(* When Serve has returned nothing is left: no transport, no publication,  *)
(* no relay, and no worker with a channel (one that claimed a publication  *)
(* and was not counted by s.wg yet may come after that, and can only fail).*)
(***************************************************************************)
ReturnsClean ==
  loop = "returned" =>
    /\ alive = {} /\ \A d \in Device : shares[d] = NoConn
    /\ \A h \in Handler : handler[h].pc = "free"
    /\ \A x \in Stream : stream[x].worker # "opened"

(***************************************************************************)
(* Shutdown leaves nothing behind, at either of its two stages.            *)
(***************************************************************************)
ShutdownIsClean == SweptIsDead /\ ReturnsClean

(***************************************************************************)
(* The teardown of a connection ends, whatever the other peers do: its     *)
(* handlers do not wait forever for a publisher that does not answer.  The *)
(* one exception is a query, whose answer execute copies without watching  *)
(* the consumer: it ends with the publisher's answer or connection.        *)
(***************************************************************************)
ConnEnds ==
  \A c \in Conn :
    (conn[c] = "open" /\ c \notin alive)
      ~> \/ conn[c] = "ended"
         \/ \E h \in Handler : /\ handler[h].at = c /\ handler[h].kind = "query"
                               /\ handler[h].pc = "relay"

(* A cancelled Serve returns.                                              *)
ServeReturns == ctx = "cancelled" ~> loop = "returned"

=============================================================================
